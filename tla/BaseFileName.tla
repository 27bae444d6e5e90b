---------------------------- MODULE BaseFileName ----------------------------
(***************************************************************************)
(* getbasefilename of pstore/pstore-clean.c: the name of a dump without    *)
(* its trailing "-<number>", under which its rule is looked up.            *)
(*                                                                         *)
(* A C string is a function from indices to character classes: the         *)
(* separator, a digit, any other character, and the terminator.            *)
(***************************************************************************)
EXTENDS Integers

CONSTANTS
    MaxLen,     \* FILENAME_MAX, the size of the buffer
    FileNames   \* the directory entries: terminated strings shorter than that

Char == {"-", "digit", "letter", "NUL"}
Index == 0 .. MaxLen - 1

ASSUME MaxLenAssumption == MaxLen \in Nat \ {0}
ASSUME NamesAssumption ==
    \A s \in FileNames : s \in [Index -> Char] /\ \E k \in Index : s[k] = "NUL"

VARIABLES filename, basefilename, i, lastoccurance, filename_len, phase

baseVars == <<filename, basefilename, i, lastoccurance, filename_len, phase>>

BaseInit ==
    /\ filename \in FileNames
    /\ basefilename \in [Index -> {"letter", "digit"}]   \* stack garbage
    /\ i = 0 /\ lastoccurance = 0 /\ filename_len = MaxLen
    /\ phase = "scan"

\* Mutant: the first separator is remembered.
Scan_first ==
    /\ phase = "scan" /\ i < MaxLen
    /\ lastoccurance' = IF filename[i] = "-" /\ lastoccurance = 0 THEN i
                        ELSE lastoccurance
    /\ basefilename' = [basefilename EXCEPT ![i] = filename[i]]
    /\ IF filename[i] = "NUL"
       THEN filename_len' = i /\ phase' = "cut" /\ UNCHANGED i
       ELSE i' = i + 1 /\ UNCHANGED <<filename_len, phase>>
    /\ UNCHANGED filename

\* One iteration of the copying loop.
Scan ==
    /\ phase = "scan" /\ i < MaxLen
    /\ lastoccurance' = IF filename[i] = "-" THEN i ELSE lastoccurance
    /\ basefilename' = [basefilename EXCEPT ![i] = filename[i]]
    /\ IF filename[i] = "NUL"
       THEN filename_len' = i /\ phase' = "cut" /\ UNCHANGED i
       ELSE i' = i + 1 /\ UNCHANGED <<filename_len, phase>>
    /\ UNCHANGED filename

\* The cut before a trailing number.  Index 0 stands for "no separator".
Cut ==
    /\ phase = "cut"
    /\ IF lastoccurance # 0 /\ filename[lastoccurance + 1] = "digit"
       THEN /\ basefilename' = [basefilename EXCEPT ![lastoccurance] = "NUL"]
            /\ filename_len' = lastoccurance
       ELSE UNCHANGED <<basefilename, filename_len>>
    /\ phase' = "done"
    /\ UNCHANGED <<filename, i, lastoccurance>>

BaseNext == Scan \/ Cut

BaseSpec == BaseInit /\ [][BaseNext]_baseVars

-----------------------------------------------------------------------------
(* Properties.                                                             *)

\* Every variable has its type, and the read behind the last separator stays
\* inside the string.
BaseTypeOK ==
    /\ filename \in FileNames
    /\ basefilename \in [Index -> Char]
    /\ i \in Index
    /\ lastoccurance \in Index
    /\ filename_len \in 0..MaxLen
    /\ phase \in {"scan", "cut", "done"}
    /\ phase = "cut" /\ lastoccurance # 0 => lastoccurance + 1 \in Index

\* k is the length of string s.
IsLength(s, k) == s[k] = "NUL" /\ \A j \in 0 .. k - 1 : s[j] # "NUL"

\* A string with the terminator at len: its base name has length k.
IsBaseLength(s, len, k) ==
    \/ /\ k \in 1 .. len - 1
       /\ s[k] = "-" /\ s[k + 1] = "digit"
       /\ \A j \in k + 1 .. len - 1 : s[j] # "-"
    \/ /\ k = len
       /\ ~\E c \in 1 .. len - 1 :
             /\ s[c] = "-" /\ s[c + 1] = "digit"
             /\ \A j \in c + 1 .. len - 1 : s[j] # "-"

\* The result is the name up to its last separator when a digit follows it
\* and the separator is not the first character, and the whole name
\* otherwise; it is terminated, and its length is returned.
BaseIsCorrect ==
    phase = "done" =>
        \E len \in Index :
            /\ IsLength(filename, len)
            /\ IsBaseLength(filename, len, filename_len)
            /\ \A j \in 0 .. filename_len - 1 : basefilename[j] = filename[j]
            /\ basefilename[filename_len] = "NUL"
=============================================================================
