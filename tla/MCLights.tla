------------------------------ MODULE MCLights ------------------------------
(* Small instances of Lights.                                              *)
EXTENDS Lights

Color(a, r, gr, b) == [ZeroState EXCEPT !.alpha = a, !.red = r, !.green = gr,
                                        !.blue = b]
Flash(s, mode, on, off) == [s EXCEPT !.flashMode = mode, !.flashOnMS = on,
                                     !.flashOffMS = off]

\* Off, steady amber and a green flash.
MCLightStates ==
    {ZeroState, Color(255, 255, 127, 0), Flash(Color(255, 0, 200, 6), 1, 500, 500)}

\* A boot loader that left everything on.
MCInitSysfs == {[f \in Files |-> 255]}

MCFaulty == {<<"blink", "green">>}
=============================================================================
