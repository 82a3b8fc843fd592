-------------------------- MODULE MCWindowManager --------------------------
(* An application's window with what floats above it, and the desktop's own *)
(* prompts.                                                                 *)
EXTENDS WindowManager, TLC

CONSTANTS main, palette, ask, alert, prompt, prompt2, app

Prompts == Permutations({prompt, prompt2})

KindOf == [w \in Windows |-> CASE w = main -> "main"
                              [] w = palette -> "palette"
                              [] w \in {ask, alert, prompt, prompt2} -> "modal"]
AppOf == [w \in Windows |-> IF w \in {prompt, prompt2} THEN Nobody ELSE app]
OwnerOf == [w \in Windows |-> IF w \in {palette, ask} THEN main ELSE Nobody]
=============================================================================
