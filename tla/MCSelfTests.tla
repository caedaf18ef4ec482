---------------------------- MODULE MCSelfTests ----------------------------
(***************************************************************************)
(* Windows for SelfTests, from the smallest a layout is computed for to    *)
(* the one the Qt client opens (800 by 600, less its frames).              *)
(***************************************************************************)
EXTENDS SelfTests

SmallAndLarge ==
  {<<1, 1, 16>>, <<1, 1, 52>>, <<4, 3, 20>>, <<5, 2, 40>>, <<1, 5, 60>>, <<2, 3, 31>>, <<4, 3, 190>>}
=============================================================================
