---------------------------- MODULE MCGeReceiver ----------------------------
(* GeReceiver with two values for a digit, so that a byte has four values. *)
EXTENDS GeReceiver

\* One and two bytes of data, equal sums among them.
MCFrames == {<<1>>, <<2>>, <<1, 2>>, <<3, 0>>}
=============================================================================
