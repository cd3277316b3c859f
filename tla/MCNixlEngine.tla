---------------------------- MODULE MCNixlEngine ----------------------------
(* The parameter lists of the bounded instance: one bucket, two, three, a     *)
(* bucket that leaves part of the buffer with older contents, and two         *)
(* parameters in one bucket.                                                  *)
EXTENDS NixlEngine

MCSizes == { <<1>>, <<3, 1>>, <<1, 2, 2, 2>>, <<2, 2, 1, 3, 1>> }
=============================================================================
