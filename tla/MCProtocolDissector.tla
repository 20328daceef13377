------------------------ MODULE MCProtocolDissector ------------------------
(* Addresses with their zero groups at either end, in the middle, in two runs, *)
(* alone, everywhere and nowhere; frames cut off in and after each header.     *)
EXTENDS ProtocolDissector

Address(zeros) == [k \in 0..7 |-> IF k \in zeros THEN 0 ELSE k + 1]

MCAddresses ==
  {Address(z) : z \in {{}, 0..7, 0..6, 1..7, {0, 1, 6, 7}, {1, 2, 4, 5, 6}, {3}, {0, 2, 3}}}

MCLengths ==
  {0, 13, 14, 17, 33, 34, 37, 41, 42, 53, 54, 58, 59, 62, 63, 66, 69, 70, 73, 74, 78, 97, 98,
   109, 114, 120}
=============================================================================
