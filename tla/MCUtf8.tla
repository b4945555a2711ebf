-------------------------------- MODULE MCUtf8 --------------------------------
(* Instances of Utf8Checker for TLC. *)
EXTENDS Utf8Properties

\* The bytes on both sides of every bound in valid and needed.
BoundaryBytes ==
    {65, 128, 143, 144, 159, 160, 191, 193, 194, 224, 237, 240, 244, 245}

FewBytes == {65, 160, 224}
===============================================================================
