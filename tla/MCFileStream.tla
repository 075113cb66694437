---------------------------- MODULE MCFileStream ----------------------------
(* Instances of FileStream, with NumberText below it, for TLC.             *)
EXTENDS FileStream

SignedValues == {-8192, 105}
UnsignedValues == {9, 16000}
RealValues == {-1, 328, 262152}          (* sixteenths: -0.0625 .. 16384.5 *)
TextValues == {<<"?">>}
SourceModes == SUBSET {"read", "write"}
=============================================================================
