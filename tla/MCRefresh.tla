----------------------------- MODULE MCRefresh -----------------------------
(* Instances of Refresh for TLC. *)
EXTENDS Refresh
CONSTANTS A, B, C, D

K(d, f) == [d |-> d, f |-> f]

AB  == <<A, B>>
ABC == <<A, B, C>>

PlainKinds == {K("none", "none"), K("file", "none"), K("dir", "none"), K("dir", "file")}
MarkKinds  == {K("none", "none"), K("dir", "none"), K("opq", "none"), K("wh", "none")}
MixedKinds == PlainKinds \cup {K("opq", "none"), K("wh", "none")}
TreeKinds  == {K("none", "none"), K("file", "none"), K("dir", "none"), K("dir", "file"),
               K("dir", "wh"), K("opq", "file"), K("wh", "none")}
=============================================================================
