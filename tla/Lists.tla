--------------------------------- MODULE Lists ---------------------------------
(***************************************************************************)
(* Lists as the client keeps them.                                         *)
(***************************************************************************)
EXTENDS Naturals, Sequences

Elems(list) == {list[i] : i \in DOMAIN list}

\* Vec::retain
Retain(s, kept) ==
  LET f[i \in 0 .. Len(s)] == IF i = 0 THEN << >>
                             ELSE IF s[i] \in kept THEN Append(f[i - 1], s[i]) ELSE f[i - 1]
  IN f[Len(s)]
=============================================================================
