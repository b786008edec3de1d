---------------------------- MODULE MCCollection ----------------------------
(***************************************************************************)
(* Two sources on two hosts for TLC.  s1 may be redirected to the host of  *)
(* s2, not the other way round.                                            *)
(***************************************************************************)
EXTENDS Collection, TLC

CONSTANTS s1, s2, o1, o2, page1, robots1, page2, robots2, old, new, junk, html, note

TwoSources == <<s1, s2>>
Hosts == (page1 :> o1) @@ (robots1 :> o1) @@ (page2 :> o2) @@ (robots2 :> o2)
RobotsFiles == (o1 :> robots1) @@ (o2 :> robots2)
Pages == (s1 :> page1) @@ (s2 :> page2)
Allowlists == (s1 :> Urls) @@ (s2 :> {page2, robots2})
Answers == {[body |-> old, type |-> html], [body |-> new, type |-> note], [body |-> junk, type |-> html]}
Normal == (old :> old) @@ (new :> new) @@ (junk :> Garbled)
=============================================================================
