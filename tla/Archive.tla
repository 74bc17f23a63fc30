------------------------------ MODULE Archive ------------------------------
(***************************************************************************)
(* What the profile generations promise (crates/compat/src/profile.rs,     *)
(* header): work is only ever added to the profile, by ever newer          *)
(* versions; a completed generation is immutable; and a recovery puts one  *)
(* in the place of the profile at a stroke, preserving what was there.     *)
(***************************************************************************)
EXTENDS Naturals

CONSTANTS
  Profiles,     (* [ver, schema, work]                                     *)
  Ids           (* the names of generations                                *)

VARIABLES
  now,          (* the profile, a set of at most one                       *)
  generations,  (* the completed generations, <<id, profile>>              *)
  preserved     (* what each generation's recovery took out                *)

vars == <<now, generations, preserved>>

Init ==
  /\ now \in {{}} \cup {{p} : p \in Profiles}
  /\ generations = {} /\ preserved = {}

Continues(p, q) == q.ver <= p.ver /\ q.work \subseteq p.work

Change ==
  \E p \in Profiles :
    /\ \A q \in now : Continues(p, q)
    /\ now' = {p}
    /\ UNCHANGED <<generations, preserved>>

Complete ==
  \E id \in Ids, p \in now :
    /\ \A g \in generations : g[1] # id
    /\ generations' = generations \cup {<<id, p>>}
    /\ UNCHANGED <<now, preserved>>

Recover ==
  \E g \in generations, p \in now :
    /\ \A s \in preserved : s[1] # g[1]
    /\ now' = {g[2]} /\ preserved' = preserved \cup {<<g[1], p>>}
    /\ UNCHANGED generations

Next == Change \/ Complete \/ Recover

Spec == Init /\ [][Next]_vars
=============================================================================
