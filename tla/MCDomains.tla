----------------------------- MODULE MCDomains -----------------------------
(***************************************************************************)
(* One domain of size N by itself, or a matrix of domains of size          *)
(* problem_size in one vector.                                             *)
(***************************************************************************)
EXTENDS BitDomain, FlatDomains

MCInit == Init /\ VecInit /\ (dom = {} \/ vec = AllClear)

(* The matrix is worked on while the domain is empty.                      *)
MCNext == \/ Next /\ vec = AllClear /\ UNCHANGED vec
          \/ VecNext /\ dom = {} /\ UNCHANGED vars

MCSpec == MCInit /\ [][MCNext]_<<vars, vec>>
=============================================================================
