------------------------- MODULE MCAutomationFiles -------------------------
(***************************************************************************)
(* Folders of up to three files, each rule in any file, under any name.    *)
(***************************************************************************)
EXTENDS AutomationFiles

CONSTANTS n1, n2, n3, lamp, fan

Written == [id : {1}, name : {n1, n2}, body : {lamp}] \cup [id : {0, 1, 2}, name : {n1, n2}, body : {fan}]
AnyFolder == {f \in [Names -> Written \cup {Absent, Refused}] :
                \A a, b \in Names : a # b /\ f[a] \in Written /\ f[b] \in Written => f[a].body # f[b].body}
=============================================================================
