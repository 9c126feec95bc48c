---------------------------- MODULE MCAppService ----------------------------
(***************************************************************************)
(* Instances of AppService for TLC: the requests that clients send.        *)
(***************************************************************************)
EXTENDS AppService, TLC

NoEnv == [vars |-> [k \in {} |-> Empty], domains |-> NoDomains]

Create(image) == [op |-> "create", image |-> image, env |-> NoEnv]
Simple(op) == [op |-> op]
Patch(key, value) ==
  [op |-> "patchEnv", patch |-> key :> value, domains |-> Unchanged]

\* One request of every kind, and two where the data matters: an update of one
\* field or of the other, a patch that sets one variable or the other, or deletes.
AllRequests ==
  LET i == CHOOSE i \in Images : TRUE
      key == CHOOSE k \in Keys : TRUE
      host == CHOOSE h \in Hosts : TRUE
  IN { Create(i),
       [op |-> "update", image |-> CHOOSE j \in Images : j # i,
        paused |-> Unchanged],
       [op |-> "update", image |-> Unchanged, paused |-> TRUE],
       Simple("delete"), Simple("redeploy"),
       [op |-> "updateEnv", env |-> NoEnv],
       Patch(key, Empty),
       [op |-> "addDomain", host |-> host],
       [op |-> "removeDomain", host |-> host] }
     \cup {Patch(k, v) : k \in Keys, v \in Values}

\* What a deletion can race with, or be followed by.
Deletions ==
  {Create(i) : i \in Images} \cup {Simple("delete"), Simple("redeploy")}

\* Domains, added to an app that has none.
Additions ==
  {Create(i) : i \in Images} \cup [op : {"addDomain"}, host : Hosts]
=============================================================================
