----------------------------- MODULE ProjectKeys -----------------------------
(***************************************************************************)
(* Projects of env_service under one slug, their API keys and what the     *)
(* keys are used for: calls of /admin and calls of a secrets endpoint,     *)
(* each with a session that reads first and commits later.  A project that *)
(* is deleted and created again has a new id.  Foreign keys: an insert for *)
(* a project that is gone fails, and a project's keys and secrets go with  *)
(* it; audit_log has none.                                                 *)
(***************************************************************************)
EXTENDS Naturals

CONSTANTS ApiKeys,       \* raw keys; the service's own admin key is Admin
          AdminCalls,    \* calls of /admin
          Calls,         \* calls of a secrets endpoint
          MaxProjects,   \* bound: projects created
          None

VARIABLES project,    \* None or the id of the row in projects
          made,       \* how many projects have been created
          key,        \* project_api_keys: per key None or its row
          issued,     \* keys that have been created
          value,      \* secrets, of one environment and key name
          logged,     \* audit_log
          admin,      \* per call of /admin: where it is, what it has read
          call        \* per call of a secrets endpoint: the same

keyVars == <<project, made, key, issued, value, logged, admin, call>>

Admin == "admin"

Init ==
  /\ project = None
  /\ made = 0
  /\ key = [k \in ApiKeys |-> None]
  /\ issued = {}
  /\ value = {}
  /\ logged = {}
  /\ admin = [a \in AdminCalls |-> [pc |-> "new", project |-> None, key |-> None]]
  /\ call = [c \in Calls |-> [pc |-> "new", project |-> None, key |-> None,
                              write |-> FALSE]]

Entry(action, id, what) == [action |-> action, project |-> id, what |-> what]
Goto(a, pc) == admin' = [admin EXCEPT ![a].pc = pc]

(***************************************************************************)
(* /admin.                                                                 *)
(***************************************************************************)

\* The first commit of create_project; the slug is unique: 409.
CreateProject(a) ==
  /\ admin[a].pc = "new"
  /\ made < MaxProjects
  /\ IF project # None
       THEN Goto(a, "failed") /\ UNCHANGED <<project, made>>
       ELSE /\ made' = made + 1
            /\ project' = made'
            /\ admin' = [admin EXCEPT ![a].pc = "log", ![a].project = made']
  /\ UNCHANGED <<key, issued, value, logged, call>>

\* Its refresh, which fails if the project is gone, and its second commit.
LogProject(a) ==
  /\ admin[a].pc = "log"
  /\ IF project = admin[a].project
       THEN /\ logged' = logged \cup {Entry("project.created", project, None)}
            /\ Goto(a, "done")
       ELSE Goto(a, "failed") /\ UNCHANGED logged
  /\ UNCHANGED <<project, made, key, issued, value, call>>

\* _get_project_or_404, and what the call goes on to do.
FindProject(a, next, k) ==
  /\ admin[a].pc = "new"
  /\ project # None
  /\ admin' = [admin EXCEPT ![a] = [pc |-> next, project |-> project, key |-> k]]
  /\ UNCHANGED <<project, made, key, issued, value, logged, call>>

\* revoke_api_key has to find the key in this project, too.
FindKey(a, k) ==
  /\ key[k] # None /\ key[k].project = project
  /\ FindProject(a, "revoke", k)

\* The commit of delete_project.  It leaves no row in audit_log.
DeleteProject(a) ==
  LET id == admin[a].project IN
  /\ admin[a].pc = "delete"
  /\ project' = IF project = id THEN None ELSE project
  /\ key' = [k \in ApiKeys |-> IF key[k] # None /\ key[k].project = id
                                 THEN None ELSE key[k]]
  /\ value' = {v \in value : v.project # id}
  /\ Goto(a, "done")
  /\ UNCHANGED <<made, issued, logged, call>>

\* The commit of update_project, which fails if the row is gone; name,
\* description and templates are not told apart.
UpdateProject(a) ==
  /\ admin[a].pc = "update"
  /\ Goto(a, IF project = admin[a].project THEN "done" ELSE "failed")
  /\ UNCHANGED <<project, made, key, issued, value, logged, call>>

\* The flush and commit of create_api_key.
CreateKey(a) ==
  LET id == admin[a].project
      k == admin[a].key IN
  /\ admin[a].pc = "create"
  /\ k \notin issued
  /\ issued' = issued \cup {k}
  /\ IF project = id
       THEN /\ \E write \in BOOLEAN :
                 key' = [key EXCEPT ![k] = [project |-> id, write |-> write,
                                            revoked |-> FALSE]]
            /\ logged' = logged \cup {Entry("apikey.created", id, k)}
            /\ Goto(a, "done")
       ELSE Goto(a, "failed") /\ UNCHANGED <<key, logged>>
  /\ UNCHANGED <<project, made, value, call>>

\* The commit of revoke_api_key; the UPDATE of a key that is gone fails.
RevokeKey(a) ==
  LET k == admin[a].key IN
  /\ admin[a].pc = "revoke"
  /\ IF key[k] # None
       THEN /\ key' = [key EXCEPT ![k].revoked = TRUE]
            /\ logged' = logged \cup {Entry("apikey.revoked", key[k].project, k)}
            /\ Goto(a, "done")
       ELSE Goto(a, "failed") /\ UNCHANGED <<key, logged>>
  /\ UNCHANGED <<project, made, issued, value, call>>

\* An await fails, or the server's process dies.
AdminFails(a) ==
  /\ admin[a].pc \in {"log", "delete", "update", "create", "revoke"}
  /\ Goto(a, "failed")
  /\ UNCHANGED <<project, made, key, issued, value, logged, call>>

(***************************************************************************)
(* A secrets endpoint.                                                     *)
(***************************************************************************)

\* get_project_auth, up to its own commit: the admin key opens each project,
\* another key the one it is for, until it is revoked.
Authenticate(c, k) ==
  /\ call[c].pc = "new"
  /\ project # None
  /\ \/ /\ k = Admin
        /\ call' = [call EXCEPT ![c] = [pc |-> "ready", project |-> project,
                                        key |-> k, write |-> TRUE]]
     \/ /\ k # Admin
        /\ key[k] # None /\ key[k].project = project /\ ~key[k].revoked
        /\ call' = [call EXCEPT ![c] = [pc |-> "touch", project |-> project,
                                        key |-> k, write |-> key[k].write]]
  /\ UNCHANGED <<project, made, key, issued, value, logged, admin>>

\* The commit of last_used_at, an UPDATE that fails if the key is gone.
Touch(c) ==
  /\ call[c].pc = "touch"
  /\ call' = [call EXCEPT ![c].pc = IF key[call[c].key] = None THEN "failed"
                                    ELSE "ready"]
  /\ UNCHANGED <<project, made, key, issued, value, logged, admin>>

\* require_write refuses; or the commit of set_secrets (EnvStore), for the
\* project that was authenticated.
Write(c) ==
  LET id == call[c].project
      written == call[c].write /\ project = id IN
  /\ call[c].pc = "ready"
  /\ call' = [call EXCEPT ![c].pc = IF written THEN "done" ELSE "failed"]
  /\ value' = IF written
                THEN {v \in value : v.project # id} \cup {[project |-> id, by |-> c]}
                ELSE value
  /\ logged' = IF written THEN logged \cup {Entry("secret.write", id, c)} ELSE logged
  /\ UNCHANGED <<project, made, key, issued, admin>>

Next ==
  \/ \E a \in AdminCalls :
       \/ CreateProject(a) \/ LogProject(a)
       \/ FindProject(a, "delete", None) \/ DeleteProject(a)
       \/ FindProject(a, "update", None) \/ UpdateProject(a)
       \/ \E k \in ApiKeys : FindProject(a, "create", k) \/ FindKey(a, k)
       \/ CreateKey(a) \/ RevokeKey(a)
       \/ AdminFails(a)
  \/ \E c \in Calls :
       \/ \E k \in ApiKeys \cup {Admin} : Authenticate(c, k)
       \/ Touch(c)
       \/ Write(c)

(***************************************************************************)
(* Properties.                                                             *)
(***************************************************************************)

\* A project that is created again starts empty and stays so: no key of the
\* old one opens it, and no call that was authenticated for the old one, or
\* admin call that has found the old one, writes to it.
NothingOutlives ==
  /\ \A k \in ApiKeys : key[k] # None => key[k].project = project
  /\ \A v \in value :
       /\ v.project = project
       /\ LET k == call[v.by].key IN
          k # Admin => key[k] # None /\ key[k].project = project /\ key[k].write

\* What is there is on record: a key and its revocation always, a project
\* unless the call that created it has not reached its second commit, or was
\* cut off before it.
AdminAudited ==
  /\ \A k \in ApiKeys :
       key[k] # None =>
         /\ Entry("apikey.created", project, k) \in logged
         /\ key[k].revoked => Entry("apikey.revoked", project, k) \in logged
  /\ project # None /\ Entry("project.created", project, None) \notin logged =>
       \E a \in AdminCalls :
         admin[a].project = project /\ admin[a].pc \in {"log", "failed"}

KeysGuard == NothingOutlives /\ AdminAudited
=============================================================================
