---------------------------- MODULE CloudStorage ----------------------------
(***************************************************************************)
(* The control plane of a user's cloud storage: an upload session is       *)
(* authorized against the plan's quota, and a manifest is committed        *)
(* against the session.  What the quota is compared with is read before    *)
(* the steps that save; the commit itself is one transaction.              *)
(***************************************************************************)
EXTENDS Integers, Sequences, FiniteSets, FiniteSetsExt

CONSTANTS
  Projects,      \* the user's client project IDs
  Resources, ObjectKeys,
  KeyOf,         \* [Projects -> [Resources -> ObjectKeys]]: a path made of the project,
                 \* the kind, the content hash and the file name, without the resource's ID
  SizeOf,        \* [Resources -> bytes]
  Contents,      \* the resource lists of the model's uploads
  Tokens,        \* idempotency keys of commits
  Plans, QuotaOf,  \* [Plans -> bytes], 0 for no entitlement
  Syncs,         \* sync authorizations that can be under way together
  Commits,       \* commits that can be under way together
  SessionTTL,
  MaxSessions, MaxTime   \* bounds

ASSUME CloudAssumption ==
  /\ KeyOf \in [Projects -> [Resources -> ObjectKeys]]
  /\ SizeOf \in [Resources -> Nat]
  /\ Contents \subseteq (SUBSET Resources) \ {{}} /\ \A R \in Contents : IsFiniteSet(R)
  /\ QuotaOf \in [Plans -> Nat] /\ IsFiniteSet(Plans) /\ IsFiniteSet(Commits)
  /\ SessionTTL \in Nat /\ MaxSessions \in Nat /\ MaxTime \in Nat

\* Two projects share no path (README, Observations, says when they do), and
\* resources with one path have one content.
ASSUME PathsAssumption ==
  \A p, q \in Projects, r, s \in Resources :
    KeyOf[p][r] = KeyOf[q][s] => p = q /\ SizeOf[r] = SizeOf[s]

VARIABLES
  now, plan,
  projects,      \* [Projects -> NoRow or [named, last]]: last is a manifest, 0 before the first
  sessions,      \* sequence of [project, content, expires, status, manifest]
  manifests,     \* sequence of [session, project, content, token]
  objects,       \* [ObjectKeys -> NoRow or [project, size, status]]
  syncing,       \* [Syncs -> the state of a request]
  committing     \* [Commits -> the state of a request]

vars == <<now, plan, projects, sessions, manifests, objects, syncing, committing>>

NoRow == [status |-> "none"]
Idle == [pc |-> "idle"]

Init ==
  /\ now = 0
  /\ plan \in Plans
  /\ projects = [p \in Projects |-> NoRow]
  /\ sessions = <<>> /\ manifests = <<>>
  /\ objects = [o \in ObjectKeys |-> NoRow]
  /\ syncing = [q \in Syncs |-> Idle]
  /\ committing = [c \in Commits |-> Idle]

-----------------------------------------------------------------------------
(* Bytes and the quota.                                                    *)

Active(o) == objects[o].status = "active"

ActiveOf(p) == {o \in ObjectKeys : Active(o) /\ objects[o].project = p}

Bytes(O) == SumFunctionOnSet([o \in O |-> objects[o].size], O)

Used == Bytes({o \in ObjectKeys : Active(o)})

SizeOfContent(R) == SumFunctionOnSet(SizeOf, R)

Paths(p, R) == {KeyOf[p][r] : r \in R}

Larger(a, b) == IF a > b THEN a ELSE b

\* Mutation: the quota is compared with what is used already.
Projected_Already(used, p, R) == used

\* What the user would use if R replaced p's objects, from a count of the used
\* bytes that may be old.
Projected(used, p, R) == Larger(used - Bytes(ActiveOf(p)) + SizeOfContent(R), SizeOfContent(R))

\* What the policy gives for the plan.
Quota == QuotaOf[plan]

Entitled == Quota > 0

-----------------------------------------------------------------------------
(* Authorizing an upload.                                                  *)

\* The quota, the used bytes and the project's row are read; renames says that
\* the request brings another name than the row's.
BeginSync(q, p, R, renames) ==
  /\ syncing[q] = Idle
  /\ Entitled
  /\ syncing' = [syncing EXCEPT ![q] =
       [pc |-> IF projects[p] = NoRow \/ renames THEN "save" ELSE "open",
        project |-> p, content |-> R, quota |-> Quota, used |-> Used, copy |-> projects[p]]]
  /\ UNCHANGED <<now, plan, projects, sessions, manifests, objects, committing>>

\* The new project is inserted, unless it was by another request, which ends
\* this one; or the row that was read is saved with its new name.
SaveProject(q) ==
  /\ syncing[q].pc = "save"
  /\ LET p == syncing[q].project
         copy == syncing[q].copy
     IN  \/ /\ copy = NoRow /\ projects[p] = NoRow
            /\ projects' = [projects EXCEPT ![p] = [status |-> "active", last |-> 0]]
            /\ syncing' = [syncing EXCEPT ![q].pc = "open"]
         \/ /\ copy = NoRow /\ projects[p] # NoRow
            /\ syncing' = [syncing EXCEPT ![q] = Idle]
            /\ UNCHANGED projects
         \/ /\ copy # NoRow
            /\ projects' = [projects EXCEPT ![p] = copy]
            /\ syncing' = [syncing EXCEPT ![q].pc = "open"]
  /\ UNCHANGED <<now, plan, sessions, manifests, objects, committing>>

\* The session is created when the projected use fits the quota.
OpenSession(q) ==
  /\ syncing[q].pc = "open"
  /\ LET s == syncing[q]
     IN  IF Projected(s.used, s.project, s.content) <= s.quota
           THEN /\ Len(sessions) < MaxSessions
                /\ sessions' = Append(sessions, [project |-> s.project, content |-> s.content,
                     expires |-> now + SessionTTL, status |-> "authorized", manifest |-> 0])
           ELSE UNCHANGED sessions
  /\ syncing' = [syncing EXCEPT ![q] = Idle]
  /\ UNCHANGED <<now, plan, projects, manifests, objects, committing>>

\* The server dies, or a step fails, the object store's for one.
SyncFails(q) ==
  /\ syncing[q] # Idle
  /\ syncing' = [syncing EXCEPT ![q] = Idle]
  /\ UNCHANGED <<now, plan, projects, sessions, manifests, objects, committing>>

-----------------------------------------------------------------------------
(* Committing a manifest.                                                  *)

Recorded(k) == \E m \in DOMAIN manifests : manifests[m].token = k

\* A token that is recorded is answered from its manifest or refused, which
\* changes nothing; for a new one the quota and the used bytes are read.
BeginCommit(c, i, k, R) ==
  /\ committing[c] = Idle
  /\ Entitled
  /\ ~Recorded(k)
  /\ committing' = [committing EXCEPT ![c] =
       [pc |-> "commit", session |-> i, token |-> k, content |-> R, quota |-> Quota, used |-> Used]]
  /\ UNCHANGED <<now, plan, projects, sessions, manifests, objects, syncing>>

\* Mutation: the status of the session is not looked at.
Committable_Again(s, R) == now <= s.expires /\ s.content = R

\* An expired session stays authorized: the row that marks it is rolled back
\* with the transaction.
Committable(s, R) == s.status = "authorized" /\ now <= s.expires /\ s.content = R

\* Mutation: the objects that the manifest leaves out stay active.
Stored_KeepsOld(p, R) ==
  [o \in ObjectKeys |->
     IF o \in Paths(p, R)
       THEN [status |-> "active", project |-> p, size |-> SizeOf[CHOOSE r \in R : KeyOf[p][r] = o]]
     ELSE objects[o]]

\* Mutation: a row takes the size of the whole upload.
Stored_Whole(p, R) ==
  [o \in ObjectKeys |->
     IF o \in Paths(p, R) THEN [status |-> "active", project |-> p, size |-> SizeOfContent(R)]
     ELSE IF o \in ActiveOf(p) THEN [objects[o] EXCEPT !.status = "replaced"]
     ELSE objects[o]]

\* The rows of the manifest's paths are inserted or made active, which leaves a
\* row with the project it was created for; the project's other objects are replaced.
Stored(p, R) ==
  [o \in ObjectKeys |->
     IF o \in Paths(p, R)
       THEN [status |-> "active",
             project |-> IF objects[o] = NoRow THEN p ELSE objects[o].project,
             size |-> SizeOf[CHOOSE r \in R : KeyOf[p][r] = o]]
     ELSE IF o \in ActiveOf(p) THEN [objects[o] EXCEPT !.status = "replaced"]
     ELSE objects[o]]

\* One transaction; a token that another manifest has by now breaks the unique
\* index and rolls it back, as every refusal does.
Commit(c) ==
  /\ committing[c].pc = "commit"
  /\ LET r == committing[c]
         s == sessions[r.session]
         id == Len(manifests) + 1
     IN  IF /\ Committable(s, r.content)
            /\ Projected(r.used, s.project, r.content) <= r.quota
            /\ ~Recorded(r.token)
           THEN /\ manifests' = Append(manifests, [session |-> r.session, project |-> s.project,
                                                   content |-> r.content, token |-> r.token])
                /\ objects' = Stored(s.project, r.content)
                /\ projects' = [projects EXCEPT ![s.project].last = id]
                /\ sessions' = [sessions EXCEPT ![r.session].status = "committed",
                                                ![r.session].manifest = id]
           ELSE UNCHANGED <<manifests, objects, projects, sessions>>
  /\ committing' = [committing EXCEPT ![c] = Idle]
  /\ UNCHANGED <<now, plan, syncing>>

\* The transaction fails or the server dies before it.  A commit whose answer is
\* lost is a Commit: the client sends the same token again.
CommitFails(c) ==
  /\ committing[c] # Idle
  /\ committing' = [committing EXCEPT ![c] = Idle]
  /\ UNCHANGED <<now, plan, projects, sessions, manifests, objects, syncing>>

-----------------------------------------------------------------------------
\* Grants begin, end and are revoked.
PlanChanges ==
  /\ plan' \in Plans \ {plan}
  /\ UNCHANGED <<now, projects, sessions, manifests, objects, syncing, committing>>

Tick ==
  /\ now < MaxTime
  /\ now' = now + 1
  /\ UNCHANGED <<plan, projects, sessions, manifests, objects, syncing, committing>>

Next ==
  \/ \E q \in Syncs :
       \/ \E p \in Projects, R \in Contents, renames \in BOOLEAN : BeginSync(q, p, R, renames)
       \/ SaveProject(q) \/ OpenSession(q) \/ SyncFails(q)
  \/ \E c \in Commits :
       \/ \E i \in DOMAIN sessions, k \in Tokens, R \in Contents : BeginCommit(c, i, k, R)
       \/ Commit(c) \/ CommitFails(c)
  \/ PlanChanges
  \/ Tick

Spec == Init /\ [][Next]_vars

-----------------------------------------------------------------------------
(* Properties.                                                             *)

\* Every variable has its type; no session is ever saved as expired.
TypeOK ==
  /\ now \in 0..MaxTime /\ plan \in Plans
  /\ projects \in [Projects -> {NoRow} \cup [status : {"active"}, last : 0..Len(manifests)]]
  /\ sessions \in Seq([project : Projects, content : Contents, expires : 0..(MaxTime + SessionTTL),
                       status : {"authorized", "committed"}, manifest : 0..Len(manifests)])
  /\ manifests \in Seq([session : DOMAIN sessions, project : Projects, content : Contents, token : Tokens])
  /\ objects \in [ObjectKeys -> {NoRow} \cup [status : {"active", "replaced"}, project : Projects,
                                              size : {SizeOf[r] : r \in Resources}]]
  /\ \A q \in Syncs : syncing[q].pc \in {"idle", "save", "open"}
  /\ \A c \in Commits : committing[c].pc \in {"idle", "commit"}

\* A session is used up by the one manifest that it was opened for, and a token
\* stands for one manifest, however often a commit is sent, in parallel too.
SessionUsedOnce ==
  /\ \A i \in DOMAIN sessions :
       LET its == {m \in DOMAIN manifests : manifests[m].session = i}
       IN  /\ its = (IF sessions[i].status = "committed" THEN {sessions[i].manifest} ELSE {})
           /\ \A m \in its : /\ manifests[m].project = sessions[i].project
                             /\ manifests[m].content = sessions[i].content
  /\ \A m, n \in DOMAIN manifests : manifests[m].token = manifests[n].token => m = n

\* The objects that a client is shown of a project, from which it restores it.
Restorable(p) == IF projects[p] = NoRow THEN {} ELSE ActiveOf(p)

Newest(p) == {m \in DOMAIN manifests :
  manifests[m].project = p /\ \A n \in m+1..Len(manifests) : manifests[n].project # p}

\* What can be listed and downloaded of a project is what its newest manifest
\* holds, no more and no less.
ObjectsAreNewest ==
  \A p \in Projects : Restorable(p) = UNION {Paths(p, manifests[m].content) : m \in Newest(p)}

\* Commits that overlap use more than the quota together, by no more than a
\* quota for each of the others.
QuotaOverrun == Used <= Cardinality(Commits) * Max({QuotaOf[l] : l \in Plans})
=============================================================================
