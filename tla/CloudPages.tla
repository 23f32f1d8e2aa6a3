----------------------------- MODULE CloudPages -----------------------------
(***************************************************************************)
(* What the rows of the cloud storage are shown as: the client's pages,    *)
(* from which it restores a project, and the administrators' pages, which  *)
(* have queries of their own.  Pages are not state: they are computed from *)
(* the rows of CloudStorage at every moment.                               *)
(***************************************************************************)
EXTENDS CloudStorage

-----------------------------------------------------------------------------
(* The client's pages.                                                     *)

\* A page is answered to a user whose plan is one.
Answered(page) == IF Entitled THEN page ELSE {}

\* Used bytes against the plan's quota.
UsageFor(used) ==
  [used |-> used, remaining |-> Larger(Quota - used, 0), over |-> used > Quota]

Usage == UsageFor(Used)

\* The manifest the project's row names, 0 for none.
ListedManifest(p) == IF projects[p] = NoRow THEN 0 ELSE projects[p].last

\* The manifest that is answered with the objects: the project's newest if its
\* row names none.
LatestManifest(p) ==
  IF projects[p] = NoRow THEN 0
  ELSE IF projects[p].last # 0 THEN projects[p].last
  ELSE IF Newest(p) = {} THEN 0 ELSE CHOOSE m \in Newest(p) : TRUE

\* A project is found by its own ID, or by the client's ID for it.
ProjectFor(p) == {q \in {p} : projects[q] # NoRow}

\* Mutation: a download is answered for an object that was replaced, too.
Downloadable_Replaced(p) == {o \in ObjectKeys : objects[o] # NoRow /\ objects[o].project \in ProjectFor(p)}

\* What can be downloaded with the project's ID: active objects that belong to it.
Downloadable(p) == {o \in ObjectKeys : Active(o) /\ objects[o].project \in ProjectFor(p)}

-----------------------------------------------------------------------------
(* The administrators' pages.                                              *)

\* The newest manifest of a project, unless its row names one that is there.
AdminManifest(p) ==
  LET named == {m \in DOMAIN manifests : projects[p] # NoRow /\ m = projects[p].last /\ manifests[m].project = p}
  IN  Max({0} \cup IF named # {} THEN named ELSE Newest(p))

\* The active objects, from a query that groups the rows by project.
ObjectStats(p) == [count |-> Cardinality(ActiveOf(p)), bytes |-> Bytes(ActiveOf(p))]

AdminProjects == {p \in Projects : projects[p] # NoRow}

\* The page of one user's projects.
UserProjects == [p \in AdminProjects |-> [manifest |-> AdminManifest(p), objects |-> ObjectStats(p)]]

\* A user without a plan is over the quota with a single byte.
Over(used) == UsageFor(used).over \/ (~Entitled /\ used > 0)

\* The line of a user on the page of all users' usage.
AdminUser ==
  LET used == Used
  IN  [used     |-> used,
       over     |-> Over(used),
       projects |-> Cardinality(AdminProjects),
       active   |-> Cardinality({p \in AdminProjects : projects[p].status = "active"})]

-----------------------------------------------------------------------------
\* What is listed of a project can be downloaded, and nothing else can; the
\* client and the administrators see one manifest of a project and one usage; the
\* bytes of the projects' page add up to those of the users' page, which are what
\* the quota is compared with.
PagesAgree ==
  LET page == UserProjects
      client == Usage
      admin == AdminUser
  IN  /\ \A p \in Projects : Answered(Restorable(p)) = Answered(Downloadable(p))
      /\ \A p \in DOMAIN page :
           /\ LatestManifest(p) = page[p].manifest
           /\ ListedManifest(p) # 0 => ListedManifest(p) = page[p].manifest
           /\ page[p].objects.count <= Cardinality(UNION {manifests[m].content : m \in Newest(p)})
      /\ admin.used = SumFunction([p \in DOMAIN page |-> page[p].objects.bytes])
      /\ admin.active = admin.projects
      /\ client.over = admin.over /\ (admin.over => client.remaining = 0)

\* What a commit leaves behind is right as a whole, in the rows and on every page.
CommitsAreWhole == SessionUsedOnce /\ ObjectsAreNewest /\ PagesAgree
=============================================================================
