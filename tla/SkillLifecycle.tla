--------------------------- MODULE SkillLifecycle ---------------------------
(***************************************************************************)
(* The upgrade lifecycle of one external skill (src/src/autonomy/services/ *)
(* friday-skill-upgrade-lifecycle-service.ts): candidates are copied to a  *)
(* shadow directory, tried by a canary, promoted over the active directory *)
(* and rolled back from a backup directory.  Each candidate has its own    *)
(* shadow, backup and evidence file; the active directory and the row in   *)
(* SQLite are shared.  An operation is a chain of file copies, a database  *)
(* transaction and an evidence write without an await in between, so other *)
(* operations do not interleave with it, but a crash may cut it anywhere,  *)
(* also in the middle of a copy.  Only a canary spans an await.            *)
(*                                                                         *)
(* An artifact is a directory's content; digests are compared as contents. *)
(* The canonical approvals and the canary counters of the row, which no    *)
(* operation reads, are left out.                                          *)
(***************************************************************************)
EXTENDS Naturals

CONSTANTS Candidates,  \* staged candidates; each names its own artifact
          Original,    \* the artifact that may be installed at the start
          None,        \* an absent directory or version
          Torn,        \* a copy that a crash cut off
          Calls,       \* canary requests that may be in flight at once
          Again,       \* may a candidate be registered again
          MaxShadows,  \* bound on registrations
          MaxCrashes   \* bound on crashes

SkillConstants == /\ {Original, None, Torn} \cap Candidates = {}
                  /\ None # Original /\ None # Torn /\ Original # Torn
                  /\ Again \in BOOLEAN
                  /\ {MaxShadows, MaxCrashes} \subseteq Nat

VARIABLES active,   \* content of the active directory
          shadow,   \* content of each candidate's shadow directory
          backup,   \* content of each candidate's rollback directory
          ev,       \* each candidate's evidence file
          row,      \* installed version and status in SQLite
          calls,    \* canaries that await the executor
          shadows, crashes,
          ran       \* history: outcomes for a candidate since it was last shadowed

vars == <<active, shadow, backup, ev, row, calls, shadows, crashes, ran>>

Whole == Candidates \cup {Original}
Content == Whole \cup {None, Torn}
Statuses == {"installed", "not_installed"}
Evidence == [window : Nat, prev : Content, version : Content, status : Statuses,
             runs : SUBSET [w : Nat, ok : BOOLEAN]]

NoEvidence == [window |-> 0, prev |-> None, version |-> None, status |-> "not_installed", runs |-> {}]
Idle == [c |-> None, w |-> 0]

TypeOK ==
  /\ active \in Content
  /\ shadow \in [Candidates -> Content]
  /\ backup \in [Candidates -> Content]
  /\ ev \in [Candidates -> Evidence]
  /\ row \in [installed : Whole \cup {None}, status : Statuses]
  /\ calls \in [Calls -> [c : Candidates \cup {None}, w : Nat]]
  /\ shadows \in 0..MaxShadows /\ crashes \in 0..MaxCrashes
  /\ ran \in [Candidates -> SUBSET BOOLEAN]

Init ==
  /\ active \in {None, Original}
  /\ shadow = [c \in Candidates |-> None]
  /\ backup = [c \in Candidates |-> None]
  /\ ev = [c \in Candidates |-> NoEvidence]
  /\ row = [installed |-> active, status |-> IF active = None THEN "not_installed" ELSE "installed"]
  /\ calls = [i \in Calls |-> Idle]
  /\ shadows = 0 /\ crashes = 0
  /\ ran = [c \in Candidates |-> {}]
-----------------------------------------------------------------------------
(* An operation of `last` steps stops after step k: done, or by a crash.   *)
CutAt(k, last) ==
  \/ k = last /\ UNCHANGED <<crashes, calls>>
  \/ /\ k < last
     /\ crashes < MaxCrashes
     /\ crashes' = crashes + 1
     /\ calls' = [i \in Calls |-> Idle]

(* A directory that is removed at step r and copied from src at r + 1 and  *)
(* r + 2, after k steps; copying an absent directory is skipped.           *)
Replaced(k, r, old, src) ==
  CASE k < r      -> old
    [] k = r      -> None
    [] k = r + 1  -> IF src = None THEN None ELSE Torn
    [] OTHER      -> src

Crash ==
  /\ crashes < MaxCrashes
  /\ \E i \in Calls : calls[i] # Idle
  /\ crashes' = crashes + 1
  /\ calls' = [i \in Calls |-> Idle]
  /\ UNCHANGED <<active, shadow, backup, ev, row, shadows, ran>>
-----------------------------------------------------------------------------
(* registerShadowVersion: replace the shadow directory, file the evidence  *)
(* with the rollback pointer, mark the skill not installed.                *)
NewWindow(c) ==
  [window |-> shadows + 1, prev |-> active, version |-> row.installed, status |-> row.status, runs |-> {}]

Shadow(c, k) ==
  /\ shadows < MaxShadows
  /\ Again \/ ev[c].window = 0
  /\ shadows' = shadows + 1
  /\ CutAt(k, 5)
  /\ shadow' = [shadow EXCEPT ![c] = Replaced(k, 1, @, c)]
  /\ ev' = IF k >= 4 THEN [ev EXCEPT ![c] = NewWindow(c)] ELSE ev
  /\ ran' = IF k >= 4 THEN [ran EXCEPT ![c] = {}] ELSE ran
  /\ row' = IF k >= 5 THEN [row EXCEPT !.status = "not_installed"] ELSE row
  /\ UNCHANGED <<active, backup>>
-----------------------------------------------------------------------------
(* recordCanaryResult.  A shadow that is not what was registered is        *)
(* rejected and counts as a failed canary.                                 *)
Filed(c, ok) ==
  /\ ev' = [ev EXCEPT ![c].runs = @ \cup {[w |-> ev[c].window, ok |-> ok]}]
  /\ ran' = [ran EXCEPT ![c] = @ \cup {ok}]

RejectCanary(c) ==
  /\ ev[c].window > 0
  /\ shadow[c] \notin {None, c}
  /\ Filed(c, FALSE)
  /\ UNCHANGED <<active, shadow, backup, row, calls, shadows, crashes>>

StartCanary(i, c) ==
  /\ calls[i] = Idle
  /\ ev[c].window > 0
  /\ shadow[c] = c
  /\ calls' = [calls EXCEPT ![i] = [c |-> c, w |-> ev[c].window]]
  /\ UNCHANGED <<active, shadow, backup, ev, row, shadows, crashes, ran>>

(* After the await the evidence is read again: a result from before the    *)
(* last registration is ignored.                                           *)
EndCanary_Unchecked(i, ok) ==
  LET c == calls[i].c IN
  /\ calls[i] # Idle
  /\ ev' = [ev EXCEPT ![c].runs = @ \cup {[w |-> ev[c].window, ok |-> ok]}]
  /\ ran' = IF calls[i].w = ev[c].window THEN [ran EXCEPT ![c] = @ \cup {ok}] ELSE ran
  /\ calls' = [calls EXCEPT ![i] = Idle]
  /\ UNCHANGED <<active, shadow, backup, row, shadows, crashes>>

EndCanary(i, ok) ==
  LET c == calls[i].c IN
  /\ calls[i] # Idle
  /\ IF calls[i].w = ev[c].window THEN Filed(c, ok /\ shadow[c] = c) ELSE UNCHANGED <<ev, ran>>
  /\ calls' = [calls EXCEPT ![i] = Idle]
  /\ UNCHANGED <<active, shadow, backup, row, shadows, crashes>>
-----------------------------------------------------------------------------
(* promote: what it checks, then backup, active directory, database and    *)
(* evidence in this order.                                                 *)
Window(c) == {r \in ev[c].runs : r.w = ev[c].window}

Green(runs) == (\E r \in runs : r.ok) /\ (\A r \in runs : r.ok)

MayPromote(c) ==
  /\ ev[c].window > 0
  /\ shadow[c] = c
  /\ Green(Window(c))
  /\ ev[c].version # None => ev[c].prev # None
  /\ ev[c].prev # None => active = ev[c].prev

Promote_BackupLast(c, k) ==
  /\ MayPromote(c)
  /\ CutAt(k, 8)
  /\ active' = Replaced(k, 1, active, shadow[c])
  /\ backup' = [backup EXCEPT ![c] = Replaced(k, 4, @, active)]
  /\ row' = IF k >= 7 THEN [installed |-> c, status |-> "installed"] ELSE row
  /\ UNCHANGED <<shadow, ev, shadows, ran>>

Promote(c, k) ==
  /\ MayPromote(c)
  /\ CutAt(k, 8)
  /\ backup' = [backup EXCEPT ![c] = Replaced(k, 1, @, active)]
  /\ active' = Replaced(k, 4, active, shadow[c])
  /\ row' = IF k >= 7 THEN [installed |-> c, status |-> "installed"] ELSE row
  /\ UNCHANGED <<shadow, ev, shadows, ran>>
-----------------------------------------------------------------------------
(* rollback: it looks for a registration, not for a promotion.             *)
MayRollback(c) ==
  /\ ev[c].window > 0
  /\ ev[c].version # None => ev[c].prev # None
  /\ ev[c].prev # None => backup[c] = ev[c].prev

Rollback(c, k) ==
  /\ MayRollback(c)
  /\ CutAt(k, 4)
  /\ active' = Replaced(k, 1, active, IF ev[c].prev = None THEN None ELSE backup[c])
  /\ row' = IF k >= 4 THEN [installed |-> ev[c].version, status |-> ev[c].status] ELSE row
  /\ UNCHANGED <<shadow, backup, ev, shadows, ran>>
-----------------------------------------------------------------------------
Next ==
  \/ \E c \in Candidates, k \in 1..5 : Shadow(c, k)
  \/ \E c \in Candidates : RejectCanary(c)
  \/ \E i \in Calls, c \in Candidates : StartCanary(i, c)
  \/ \E i \in Calls, ok \in BOOLEAN : EndCanary(i, ok)
  \/ \E c \in Candidates, k \in 1..8 : Promote(c, k)
  \/ \E c \in Candidates, k \in 1..4 : Rollback(c, k)
  \/ Crash

Spec == Init /\ [][Next]_vars
-----------------------------------------------------------------------------
(* Only a whole copy of a candidate whose canaries since its last          *)
(* registration succeeded, at least one, replaces the active artifact, no  *)
(* matter which registrations and crashes a canary overlapped (promote).   *)
PromotedProven ==
  \A c \in Candidates : Promote(c, 8) => active' = c /\ ran[c] = {TRUE}

(* Without crashes the artifact on disk is the version the row names.      *)
DiskMatchesRow == active = row.installed

(* The artifact that was installed first, which no candidate store holds,  *)
(* is not lost while it is the installed version: it is active, or some    *)
(* backup still holds it, whatever step of a promotion a crash cuts off.   *)
OriginalKept ==
  row.installed = Original => active = Original \/ \E c \in Candidates : backup[c] = Original

(* A promotion replaces the artifact its rollback pointer is about.        *)
PromotesOverSeen ==
  \A c \in Candidates : Promote(c, 8) => active = ev[c].prev

(* A rollback that ran to its end leaves a whole artifact or none.         *)
RollbackWhole ==
  \A c \in Candidates : Rollback(c, 4) => active' # Torn

(* After a rollback a skill with an installed version is available again.  *)
RollbackAvailable ==
  \A c \in Candidates : Rollback(c, 4) => (row'.installed # None <=> row'.status = "installed")
=============================================================================
