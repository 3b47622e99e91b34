------------------------------ MODULE AuxIndex ------------------------------
(***************************************************************************)
(* internal/engine/server/auxfiles.go: the lazy index of feature           *)
(* attachments.  Lookups rebuild it from the cache directory when it is    *)
(* marked stale; bakes and removals change the directory, then mark it.    *)
(* The manifests of a provider are the version of its aux directory, 0     *)
(* when there is none.                                                     *)
(***************************************************************************)
EXTENDS Naturals

CONSTANTS Providers, Readers,
          MaxVersion,   \* bound: versions of a provider's aux directory
          MaxChanges    \* bound: changes of the cache directory

AuxConstants == MaxVersion \in Nat /\ MaxChanges \in Nat

VARIABLES
  disk,      \* the aux directories under the cache directory
  writing,   \* providers whose directory has changed and that have not called invalidate yet
  loaded,    \* a.loaded
  entries,   \* a.entries and a.byStored: the versions they were read from
  pc,        \* where each lookup is: "idle", "check", "walk" or "answer"
  found,     \* the entries each lookup's walk has collected
  unread,    \* the providers its walk has not reached
  changes,   \* counted against its bound
  late,      \* history: lookups whose walk an invalidate fell into
  tainted    \* history: what was installed last comes from such a lookup

vars == <<disk, writing, loaded, entries, pc, found, unread, changes, late, tainted>>

Index == [Providers -> 0 .. MaxVersion]
Nothing == [p \in Providers |-> 0]

Init ==
  /\ disk = Nothing /\ writing = {}
  /\ loaded = FALSE /\ entries = Nothing
  /\ pc = [r \in Readers |-> "idle"]
  /\ found = [r \in Readers |-> Nothing]
  /\ unread = [r \in Readers |-> {}]
  /\ changes = 0 /\ late = {} /\ tainted = FALSE

-----------------------------------------------------------------------------
(* registerProviderSet writes the aux directory of the provider ...        *)
WriteAux(p) ==
  /\ changes < MaxChanges /\ disk[p] < MaxVersion
  /\ changes' = changes + 1
  /\ disk' = [disk EXCEPT ![p] = @ + 1]
  /\ writing' = writing \cup {p}
  /\ UNCHANGED <<loaded, entries, pc, found, unread, late, tainted>>

(* ... and dropProviderSet removes it.                                     *)
RemoveAux(p) ==
  /\ changes < MaxChanges /\ disk[p] # 0
  /\ changes' = changes + 1
  /\ disk' = [disk EXCEPT ![p] = 0]
  /\ writing' = writing \cup {p}
  /\ UNCHANGED <<loaded, entries, pc, found, unread, late, tainted>>

(* invalidate.                                                                *)
Invalidate(p) ==
  /\ p \in writing
  /\ writing' = writing \ {p}
  /\ loaded' = FALSE
  /\ late' = {r \in Readers : pc[r] = "walk"}
  /\ UNCHANGED <<disk, entries, pc, found, unread, changes, tainted>>

-----------------------------------------------------------------------------
Lookup(r) ==
  /\ pc[r] = "idle"
  /\ pc' = [pc EXCEPT ![r] = "check"]
  /\ UNCHANGED <<disk, writing, loaded, entries, found, unread, changes, late, tainted>>

(* ensure: look at loaded under the read lock, walk without a lock ...     *)
Check(r) ==
  /\ pc[r] = "check"
  /\ pc' = [pc EXCEPT ![r] = IF loaded THEN "answer" ELSE "walk"]
  /\ found' = [found EXCEPT ![r] = Nothing]
  /\ unread' = [unread EXCEPT ![r] = IF loaded THEN {} ELSE Providers]
  /\ UNCHANGED <<disk, writing, loaded, entries, changes, late, tainted>>

WalkDir(r, p) ==
  /\ pc[r] = "walk" /\ p \in unread[r]
  /\ found' = [found EXCEPT ![r][p] = disk[p]]
  /\ unread' = [unread EXCEPT ![r] = @ \ {p}]
  /\ UNCHANGED <<disk, writing, loaded, entries, pc, changes, late, tainted>>

(* ... then install what was found.  Mutant: before the walk is over.       *)
AnyWalk(r) == TRUE
Walked(r) == unread[r] = {}
Install(r) ==
  /\ pc[r] = "walk" /\ Walked(r)
  /\ entries' = found[r] /\ loaded' = TRUE
  /\ pc' = [pc EXCEPT ![r] = "answer"]
  /\ tainted' = (r \in late) /\ late' = late \ {r}
  /\ UNCHANGED <<disk, writing, found, unread, changes>>

(* The lookup itself reads entries under the read lock.                    *)
Answer(r) ==
  /\ pc[r] = "answer"
  /\ pc' = [pc EXCEPT ![r] = "idle"]
  /\ found' = [found EXCEPT ![r] = Nothing]
  /\ UNCHANGED <<disk, writing, loaded, entries, unread, changes, late, tainted>>

Next ==
  \/ \E p \in Providers : WriteAux(p) \/ RemoveAux(p) \/ Invalidate(p)
  \/ \E r \in Readers :
       \/ Lookup(r) \/ Check(r) \/ Install(r) \/ Answer(r)
       \/ \E p \in Providers : WalkDir(r, p)

Spec == Init /\ [][Next]_vars

-----------------------------------------------------------------------------
(* Properties.                                                             *)

TypeOK ==
  /\ disk \in Index /\ entries \in Index /\ loaded \in BOOLEAN
  /\ writing \subseteq Providers
  /\ pc \in [Readers -> {"idle", "check", "walk", "answer"}]
  /\ found \in [Readers -> Index] /\ unread \in [Readers -> SUBSET Providers]
  /\ \A r \in Readers : unread[r] # {} => pc[r] = "walk"
  /\ changes \in 0 .. MaxChanges /\ late \subseteq Readers /\ tainted \in BOOLEAN

(* An index that counts as loaded is what is in the cache directory, but   *)
(* for the providers whose change is still to be announced, unless an      *)
(* invalidate fell into the walk of the lookup that loaded it.             *)
LoadedIsCurrent ==
  loaded /\ ~tainted => \A p \in Providers \ writing : entries[p] = disk[p]
=============================================================================
