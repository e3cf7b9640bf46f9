---------------------------- MODULE AgentStorage ----------------------------
(***************************************************************************)
(* The state root many agents share: a directory and a record of each      *)
(* under agents/, and under opencode/ the databases their conversations    *)
(* are kept in (packages/agent-runtime/src/store.ts and fork.ts, and the   *)
(* commands of packages/cli/src/agent.ts that create and remove agents).   *)
(* A fork shares the database of its source, so the last of them that is   *)
(* removed takes it along.  What happens to one record is AgentLifecycle;  *)
(* here a record is the key of its database, whether it has a session, and *)
(* its tombstone.                                                          *)
(*                                                                         *)
(* Creating, forking, removing and sweeping take several system calls and  *)
(* no lock is held across them, so a step is a system call.                *)
(***************************************************************************)
EXTENDS Naturals, FiniteSets

CONSTANTS Identifiers,      \* identifiers; newEntityId never draws one twice
          Origin,      \* an agent that is there to begin with
          Callers,     \* processes, one command at a time
          NoRecord,
          MaxCommands, \* bound: commands begun
          MaxCrashes   \* bound: processes that are killed

ASSUME StorageAssumption == /\ Origin \in Identifiers
                            /\ NoRecord \notin Callers
                            /\ {MaxCommands, MaxCrashes} \subseteq Nat

VARIABLES
  dirs,      \* directories under agents/
  meta,    \* meta.json of each agent
  temp,      \* the temporary file of a first publication, and who wrote it
  drawn,     \* identifiers drawn so far
  databases, \* files under opencode/, by key
  at,        \* where each caller is
  agent,     \* the agent its command is about
  held,      \* the record it has read or is about to write
  listed,    \* the directories its inventory listed
  toRead,    \* those of them it has not read yet
  found,     \* the keys it has read
  complete,  \* whether it could read them all
  parted,    \* history: whom the inventories that freed each key had listed
  begun,     \* commands begun
  crashes

callerVars    == <<at, agent, held>>
listVars    == <<listed, toRead, found, complete>>
boundVars   == <<begun, crashes>>
treeVars    == <<dirs, meta, temp, drawn, databases>>
storageVars == <<treeVars, callerVars, listVars, parted, boundVars>>

StoredRecord == [key : Identifiers, session : BOOLEAN, doomed : BOOLEAN]

\* idleMeta: the key of a new agent's database is its own identifier.
IdleRecord(a) == [key |-> a, session |-> FALSE, doomed |-> FALSE]

\* forkMetaSnapshot: the clone keeps the session and the database it is in,
\* and nothing that is a claim on live work.
ForkMetaSnapshot(source) == [source EXCEPT !.doomed = FALSE]

Readable(a) == a \in dirs /\ meta[a] # NoRecord

GoOn(p, step) == at' = [at EXCEPT ![p] = step]
Hold(p, m)    == held' = [held EXCEPT ![p] = m]
Finish(p)     == GoOn(p, "idle") /\ Hold(p, NoRecord)

\* A temporary file, by the process whose pid its name carries.
Temporary(p, m) == [by |-> p, meta |-> m]
NoTemp          == Temporary(NoRecord, NoRecord)
SetTemp(a, t)   == temp' = [temp EXCEPT ![a] = t]

StorageInit ==
    /\ dirs = {Origin}
    /\ meta = [a \in Identifiers |-> IF a = Origin THEN IdleRecord(a) ELSE NoRecord]
    /\ temp = [a \in Identifiers |-> NoTemp]
    /\ drawn = {Origin}
    /\ databases = {}
    /\ at = [p \in Callers |-> "idle"]
    /\ agent = [p \in Callers |-> Origin]
    /\ held = [p \in Callers |-> NoRecord]
    /\ listed = [p \in Callers |-> {}]
    /\ toRead = [p \in Callers |-> {}]
    /\ found = [p \in Callers |-> {}]
    /\ complete = [p \in Callers |-> TRUE]
    /\ parted = [k \in Identifiers |-> {}]
    /\ begun = 0
    /\ crashes = 0

Begin(p) == /\ at[p] = "idle"
            /\ begun < MaxCommands
            /\ begun' = begun + 1
            /\ UNCHANGED crashes

-----------------------------------------------------------------------------
(* agent new, agent new --fork *)

\* createAgentDirectory of a fresh identifier, exclusively.
CreateAgentDirectory(p, a) == /\ a \notin drawn
                              /\ drawn' = drawn \cup {a}
                              /\ dirs' = dirs \cup {a}
                              /\ agent' = [agent EXCEPT ![p] = a]

New(p) == /\ Begin(p)
          /\ \E a \in Identifiers : /\ CreateAgentDirectory(p, a)
                               /\ Hold(p, IdleRecord(a))
          /\ GoOn(p, "write")
          /\ UNCHANGED <<meta, temp, databases, listVars, parted>>

\* forkAgent reads the source once, without its lock, and refuses one that is
\* being deleted (forkBlocker) ...
ForkRead(p) == /\ Begin(p)
               /\ \E a \in Identifiers : /\ Readable(a)
                                    /\ ~meta[a].doomed
                                    /\ Hold(p, ForkMetaSnapshot(meta[a]))
               /\ GoOn(p, "claim")
               /\ UNCHANGED <<treeVars, agent, listVars, parted>>

\* ... and then claims a directory for the clone.
ForkClaim(p) == /\ at[p] = "claim"
                /\ \E a \in Identifiers : CreateAgentDirectory(p, a)
                /\ GoOn(p, "write")
                /\ UNCHANGED <<meta, temp, databases, held, listVars, parted, boundVars>>

\* writeMeta: the temporary file, then its rename, then the directory's sync.
\* Whatever fails, the command removes the directory again.
WriteTemp(p) == /\ at[p] = "write"
                /\ \/ SetTemp(agent[p], Temporary(p, held[p])) /\ GoOn(p, "rename")
                   \/ GoOn(p, "doom") /\ UNCHANGED temp
                /\ UNCHANGED <<dirs, meta, drawn, databases, agent, held, listVars, parted,
                               boundVars>>

RenameTemp(p) == /\ at[p] = "rename"
                 /\ SetTemp(agent[p], NoTemp)
                 /\ \/ /\ meta' = [meta EXCEPT ![agent[p]] = held[p]]
                       /\ GoOn(p, "sync")
                    \/ /\ GoOn(p, "doom")
                       /\ UNCHANGED meta
                 /\ UNCHANGED <<dirs, drawn, databases, agent, held, listVars, parted, boundVars>>

Sync(p) == /\ at[p] = "sync"
           /\ \/ Finish(p)
              \/ GoOn(p, "doom") /\ UNCHANGED held
           /\ UNCHANGED <<treeVars, agent, listVars, parted, boundVars>>

-----------------------------------------------------------------------------
(* agent delete, agent clean, and the removal of what could not be created *)

\* cmdDelete of an agent that can be read, running or not.
Delete(p) == /\ Begin(p)
             /\ \E a \in Identifiers : Readable(a) /\ agent' = [agent EXCEPT ![p] = a]
             /\ GoOn(p, "tombstone")
             /\ UNCHANGED <<treeVars, held, listVars, parted>>

\* The tombstone; an agent deleted meanwhile is not found.
Tombstone(p) == /\ at[p] = "tombstone"
                /\ \/ /\ Readable(agent[p])
                      /\ meta' = [meta EXCEPT ![agent[p]].doomed = TRUE]
                      /\ GoOn(p, "doom")
                      /\ UNCHANGED held
                   \/ /\ ~Readable(agent[p])
                      /\ Finish(p)
                      /\ UNCHANGED meta
                /\ UNCHANGED <<dirs, temp, drawn, databases, agent, listVars, parted, boundVars>>

\* removeAgentDirectory: the key is read while it can be.
Doom(p) == /\ at[p] = "doom"
           /\ Hold(p, meta[agent[p]])
           /\ GoOn(p, "empty")
           /\ UNCHANGED <<treeVars, agent, listVars, parted, boundVars>>

\* rmSync removes what is in the directory ...
Empty(p) == /\ at[p] = "empty"
            /\ meta' = [meta EXCEPT ![agent[p]] = NoRecord]
            /\ SetTemp(agent[p], NoTemp)
            /\ GoOn(p, "rmdir")
            /\ UNCHANGED <<dirs, drawn, databases, agent, held, listVars, parted, boundVars>>

\* ... and the directory.  Without a key, or when the sync of agents/ fails,
\* that is all.
RemoveDirectory(p) == /\ at[p] = "rmdir"
                      /\ dirs' = dirs \ {agent[p]}
                      /\ \/ held[p] # NoRecord /\ GoOn(p, "list") /\ UNCHANGED held
                         \/ Finish(p)
                      /\ UNCHANGED <<meta, temp, drawn, databases, agent, listVars, parted,
                                     boundVars>>

\* opencodeDbKeysInUse: the directories that are there now ...
List(p) == /\ at[p] = "list"
           /\ listed' = [listed EXCEPT ![p] = dirs]
           /\ toRead' = [toRead EXCEPT ![p] = dirs]
           /\ found' = [found EXCEPT ![p] = {}]
           /\ complete' = [complete EXCEPT ![p] = TRUE]
           /\ GoOn(p, "read")
           /\ UNCHANGED <<treeVars, agent, held, parted, boundVars>>

\* Faulty: a record that cannot be read names no key.
ReadLenient(p) == /\ at[p] = "read"
                  /\ \E a \in toRead[p] :
                       /\ toRead' = [toRead EXCEPT ![p] = @ \ {a}]
                       /\ found' = [found EXCEPT ![p] =
                                      @ \cup IF Readable(a) THEN {meta[a].key} ELSE {}]
                  /\ UNCHANGED <<treeVars, callerVars, listed, complete, parted, boundVars>>

\* ... are read one after the other.  One without a record, or that is gone,
\* leaves the inventory incomplete.
Read(p) == /\ at[p] = "read"
           /\ \E a \in toRead[p] :
                /\ toRead' = [toRead EXCEPT ![p] = @ \ {a}]
                /\ \/ /\ Readable(a)
                      /\ found' = [found EXCEPT ![p] = @ \cup {meta[a].key}]
                      /\ UNCHANGED complete
                   \/ /\ ~Readable(a)
                      /\ complete' = [complete EXCEPT ![p] = FALSE]
                      /\ UNCHANGED found
           /\ UNCHANGED <<treeVars, callerVars, listed, parted, boundVars>>

\* removeOpencodeDatabase: unlinked when a complete inventory does not name
\* the key.
UnlinkDatabase(p) == /\ at[p] = "read"
                     /\ toRead[p] = {}
                     /\ IF complete[p] /\ held[p].key \notin found[p]
                        THEN /\ databases' = databases \ {held[p].key}
                             /\ parted' = [parted EXCEPT ![held[p].key] = @ \cup listed[p]]
                        ELSE UNCHANGED <<databases, parted>>
                     /\ listed' = [listed EXCEPT ![p] = {}]
                     /\ found' = [found EXCEPT ![p] = {}]
                     /\ complete' = [complete EXCEPT ![p] = TRUE]
                     /\ Finish(p)
                     /\ UNCHANGED <<dirs, meta, temp, drawn, agent, toRead, boundVars>>

-----------------------------------------------------------------------------
(* agent list, agent clean: an interrupted first publication is completed *)

\* recoverInterruptedInitialMeta: the temporary file is all there is, its
\* writer is gone and its record is one that has launched nothing.
Recover(p) == /\ Begin(p)
              /\ \E a \in dirs : /\ meta[a] = NoRecord
                                 /\ temp[a] # NoTemp
                                 /\ temp[a].by = NoRecord
                                 /\ ~temp[a].meta.session
                                 /\ agent' = [agent EXCEPT ![p] = a]
              /\ GoOn(p, "link")
              /\ UNCHANGED <<treeVars, held, listVars, parted>>

\* Faulty: a rename instead, which replaces a record that is there.
LinkReplaces(p) == /\ at[p] = "link"
                   /\ LET a == agent[p]
                      IN  IF temp[a] = NoTemp
                          THEN GoOn(p, "idle") /\ UNCHANGED meta
                          ELSE /\ meta' = [meta EXCEPT ![a] = temp[a].meta]
                               /\ GoOn(p, "unlink")
                   /\ UNCHANGED <<dirs, temp, drawn, databases, agent, held, listVars, parted,
                                  boundVars>>

\* The hard link: not over a record another has published, and not from a
\* file that is gone.
Link(p) == /\ at[p] = "link"
           /\ LET a == agent[p]
              IN  IF temp[a] = NoTemp
                  THEN GoOn(p, "idle") /\ UNCHANGED meta
                  ELSE /\ meta' = [meta EXCEPT ![a] = IF @ = NoRecord THEN temp[a].meta ELSE @]
                       /\ GoOn(p, "unlink")
           /\ UNCHANGED <<dirs, temp, drawn, databases, agent, held, listVars, parted, boundVars>>

UnlinkTemp(p) == /\ at[p] = "unlink"
                 /\ SetTemp(agent[p], NoTemp)
                 /\ GoOn(p, "idle")
                 /\ UNCHANGED <<dirs, meta, drawn, databases, agent, held, listVars, parted,
                                boundVars>>

-----------------------------------------------------------------------------
\* A run of an agent: the backend opens the database the record names and
\* has a session in it from then on.
LaunchAgent(a) == /\ Readable(a)
                  /\ ~meta[a].doomed
                  /\ ~meta[a].session \/ meta[a].key \notin databases
                  /\ meta' = [meta EXCEPT ![a].session = TRUE]
                  /\ databases' = databases \cup {meta[a].key}
                  /\ UNCHANGED <<dirs, temp, drawn, callerVars, listVars, parted, boundVars>>

\* The process is killed; the next command of this caller is another process.
Killed(p) == /\ at[p] # "idle"
             /\ crashes < MaxCrashes
             /\ crashes' = crashes + 1
             /\ temp' = [a \in Identifiers |->
                            IF temp[a].by = p THEN Temporary(NoRecord, temp[a].meta) ELSE temp[a]]
             /\ listed' = [listed EXCEPT ![p] = {}]
             /\ toRead' = [toRead EXCEPT ![p] = {}]
             /\ found' = [found EXCEPT ![p] = {}]
             /\ complete' = [complete EXCEPT ![p] = TRUE]
             /\ Finish(p)
             /\ UNCHANGED <<dirs, meta, drawn, databases, agent, parted, begun>>

CreateAgent(p)  == New(p) \/ ForkRead(p) \/ ForkClaim(p) \/ WriteTemp(p) \/ RenameTemp(p) \/ Sync(p)
Discard(p) == Delete(p) \/ Tombstone(p) \/ Doom(p) \/ Empty(p) \/ RemoveDirectory(p)
                \/ List(p) \/ Read(p) \/ UnlinkDatabase(p)
Repair(p)  == Recover(p) \/ Link(p) \/ UnlinkTemp(p)

StorageNext == \/ \E p \in Callers : CreateAgent(p) \/ Discard(p) \/ Repair(p) \/ Killed(p)
               \/ \E a \in Identifiers : LaunchAgent(a)

StorageSpec == StorageInit /\ [][StorageNext]_storageVars

-----------------------------------------------------------------------------
StorageTypeOK ==
    /\ dirs \subseteq drawn /\ drawn \subseteq Identifiers /\ databases \subseteq Identifiers
    /\ meta \in [Identifiers -> StoredRecord \cup {NoRecord}]
    /\ temp \in [Identifiers -> [by : Callers \cup {NoRecord}, meta : StoredRecord \cup {NoRecord}]]
    /\ at \in [Callers -> {"idle", "claim", "write", "rename", "sync", "tombstone", "doom", "empty",
                           "rmdir", "list", "read", "link", "unlink"}]
    /\ agent \in [Callers -> Identifiers]
    /\ held \in [Callers -> StoredRecord \cup {NoRecord}]
    /\ listed \in [Callers -> SUBSET Identifiers] /\ toRead \in [Callers -> SUBSET Identifiers]
    /\ found \in [Callers -> SUBSET Identifiers] /\ complete \in [Callers -> BOOLEAN]
    /\ parted \in [Identifiers -> SUBSET Identifiers]
    /\ begun \in Nat /\ crashes \in Nat

\* A conversation is never taken from an agent whose directory stood when the
\* inventory that licensed its removal was listed, whichever forks, deletions,
\* failures and crashes overlap: what removeOpencodeDatabase can miss is only
\* a clone whose directory was made after that, the interval its comment and
\* docs/intent-records/agent.md:229-238 state.
ConversationKept == \A k \in Identifiers : \A a \in parted[k] : Readable(a) => meta[a].key # k

\* A run or a tombstone is never undone: whoever completes the interrupted
\* creation of an agent, however late, finds its record or publishes the first.
NeverUnpublished ==
    [][\A a \in Identifiers : meta[a] # NoRecord /\ meta'[a] # NoRecord =>
           /\ meta[a].session => meta'[a].session
           /\ meta[a].doomed => meta'[a].doomed]_storageVars
=============================================================================
