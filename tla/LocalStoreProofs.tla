-------------------------- MODULE LocalStoreProofs --------------------------
(***************************************************************************)
(* Proofs about LocalStore, for any sets of documents, any number of       *)
(* crashes and any file errors: what the disk holds at every moment, and   *)
(* that the store keeps the promise of KeptStore.                          *)
(***************************************************************************)
EXTENDS LocalStore, TLAPS

-----------------------------------------------------------------------------
(* Type correctness.                                                        *)

LEMMA NothingType == Nothing \in Stores
BY DEF Nothing, Stores

LEMMA LoadedType == TypeOK => Loaded \in Stores
BY NothingType DEF TypeOK, Loaded

(* The parts of a store.                                                    *)
LEMMA StoreParts ==
  ASSUME NEW s \in Stores
  PROVE  /\ s.users \subseteq Users
         /\ s.polls \in [Polls -> PollDocs \cup {None}]
         /\ s.votes \in [Votes -> VoteDocs \cup {None}]
         /\ \A users \in SUBSET Users : [s EXCEPT !.users = users] \in Stores
         /\ \A polls \in [Polls -> PollDocs \cup {None}] : [s EXCEPT !.polls = polls] \in Stores
         /\ \A votes \in [Votes -> VoteDocs \cup {None}] : [s EXCEPT !.votes = votes] \in Stores
BY DEF Stores

(* Every change an operation makes leaves well-typed documents.             *)
LEMMA OperationType ==
  ASSUME TypeOK, Operation
  PROVE  /\ mem' \in Stores
         /\ ids' \subseteq Users \cup Polls \cup Votes
         /\ casting' \subseteq Polls /\ deleting' \subseteq Polls
         /\ copies' \subseteq Votes \X Polls
<1> USE DEF TypeOK, handlers, Change, Free
<1>0. /\ mem.users \subseteq Users
      /\ mem.polls \in [Polls -> PollDocs \cup {None}]
      /\ mem.votes \in [Votes -> VoteDocs \cup {None}]
  BY StoreParts
<1>1. ASSUME NEW u \in Users, CreateUser(u) PROVE mem' \in Stores
  BY <1>0, <1>1, StoreParts DEF CreateUser
<1>2. ASSUME NEW p \in Polls, NEW u \in Users, CreatePoll(p, u) PROVE mem' \in Stores
  <2>1. [creator |-> u, status |-> "active"] \in PollDocs
    BY DEF PollDocs
  <2>2. mem' = [mem EXCEPT !.polls =
                  [mem.polls EXCEPT ![p] = [creator |-> u, status |-> "active"]]]
    BY <1>2 DEF CreatePoll
  <2> QED BY <1>0, <2>1, <2>2, StoreParts
<1>3. ASSUME NEW p \in Polls, UpdateStatus(p) PROVE mem' \in Stores
  <2>1. [mem.polls[p] EXCEPT !.status = "closed"] \in PollDocs
    BY <1>0, <1>3 DEF UpdateStatus, PollDocs
  <2>2. mem' = [mem EXCEPT !.polls =
                  [mem.polls EXCEPT ![p] = [mem.polls[p] EXCEPT !.status = "closed"]]]
    BY <1>3 DEF UpdateStatus
  <2> QED BY <1>0, <2>1, <2>2, StoreParts
<1>4. ASSUME NEW v \in Votes, NEW p \in Polls, NEW c \in Choices, CreateVote(v, p, c)
      PROVE  mem' \in Stores
  <2>1. [poll |-> p, choice |-> c] \in VoteDocs
    BY DEF VoteDocs
  <2>2. mem' = [mem EXCEPT !.votes =
                  [mem.votes EXCEPT ![v] = [poll |-> p, choice |-> c]]]
    BY <1>4 DEF CreateVote
  <2> QED BY <1>0, <2>1, <2>2, StoreParts
<1>5. ASSUME NEW copy \in Votes \X Polls, NEW c \in Choices, UpdateVote(copy, c)
      PROVE  mem' \in Stores
  <2>1. [poll |-> copy[2], choice |-> c] \in VoteDocs
    BY DEF VoteDocs
  <2>2. mem' = [mem EXCEPT !.votes =
                  [mem.votes EXCEPT ![copy[1]] = [poll |-> copy[2], choice |-> c]]]
    BY <1>5 DEF UpdateVote
  <2> QED BY <1>0, <2>1, <2>2, StoreParts
<1>6. ASSUME NEW p \in Polls, NEW u \in Users, DeletePoll(p, u) PROVE mem' \in Stores
  <2>1. [mem EXCEPT !.polls = [mem.polls EXCEPT ![p] = None]] \in Stores
    BY <1>0, StoreParts
  <2> QED BY <1>6, <2>1 DEF DeletePoll
<1>7. ASSUME NEW p \in Polls, DeleteByPollID(p) PROVE mem' \in Stores
  <2> DEFINE left == [v \in Votes |-> IF v \in VotesOf(p) THEN None ELSE mem.votes[v]]
  <2>1. left \in [Votes -> VoteDocs \cup {None}]
    BY <1>0
  <2>2. [mem EXCEPT !.votes = left] \in Stores
    BY <2>1, StoreParts
  <2>3. mem' = [mem EXCEPT !.votes = left] \/ mem' = mem
    BY <1>7 DEF DeleteByPollID
  <2> QED BY <2>2, <2>3
<1>8. ASSUME NEW v \in Votes, CopyVote(v)
      PROVE  <<v, mem.votes[v].poll>> \in Votes \X Polls
  BY <1>0, <1>8 DEF CopyVote, VoteDocs
<1>9. mem' \in Stores
  <2>1. ASSUME NEW p \in Polls, ReadPoll(p) PROVE mem' \in Stores
    BY <2>1 DEF ReadPoll
  <2>2. ASSUME NEW v \in Votes, CopyVote(v) PROVE mem' \in Stores
    BY <2>2 DEF CopyVote
  <2> HIDE DEF TypeOK, handlers, Change, Free
  <2> QED BY <1>1, <1>2, <1>3, <1>4, <1>5, <1>6, <1>7, <2>1, <2>2 DEF Operation
<1>10. copies' \subseteq Votes \X Polls
  <2>1. ASSUME NEW v \in Votes, CopyVote(v) PROVE copies' \subseteq Votes \X Polls
    BY <1>8, <2>1 DEF CopyVote
  <2>2. ASSUME \A v \in Votes : ~CopyVote(v) PROVE copies' \subseteq copies
    BY <2>2 DEF Operation, CreateUser, CreatePoll, UpdateStatus, ReadPoll,
                CreateVote, UpdateVote, DeletePoll, DeleteByPollID
  <2> QED BY <2>1, <2>2
<1>11. /\ ids' \subseteq Users \cup Polls \cup Votes
       /\ casting' \subseteq Polls /\ deleting' \subseteq Polls
  BY DEF Operation, CreateUser, CreatePoll, UpdateStatus, ReadPoll, CopyVote,
         CreateVote, UpdateVote, DeletePoll, DeleteByPollID
<1> QED BY <1>9, <1>10, <1>11

(* An operation leaves the disk alone, and either changes nothing but the   *)
(* handlers or makes a save due.                                            *)
Framed ==
  /\ UNCHANGED <<up, file, tmp, failed, acked, crashes>>
  /\ saving = "no"
  /\ saving' = "open" \/ UNCHANGED <<mem, saving>>

LEMMA ChangeFrame == ASSUME NEW docs, Change(docs) PROVE Framed
BY DEF Framed, Change, Free, disk

LEMMA OperationFrame == ASSUME Operation PROVE Framed
<1>1. ASSUME NEW u \in Users, CreateUser(u) PROVE Framed
  BY <1>1, ChangeFrame DEF CreateUser
<1>2. ASSUME NEW p \in Polls, NEW u \in Users, CreatePoll(p, u) PROVE Framed
  BY <1>2, ChangeFrame DEF CreatePoll
<1>3. ASSUME NEW p \in Polls, UpdateStatus(p) PROVE Framed
  BY <1>3, ChangeFrame DEF UpdateStatus
<1>4. ASSUME NEW p \in Polls, ReadPoll(p) PROVE Framed
  BY <1>4 DEF ReadPoll, Framed, Free, disk
<1>5. ASSUME NEW v \in Votes, CopyVote(v) PROVE Framed
  BY <1>5 DEF CopyVote, Framed, Free, disk
<1>6. ASSUME NEW v \in Votes, NEW p \in Polls, NEW c \in Choices, CreateVote(v, p, c)
      PROVE  Framed
  BY <1>6, ChangeFrame DEF CreateVote
<1>7. ASSUME NEW copy \in Votes \X Polls, NEW c \in Choices, UpdateVote(copy, c)
      PROVE  Framed
  BY <1>7, ChangeFrame DEF UpdateVote
<1>8. ASSUME NEW p \in Polls, NEW u \in Users, DeletePoll(p, u) PROVE Framed
  <2>1. CASE Change([mem EXCEPT !.polls[p] = None])
    BY <2>1, ChangeFrame
  <2>2. CASE Free /\ UNCHANGED <<mem, up, saving, disk, failed, acked, crashes>>
    BY <2>2 DEF Framed, Free, disk
  <2> QED BY <1>8, <2>1, <2>2 DEF DeletePoll
<1>9. ASSUME NEW p \in Polls, DeleteByPollID(p) PROVE Framed
  <2>1. CASE \E docs : Change(docs)
    BY <2>1, ChangeFrame
  <2>2. CASE Free /\ UNCHANGED <<mem, up, saving, disk, failed, acked, crashes>>
    BY <2>2 DEF Framed, Free, disk
  <2> QED BY <1>9, <2>1, <2>2 DEF DeleteByPollID
<1> QED
  BY <1>1, <1>2, <1>3, <1>4, <1>5, <1>6, <1>7, <1>8, <1>9 DEF Operation

(* What makes the rename safe: from the removal of the old file on, the     *)
(* temporary file holds the documents.                                      *)
TmpWritten == saving \in {"remove", "rename"} => tmp = mem

TypeInv == TypeOK /\ TmpWritten

LEMMA TypeInit == Init => TypeInv
<1> SUFFICES ASSUME Init PROVE TypeInv
  OBVIOUS
<1>1. up \in BOOLEAN /\ failed \in BOOLEAN
  BY DEF Init
<1>2. /\ mem \in Stores /\ acked \in Stores /\ crashes \in Nat
      /\ file \in Stores \cup {Absent} /\ tmp \in Stores \cup {Absent, Torn}
  BY NothingType DEF Init
<1>3. /\ ids \subseteq Users \cup Polls \cup Votes
      /\ casting \subseteq Polls /\ deleting \subseteq Polls
      /\ copies \subseteq Votes \X Polls
      /\ saving \in {"no", "open", "write", "remove", "rename"} /\ TmpWritten
  BY DEF Init, TmpWritten
<1> QED BY <1>1, <1>2, <1>3 DEF TypeInv, TypeOK

LEMMA TypeStep == TypeInv /\ [Next]_vars => TypeInv'
<1> SUFFICES ASSUME TypeInv, [Next]_vars PROVE TypeInv'
  OBVIOUS
<1> USE DEF TypeInv, TmpWritten
<1>1. CASE Operation
  <2>1. /\ mem' \in Stores
        /\ ids' \subseteq Users \cup Polls \cup Votes
        /\ casting' \subseteq Polls /\ deleting' \subseteq Polls
        /\ copies' \subseteq Votes \X Polls
    BY <1>1, OperationType
  <2>2. Framed
    BY <1>1, OperationFrame
  <2> QED BY <2>1, <2>2 DEF TypeOK, Framed
<1>2. ASSUME OpenTmp PROVE TypeInv'
  BY <1>2 DEF OpenTmp, TypeOK, handlers
<1>3. ASSUME WriteTmp PROVE TypeInv'
  BY <1>3 DEF WriteTmp, TypeOK, handlers
<1>4. ASSUME WriteFails PROVE TypeInv'
  BY <1>4 DEF WriteFails, Returns, TypeOK, handlers, disk
<1>5. ASSUME RemoveFile PROVE TypeInv'
  BY <1>5 DEF RemoveFile, TypeOK, handlers
<1>6. ASSUME RenameTmp PROVE TypeInv'
  BY <1>6 DEF RenameTmp, Returns, TypeOK, handlers, disk
<1>7. CASE Crash
  <2>1. crashes' \in Nat /\ up' \in BOOLEAN
    <3>1. crashes' = crashes + 1 /\ up' = FALSE /\ crashes \in Nat
      BY <1>7 DEF Crash, TypeOK
    <3>2. crashes' \in Nat
      BY <3>1
    <3> QED BY <3>1, <3>2
  <2>2. UNCHANGED <<mem, ids, handlers, saving, disk, failed, acked>>
    BY <1>7 DEF Crash
  <2> QED BY <2>1, <2>2 DEF TypeOK, handlers, disk
<1>8. CASE Restart
  <2>1. Loaded \in Stores
    BY LoadedType
  <2> QED BY <1>8, <2>1 DEF Restart, TypeOK, disk
<1>9. CASE UNCHANGED vars
  BY <1>9 DEF vars, handlers, disk, TypeOK
<1> QED
  BY <1>1, <1>2, <1>3, <1>4, <1>5, <1>6, <1>7, <1>8, <1>9 DEF Next, SaveToFile

LEMMA TypeInvariant == Spec => []TypeInv
BY TypeInit, TypeStep, PTL DEF Spec

(* Type correctness of the store; in particular its file is never half      *)
(* written, whenever the process dies.                                      *)
THEOREM StoreTypeCorrect == Spec => []TypeOK
BY TypeInvariant, PTL DEF TypeInv

-----------------------------------------------------------------------------
(* What the disk holds. While nothing has been removed since the last save, *)
(* the file holds what the last operation that returned left behind.        *)

FileCurrent ==
  ~failed /\ saving \in {"no", "open", "write"} => Loaded = acked

LEMMA LoadedStore == \A s \in Stores : s \notin {Absent, Torn}
BY StoreAssumption

LEMMA FileInit == Init => FileCurrent
BY DEF Init, FileCurrent, Loaded

LEMMA FileStep == TypeInv /\ FileCurrent /\ [Next]_vars => FileCurrent'
<1> SUFFICES ASSUME TypeInv, FileCurrent, [Next]_vars PROVE FileCurrent'
  OBVIOUS
<1> USE DEF FileCurrent, Loaded
<1>1. CASE Operation
  BY <1>1, OperationFrame DEF Framed
<1>2. ASSUME OpenTmp \/ WriteTmp \/ RemoveFile PROVE FileCurrent'
  BY <1>2 DEF OpenTmp, WriteTmp, RemoveFile
<1>3. ASSUME WriteFails PROVE FileCurrent'
  BY <1>3 DEF WriteFails, Returns
<1>4. ASSUME RenameTmp PROVE FileCurrent'
  <2>1. tmp = mem /\ mem \notin {Absent, Torn}
    BY <1>4, LoadedStore DEF RenameTmp, TypeInv, TmpWritten, TypeOK
  <2> QED BY <1>4, <2>1 DEF RenameTmp, Returns
<1>5. CASE Crash
  BY <1>5 DEF Crash, disk
<1>6. CASE Restart
  BY <1>6 DEF Restart, disk
<1>7. CASE UNCHANGED vars
  BY <1>7 DEF vars, disk
<1> QED BY <1>1, <1>2, <1>3, <1>4, <1>5, <1>6, <1>7 DEF Next, SaveToFile

(* Unless the last save gave up, the disk holds every operation that has    *)
(* returned at every moment, whenever the process dies.                     *)
THEOREM DiskHoldsReturned == Spec => []AlwaysOnDisk
<1>1. TypeInv /\ FileCurrent => AlwaysOnDisk
  BY DEF TypeInv, TypeOK, TmpWritten, FileCurrent, AlwaysOnDisk
<1> QED BY <1>1, FileInit, FileStep, TypeInvariant, PTL DEF Spec

-----------------------------------------------------------------------------
(* LocalStore implements KeptStore.                                         *)

LEMMA KeptInit == Init => Kept!Init
BY DEF Init, Kept!Init, Loaded

LEMMA KeptStep ==
  TypeInv /\ TypeInv' /\ [Next]_vars
    => [Kept!Next]_<<mem, Loaded, (saving # "no" \/ failed)>>
<1> SUFFICES ASSUME TypeInv, TypeInv', [Next]_vars
             PROVE  \/ Kept!Next
                    \/ UNCHANGED <<mem, Loaded, (saving # "no" \/ failed)>>
  OBVIOUS
<1> USE DEF Kept!Next, Kept!Operate, Kept!Save, Kept!Lose, Kept!Restart, Loaded
<1>1. CASE Operation
  <2>1. Framed /\ mem' \in Stores
    BY <1>1, OperationFrame DEF TypeInv, TypeOK
  <2> QED BY <2>1 DEF Framed
<1>2. ASSUME OpenTmp \/ WriteTmp PROVE UNCHANGED <<mem, Loaded, (saving # "no" \/ failed)>>
  BY <1>2 DEF OpenTmp, WriteTmp
<1>3. ASSUME WriteFails PROVE UNCHANGED <<mem, Loaded, (saving # "no" \/ failed)>>
  BY <1>3 DEF WriteFails, Returns, disk
<1>4. CASE RemoveFile
  BY <1>4 DEF RemoveFile
<1>5. CASE RenameTmp
  <2>1. tmp = mem /\ mem \notin {Absent, Torn}
    BY <1>5, LoadedStore DEF RenameTmp, TypeInv, TmpWritten, TypeOK
  <2> QED BY <1>5, <2>1 DEF RenameTmp, Returns, disk
<1>6. CASE Crash
  BY <1>6 DEF Crash, disk
<1>7. CASE Restart
  BY <1>7 DEF Restart, disk
<1>8. CASE UNCHANGED vars
  BY <1>8 DEF vars, disk
<1> QED BY <1>1, <1>2, <1>3, <1>4, <1>5, <1>6, <1>7, <1>8 DEF Next, SaveToFile

(* The fallback store keeps the promise of KeptStore: a save keeps all of   *)
(* the documents or none, nothing is lost unless a save is due or failed,   *)
(* and a restart brings back what is kept.                                  *)
THEOREM LocalStoreImplementsKeptStore == Spec => ImplementsKeptStore
<1>1. Init => Kept!Init
  BY KeptInit
<1>2. TypeInv /\ TypeInv' /\ [Next]_vars
        => [Kept!Next]_<<mem, Loaded, (saving # "no" \/ failed)>>
  BY KeptStep
<1> QED BY <1>1, <1>2, TypeInvariant, PTL DEF Spec, ImplementsKeptStore, Kept!Spec
=============================================================================
