----------------------------- MODULE LocalStore -----------------------------
(***************************************************************************)
(* The repositories the backend falls back to when MongoDB is out of       *)
(* reach: three maps under one mutex, saved to a JSON file at the end of   *)
(* every operation that changes them, with the mutex held. The file is     *)
(* replaced in steps (write a temporary file, remove the old one, rename), *)
(* and the process may die between any two.                                *)
(***************************************************************************)
EXTENDS Naturals

CONSTANTS
  Users, Polls, Votes,  \* object ids, each given to one document at most
  Choices,              \* what a vote can say
  Events,               \* which of "crash" and "disk" (file errors) happen
  MaxCrashes,           \* bound on the crashes
  None,                 \* no document of this id
  Absent, Torn          \* a file that is not there; one half written

PollDocs == [creator : Users, status : {"active", "closed"}]
VoteDocs == [poll : Polls, choice : Choices]
Stores == [users : SUBSET Users, polls : [Polls -> PollDocs \cup {None}],
           votes : [Votes -> VoteDocs \cup {None}]]

Nothing == [users |-> {}, polls |-> [p \in Polls |-> None],
            votes |-> [v \in Votes |-> None]]

ASSUME StoreAssumption ==
  /\ Absent \notin Stores /\ Torn \notin Stores /\ Absent # Torn
  /\ None \notin PollDocs /\ None \notin VoteDocs
  /\ Events \subseteq {"crash", "disk"} /\ MaxCrashes \in Nat

VARIABLES
  mem,      \* users, polls and votes; of no use once the process is down
  up,       \* the process runs
  ids,      \* history: the object ids given out
  casting,  \* polls that some CastVote has read and found active
  copies,   \* votes that some CastVote has found, as it found them
  deleting, \* polls whose DeletePoll has yet to delete the votes
  saving,   \* the next step of saveToFileLocked, "no" when nobody saves
  file,     \* filePath
  tmp,      \* filePath + ".tmp"
  failed,   \* the last save gave up
  acked,    \* history: the documents as of the last operation that returned
  crashes

handlers == <<casting, copies, deleting>>
disk     == <<file, tmp>>
vars == <<mem, up, ids, handlers, saving, disk, failed, acked, crashes>>

Init ==
  /\ mem = Nothing /\ acked = Nothing /\ up = TRUE
  /\ ids = {} /\ casting = {} /\ copies = {} /\ deleting = {}
  /\ saving = "no" /\ failed = FALSE
  /\ file = Absent /\ tmp = Absent /\ crashes = 0

-----------------------------------------------------------------------------
(* Operations of the repositories: the mutex is free, the change is made,   *)
(* and the save is due.                                                     *)

Free == up /\ saving = "no"

Change(docs) ==
  /\ Free
  /\ mem' = docs
  /\ saving' = "open"
  /\ UNCHANGED <<up, disk, failed, acked, crashes>>

CreateUser(u) ==
  /\ u \notin ids /\ ids' = ids \cup {u}
  /\ Change([mem EXCEPT !.users = @ \cup {u}])
  /\ UNCHANGED handlers

CreatePoll(p, u) ==
  /\ p \notin ids /\ u \in mem.users /\ ids' = ids \cup {p}
  /\ Change([mem EXCEPT !.polls[p] = [creator |-> u, status |-> "active"]])
  /\ UNCHANGED handlers

UpdateStatus(p) ==
  /\ mem.polls[p] # None
  /\ Change([mem EXCEPT !.polls[p].status = "closed"])
  /\ UNCHANGED <<ids, handlers>>

(* CastVote: read the poll, look for a vote, then create or change one. Any *)
(* number of runs may have read the same poll or vote.                      *)
ReadPoll(p) ==
  /\ Free /\ mem.polls[p] # None /\ mem.polls[p].status = "active"
  /\ casting' = casting \cup {p}
  /\ UNCHANGED <<mem, up, ids, copies, deleting, saving, disk, failed, acked, crashes>>

CopyVote(v) ==
  /\ Free /\ mem.votes[v] # None /\ mem.votes[v].poll \in casting
  /\ copies' = copies \cup {<<v, mem.votes[v].poll>>}
  /\ UNCHANGED <<mem, up, ids, casting, deleting, saving, disk, failed, acked, crashes>>

CreateVote(v, p, c) ==
  /\ v \notin ids /\ p \in casting
  /\ ids' = ids \cup {v}
  /\ Change([mem EXCEPT !.votes[v] = [poll |-> p, choice |-> c]])
  /\ UNCHANGED handlers

(* Update puts the copy into the map, whether or not the vote is still there.*)
UpdateVote(copy, c) ==
  /\ copy \in copies
  /\ Change([mem EXCEPT !.votes[copy[1]] = [poll |-> copy[2], choice |-> c]])
  /\ UNCHANGED <<ids, handlers>>

(* DeletePoll: Delete removes the poll of this creator, and reports no      *)
(* error when there is none; DeleteByPollID follows in either case.         *)
DeletePoll(p, u) ==
  /\ p \in ids /\ deleting' = deleting \cup {p}
  /\ \/ /\ mem.polls[p] # None /\ mem.polls[p].creator = u
        /\ Change([mem EXCEPT !.polls[p] = None])
     \/ /\ Free /\ ~(mem.polls[p] # None /\ mem.polls[p].creator = u)
        /\ UNCHANGED <<mem, up, saving, disk, failed, acked, crashes>>
  /\ UNCHANGED <<ids, casting, copies>>

VotesOf(p) == {v \in Votes : mem.votes[v] # None /\ mem.votes[v].poll = p}

DeleteUnsaved(p) ==  \* mutant: the votes are deleted and the store is not saved
  /\ p \in deleting /\ deleting' = deleting \ {p} /\ Free
  /\ mem' = [mem EXCEPT !.votes =
               [v \in Votes |-> IF v \in VotesOf(p) THEN None ELSE @[v]]]
  /\ UNCHANGED <<up, ids, casting, copies, saving, disk, failed, acked, crashes>>

DeleteByPollID(p) ==
  /\ p \in deleting /\ deleting' = deleting \ {p}
  /\ \/ /\ VotesOf(p) # {}
        /\ Change([mem EXCEPT !.votes =
                     [v \in Votes |-> IF v \in VotesOf(p) THEN None ELSE @[v]]])
     \/ /\ Free /\ VotesOf(p) = {}
        /\ UNCHANGED <<mem, up, saving, disk, failed, acked, crashes>>
  /\ UNCHANGED <<ids, casting, copies>>

-----------------------------------------------------------------------------
(* saveToFileLocked. Its caller returns when it ends, whatever came of it.  *)

Returns(gaveUp) ==
  /\ saving' = "no" /\ failed' = gaveUp /\ acked' = mem

RemoveFirst ==  \* mutant: the old file goes before the new one is written
  /\ up /\ saving = "open" /\ saving' = "write"
  /\ tmp' = Torn /\ file' = Absent
  /\ UNCHANGED <<mem, up, ids, handlers, failed, acked, crashes>>

OpenTmp ==
  /\ up /\ saving = "open" /\ saving' = "write"
  /\ tmp' = Torn
  /\ UNCHANGED <<mem, up, ids, handlers, file, failed, acked, crashes>>

WriteTmp ==
  /\ up /\ saving = "write" /\ saving' = "remove"
  /\ tmp' = mem
  /\ UNCHANGED <<mem, up, ids, handlers, file, failed, acked, crashes>>

CarryOn ==  \* mutant: no return after an error of WriteFile
  /\ "disk" \in Events /\ up /\ saving = "write"
  /\ saving' = "remove"
  /\ UNCHANGED <<mem, up, ids, handlers, disk, failed, acked, crashes>>

WriteFails ==
  /\ "disk" \in Events /\ up /\ saving \in {"open", "write"}
  /\ Returns(TRUE)
  /\ UNCHANGED <<mem, up, ids, handlers, disk, crashes>>

(* The error of os.Remove is ignored.                                       *)
RemoveFile ==
  /\ up /\ saving = "remove" /\ saving' = "rename"
  /\ \/ file' = Absent
     \/ "disk" \in Events /\ file' = file
  /\ UNCHANGED <<mem, up, ids, handlers, tmp, failed, acked, crashes>>

RenameTmp ==
  /\ up /\ saving = "rename"
  /\ \/ file' = tmp /\ tmp' = Absent /\ Returns(FALSE)
     \/ "disk" \in Events /\ UNCHANGED disk /\ Returns(TRUE)
  /\ UNCHANGED <<mem, up, ids, handlers, crashes>>

-----------------------------------------------------------------------------

Crash ==
  /\ "crash" \in Events /\ up /\ crashes < MaxCrashes
  /\ up' = FALSE /\ crashes' = crashes + 1
  /\ UNCHANGED <<mem, ids, handlers, saving, disk, failed, acked>>

(* loadFromFile: a file that is not there, or cannot be parsed, is an empty *)
(* store.                                                                   *)
Loaded == IF file \in {Absent, Torn} THEN Nothing ELSE file

Restart ==
  /\ ~up /\ up' = TRUE
  /\ mem' = Loaded /\ acked' = Loaded
  /\ saving' = "no" /\ failed' = FALSE
  /\ casting' = {} /\ copies' = {} /\ deleting' = {}
  /\ UNCHANGED <<ids, disk, crashes>>

Operation ==
  \/ \E u \in Users : CreateUser(u)
  \/ \E p \in Polls : \/ UpdateStatus(p) \/ ReadPoll(p) \/ DeleteByPollID(p)
                      \/ \E u \in Users : CreatePoll(p, u) \/ DeletePoll(p, u)
  \/ \E v \in Votes : \/ CopyVote(v)
                      \/ \E p \in Polls, c \in Choices : CreateVote(v, p, c)
  \/ \E copy \in Votes \X Polls, c \in Choices : UpdateVote(copy, c)

SaveToFile == OpenTmp \/ WriteTmp \/ WriteFails \/ RemoveFile \/ RenameTmp

Next == Operation \/ SaveToFile \/ Crash \/ Restart

Spec == Init /\ [][Next]_vars

-----------------------------------------------------------------------------
(* Properties.                                                              *)

(* The values of the variables; in particular the file is never half        *)
(* written, only its temporary may be.                                      *)
TypeOK ==
  /\ mem \in Stores /\ acked \in Stores /\ up \in BOOLEAN /\ failed \in BOOLEAN
  /\ ids \subseteq Users \cup Polls \cup Votes
  /\ casting \subseteq Polls /\ deleting \subseteq Polls
  /\ copies \subseteq Votes \X Polls
  /\ saving \in {"no", "open", "write", "remove", "rename"}
  /\ file \in Stores \cup {Absent} /\ tmp \in Stores \cup {Absent, Torn}
  /\ crashes \in Nat

(* Unless the last save gave up: at any moment, a crash included, the disk  *)
(* holds a whole copy of the documents with every operation that has        *)
(* returned, in the file or, between its removal and the rename, in the     *)
(* temporary file.                                                          *)
AlwaysOnDisk == ~failed => Loaded \in {acked, mem} \/ tmp = mem

(* The fallback store saves all or nothing, and may lose what it kept only  *)
(* while a save is due or after one has failed.                             *)
Kept == INSTANCE KeptStore WITH
          docs <- mem, kept <- Loaded, due <- (saving # "no" \/ failed)

ImplementsKeptStore == Kept!Spec

(* "Restarts do not wipe user credentials".                                 *)
RestartKeepsUsers == [][~up /\ up' => acked.users \subseteq mem'.users]_vars

=============================================================================
