---------------------------- MODULE FilterStore ----------------------------
(***************************************************************************)
(* The domain lists of FocusGuard and the file they come from: main's      *)
(* first load_whitelist, the hot reload of the watcher thread, the         *)
(* automatic registration of a queried name by a worker (the DNS branch of *)
(* consumer_func and add_to_whitelist_safe), and the user, who edits       *)
(* whitelist.json whenever he likes.                                       *)
(*                                                                         *)
(* One action is one critical section or one operation on the file.  The   *)
(* process list is loaded and replaced together with blocked_domains and   *)
(* is left out.                                                            *)
(*                                                                         *)
(* A definition that stands just before another and that nothing uses is a *)
(* faulty variant of it, which a property has to be able to tell from it.  *)
(***************************************************************************)
EXTENDS HostNames

CONSTANTS
  Workers,    \* the consumer threads
  Domains,    \* host names
  Malformed,  \* names with bytes that are not UTF-8
  Edits,      \* what the user may make of the file
  Illegal,    \* a file that is no legal JSON
  Missing,    \* no file
  MaxClock    \* bound: seconds

Content == [allowed : Seq(Domains), blocked : SUBSET Domains]
Empty == [allowed |-> <<>>, blocked |-> {}]
Legal(f) == f \notin {Illegal, Missing}

ASSUME StoreAssumption ==
  /\ NoDomain \notin Domains
  /\ Edits \subseteq Content \cup {Illegal, Missing}
  /\ Illegal \notin Content /\ Missing \notin Content
  /\ MaxClock \in Nat \ {0}

(* The names that a query may have besides w to be registered for w.       *)
Derived == [w \in Domains |-> {d \in Domains : IsRelative(d, w)}]

VARIABLES
  file,       \* whitelist.json as it was last saved
  truncated,  \* whether a worker has opened it for writing since
  mtime,      \* its modification time in seconds, 0 if there is no file
  byUser,     \* history: whether the user saved it last
  clock,      \* the time in seconds
  lists,      \* whitelist_domains and blacklist_domains
  watcher,    \* where the watcher is
  last,       \* last_time of watcher_func
  parsed,     \* the lists load_whitelist has parsed
  reg,        \* where each worker is in add_to_whitelist_safe
  name,       \* new_domain of each worker
  copy        \* config_data of each worker

disk == <<file, truncated, mtime, byUser>>
watching == <<watcher, last, parsed>>
registering == <<reg, name, copy>>
vars == <<disk, clock, lists, watching, registering>>

Reg == {"idle", "check", "lock", "read", "open", "write", "append"}

(* What a reader of the file finds: nothing legal in a truncated one.      *)
Text == IF truncated THEN Illegal ELSE file

(* main has loaded the lists and the watcher thread is about to start.     *)
Init ==
  /\ file \in Edits
  /\ truncated = FALSE
  /\ mtime = IF file = Missing THEN 0 ELSE 1
  /\ byUser = TRUE
  /\ clock = 1
  /\ lists = IF Legal(file) THEN file ELSE Empty
  /\ watcher = "start"
  /\ last = 0
  /\ parsed = Empty
  /\ reg = [w \in Workers |-> "idle"]
  /\ name = [w \in Workers |-> NoDomain]
  /\ copy = [w \in Workers |-> Empty]
-----------------------------------------------------------------------------
(* The user saves or deletes the file; one that is open is not deleted.    *)
UserSave(f) ==
  /\ f = Missing => \A w \in Workers : reg[w] # "write"
  /\ file' = f
  /\ truncated' = FALSE
  /\ mtime' = IF f = Missing THEN 0 ELSE clock
  /\ byUser' = TRUE
  /\ UNCHANGED <<clock, lists, watching, registering>>

Tick ==
  /\ clock < MaxClock
  /\ clock' = clock + 1
  /\ UNCHANGED <<disk, lists, watching, registering>>
-----------------------------------------------------------------------------
(* watcher_func: the time of the file at the start is the first one noted. *)
WatchStart ==
  /\ watcher = "start"
  /\ last' = mtime
  /\ watcher' = "sleep"
  /\ UNCHANGED <<disk, clock, lists, parsed, registering>>

(* A file with another time is noted, then loaded.                         *)
Changed == mtime # 0 /\ mtime # last
Poll ==
  /\ watcher = "sleep"
  /\ Changed
  /\ last' = mtime
  /\ watcher' = "load"
  /\ UNCHANGED <<disk, clock, lists, parsed, registering>>

(* load_whitelist gives up when there is no file or no legal text in it,   *)
LoadFails ==
  /\ watcher = "load"
  /\ ~Legal(Text)
  /\ watcher' = "sleep"
  /\ UNCHANGED <<disk, clock, lists, last, parsed, registering>>

LoadUnchecked ==
  /\ watcher = "load"
  /\ parsed' = Text
  /\ watcher' = "swap"
  /\ UNCHANGED <<disk, clock, lists, last, registering>>
Load ==
  /\ watcher = "load"
  /\ Legal(Text)
  /\ parsed' = Text
  /\ watcher' = "swap"
  /\ UNCHANGED <<disk, clock, lists, last, registering>>

(* ... and replaces the lists in one critical section after the parsing.   *)
SwapNoting ==
  /\ watcher = "swap"
  /\ lists' = parsed
  /\ last' = mtime
  /\ watcher' = "sleep"
  /\ UNCHANGED <<disk, clock, parsed, registering>>
Swap ==
  /\ watcher = "swap"
  /\ lists' = parsed
  /\ watcher' = "sleep"
  /\ UNCHANGED <<disk, clock, last, parsed, registering>>
-----------------------------------------------------------------------------
(* A DNS query for d: it is registered if the first name of the whitelist  *)
(* that d is a relative of is not d itself.                                *)
Query(w, d) ==
  LET matched == SelectSeq(lists.allowed, LAMBDA p : d \in Derived[p]) IN
  /\ reg[w] = "idle"
  /\ matched # <<>> /\ Head(matched) # d
  /\ reg' = [reg EXCEPT ![w] = "check"]
  /\ name' = [name EXCEPT ![w] = d]
  /\ UNCHANGED <<disk, clock, lists, watching, copy>>

(* The registration is over; its mutex, if it was taken, is free.          *)
Return(w) ==
  /\ reg' = [reg EXCEPT ![w] = "idle"]
  /\ name' = [name EXCEPT ![w] = NoDomain]
  /\ copy' = [copy EXCEPT ![w] = Empty]

(* Nothing is registered that either list has.                             *)
CheckMemory(w) ==
  LET known == name[w] \in ToSet(lists.allowed) \cup lists.blocked IN
  /\ reg[w] = "check"
  /\ \/ known /\ Return(w)
     \/ ~known /\ reg' = [reg EXCEPT ![w] = "lock"] /\ UNCHANGED <<name, copy>>
  /\ UNCHANGED <<disk, clock, lists, watching>>

(* g_whitelist_file_mtx, held from here to the return.                     *)
InFile(w) == reg[w] \in {"read", "open", "write", "append"}
LockFileUnguarded(w) ==
  /\ reg[w] = "lock"
  /\ reg' = [reg EXCEPT ![w] = "read"]
  /\ UNCHANGED <<disk, clock, lists, watching, name, copy>>
LockFile(w) ==
  /\ reg[w] = "lock"
  /\ ~\E v \in Workers : InFile(v)
  /\ reg' = [reg EXCEPT ![w] = "read"]
  /\ UNCHANGED <<disk, clock, lists, watching, name, copy>>

(* The file is looked up too; without a legal file there is no entry.      *)
ReadFileRetrying(w) ==
  /\ reg[w] = "read"
  /\ Legal(Text)
  /\ \/ name[w] \in ToSet(Text.allowed) /\ Return(w)
     \/ /\ name[w] \notin ToSet(Text.allowed)
        /\ reg' = [reg EXCEPT ![w] = "open"]
        /\ copy' = [copy EXCEPT ![w] = Text]
        /\ UNCHANGED name
  /\ UNCHANGED <<disk, clock, lists, watching>>
ReadFile(w) ==
  /\ reg[w] = "read"
  /\ \/ ~Legal(Text) /\ Return(w)
     \/ Legal(Text) /\ name[w] \in ToSet(Text.allowed) /\ Return(w)
     \/ /\ Legal(Text) /\ name[w] \notin ToSet(Text.allowed)
        /\ reg' = [reg EXCEPT ![w] = "open"]
        /\ copy' = [copy EXCEPT ![w] = Text]
        /\ UNCHANGED name
  /\ UNCHANGED <<disk, clock, lists, watching>>

(* To open the file for writing truncates it.  If it cannot be opened, the *)
(* name goes to the list in memory all the same.                           *)
OpenFile(w) ==
  /\ reg[w] = "open"
  /\ reg' = [reg EXCEPT ![w] = "write"]
  /\ truncated' = TRUE
  /\ mtime' = clock
  /\ UNCHANGED <<file, byUser, clock, lists, watching, name, copy>>

OpenFails(w) ==
  /\ reg[w] = "open"
  /\ reg' = [reg EXCEPT ![w] = "append"]
  /\ UNCHANGED <<disk, clock, lists, watching, name, copy>>

(* The text read, with the new name.  It is no legal file if the disk      *)
(* takes a part of it only, which nobody looks at, or if the user saved a  *)
(* text meanwhile and it comes to lie over that one.                       *)
WriteFile(w) ==
  /\ reg[w] = "write"
  /\ name[w] \notin Malformed
  /\ \/ file' = [copy[w] EXCEPT !.allowed = Append(@, name[w])]
     \/ file' = Illegal
  /\ truncated' = FALSE
  /\ mtime' = clock
  /\ byUser' = FALSE
  /\ reg' = [reg EXCEPT ![w] = "append"]
  /\ UNCHANGED <<clock, lists, watching, name, copy>>

(* A name is the bytes of a question, and dump throws on one that is not   *)
(* UTF-8.  The file is open then, and stays as it is: truncated, unless    *)
(* the user has saved it.                                                  *)
DumpThrows(w) ==
  /\ reg[w] = "write"
  /\ name[w] \in Malformed
  /\ file' = Text
  /\ truncated' = FALSE
  /\ byUser' = (byUser /\ ~truncated)
  /\ Return(w)
  /\ UNCHANGED <<mtime, clock, lists, watching>>

AppendMemory(w) ==
  /\ reg[w] = "append"
  /\ lists' = [lists EXCEPT !.allowed = Append(@, name[w])]
  /\ Return(w)
  /\ UNCHANGED <<disk, clock, watching>>
-----------------------------------------------------------------------------
Watch == WatchStart \/ Poll \/ LoadFails \/ Load \/ Swap

Register(w) ==
  \/ CheckMemory(w) \/ ReadFile(w) \/ OpenFile(w) \/ OpenFails(w)
  \/ WriteFile(w) \/ DumpThrows(w) \/ AppendMemory(w)

Next ==
  \/ \E f \in Edits : UserSave(f)
  \/ Tick
  \/ Watch
  \/ \E w \in Workers :
       (\E d \in Domains : Query(w, d)) \/ LockFile(w) \/ Register(w)

Spec == Init /\ [][Next]_vars

(* The threads are scheduled, time passes, and a mutex that is free again  *)
(* and again is had.  Nothing makes the user or the DNS queries come.      *)
Fairness ==
  /\ WF_vars(Watch)
  /\ WF_vars(Tick)
  /\ \A w \in Workers : WF_vars(Register(w)) /\ SF_vars(LockFile(w))

FairSpec == Spec /\ Fairness
-----------------------------------------------------------------------------
(* Properties.                                                             *)

(* Every variable has its type: an illegal file never becomes a list, and  *)
(* no time noted lies ahead.                                               *)
TypeOK ==
  /\ file \in Content \cup {Illegal, Missing}
  /\ truncated \in BOOLEAN /\ byUser \in BOOLEAN
  /\ clock \in 1 .. MaxClock
  /\ mtime \in 0 .. clock /\ last \in 0 .. clock
  /\ lists \in Content /\ parsed \in Content
  /\ watcher \in {"start", "sleep", "load", "swap"}
  /\ reg \in [Workers -> Reg]
  /\ name \in [Workers -> Domains \cup {NoDomain}]
  /\ \A w \in Workers : name[w] = NoDomain <=> reg[w] = "idle"
  /\ copy \in [Workers -> Content]

(* No registration is overwritten by one that did not see it: a worker     *)
(* that is about to write the file back has read what is in it, unless the *)
(* user saved it meanwhile (:117, the mutex around reading and writing).   *)
NoRegistrationLost ==
  \A w \in Workers :
    reg[w] \in {"open", "write"} => byUser \/ file = copy[w]

(* As long as the user leaves the file alone, what one registration wrote  *)
(* is in all that later ones write, and a file that one has spoiled, by a  *)
(* name that is not UTF-8 or on a full disk (:135-137), is not written     *)
(* over by another: it is the user's to repair.                            *)
Names(f) == ToSet(f.allowed)
RegistrationsStay ==
  [][ ~byUser /\ ~byUser' /\ Legal(file') =>
        Legal(file) /\ Names(file) \subseteq Names(file') /\ file'.blocked = file.blocked ]_vars

(* A change that the watcher can tell by the time of the file is loaded,   *)
(* also one that comes while it loads, unless the file changes again: the  *)
(* time is noted before the file is read (watcher.cpp:35-37).              *)
Contents == {f \in Edits : Legal(f)}
ChangesAreLoaded ==
  \A f \in Contents :
    (watcher # "start" /\ Changed /\ Text = f) ~> (lists = f \/ Text # f)

(* Every registration ends: each way out of it frees the file's mutex.     *)
RegistrationsEnd == \A w \in Workers : reg[w] # "idle" ~> reg[w] = "idle"

(* Once the user leaves the file alone, the lists are those of the file.   *)
(* They need not be: what is saved before the watcher first looks at the   *)
(* file, or twice in one second, has no new time (watcher.cpp:23, 34).     *)
EditsTakeEffect ==
  \A f \in Contents : <>[](Text = f) => <>[](lists = f)

(* What is on the whitelist is a site the user put there or a relative of  *)
(* one, in the code's own sense of relatives (:318-340).  It need not be:  *)
(* the names registered have relatives in turn, and every name that begins *)
(* with www. is one to every other that does.                              *)
OnlyRelativesRegistered ==
  \A d \in ToSet(lists.allowed) : \E f \in Contents : \E w \in ToSet(f.allowed) :
    d = w \/ d \in Derived[w]
=============================================================================
