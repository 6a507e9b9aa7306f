--------------------------- MODULE ThreadRegistry ---------------------------
(***************************************************************************)
(* The registry of threads of thread_handler.c: thread_create lists a      *)
(* Thread and starts it, tfun runs its function between two notices and    *)
(* takes it off the list, thread_join waits for it and frees it, and       *)
(* thread_enum shows the list to a caller.  ThreadsLock guards the list;   *)
(* the steps of a registered thread that hold it are told apart, because   *)
(* the leak watch may suspend the thread in between.                       *)
(***************************************************************************)
EXTENDS Naturals, Sequences, FiniteSets

CONSTANTS
    Threads,     \* Thread records malloc can return, each with the thread it starts
    Callers,     \* threads of the program that create and join
    InitMax,     \* THR_LIST_INIT_COUNT, more than 1
    Unlocked,        \* ThreadsLock is not held
    NoThread,
    Plans        \* bounds: how often each kind of call is made, one record per plan

VARIABLES
    inited,      \* ThreadHandlerInited
    listed,      \* Threads.Items[0 .. Count-1]
    room,        \* Threads.Max
    lock,        \* holder of ThreadsLock
    hooks,       \* OnCreatedThread and OnEndedThread are set
    place,       \* where tfun stands, for the record's thread
    told,        \* what the thread runs, the callbacks tfun read, and whether they ran
    call,        \* local state of the callers' thread_create and thread_join
    budget       \* calls of the plan still to come

listVars == <<inited, listed, room, lock, hooks>>
registryVars == <<listVars, place, told, call, budget>>

Idle == [pc |-> "idle", thr |-> NoThread, job |-> "work"]
Untold == [job |-> "work", hook |-> FALSE, begun |-> FALSE, ended |-> FALSE]

(* The threads the operating system runs: a handle to one of them suspends it. *)
Alive == {t \in Threads : place[t] \notin {"none", "new", "done"}}

RegistryInit ==
    /\ inited = FALSE /\ listed = <<>> /\ room = 0 /\ lock = Unlocked /\ hooks = FALSE
    /\ place = [t \in Threads |-> "none"] /\ told = [t \in Threads |-> Untold]
    /\ call = [c \in Callers |-> Idle] /\ budget \in Plans

-----------------------------------------------------------------------------
(* thread_init: sets both callbacks under the lock, first making the list.   *)
SetHooks(c) ==
    /\ call[c].pc = "idle" /\ lock = Unlocked /\ budget.hooks > 0
    /\ budget' = [budget EXCEPT !.hooks = @ - 1] /\ hooks' = TRUE /\ inited' = TRUE
    /\ room' = IF inited THEN room ELSE InitMax
    /\ UNCHANGED <<listed, lock, place, told, call>>

(* thread_create allocates the record; Thr stays unset until the thread starts. *)
Create(c, t, job) ==
    /\ call[c].pc = "idle" /\ call[c].thr = NoThread
    /\ place[t] = "none" /\ (job = "work" => budget.creates > 0)
    /\ place' = [place EXCEPT ![t] = "new"]
    /\ told' = [told EXCEPT ![t] = [Untold EXCEPT !.job = job]]
    /\ call' = [call EXCEPT ![c] = [pc |-> "once", thr |-> t, job |-> job]]
    /\ budget' = [budget EXCEPT !.creates = IF job = "work" THEN @ - 1 ELSE @]
    /\ UNCHANGED <<inited, listed, room, lock, hooks>>

InitOnce(c) ==
    /\ call[c].pc = "once" /\ lock = Unlocked
    /\ inited' = TRUE /\ room' = IF inited THEN room ELSE InitMax
    /\ call' = [call EXCEPT ![c].pc = "list"]
    /\ UNCHANGED <<listed, lock, hooks, place, told, budget>>

(* Bug seeded in List: the Thread is listed once its thread has started. *)
MListLate(c) ==
    /\ call[c].pc = "list" /\ call' = [call EXCEPT ![c].pc = "start"]
    /\ UNCHANGED <<inited, listed, room, lock, hooks, place, told, budget>>

(* add_list: the array doubles one element before it is full. *)
List(c) ==
    /\ call[c].pc = "list" /\ lock = Unlocked
    /\ room' = IF Len(listed) + 1 >= room THEN 2 * room ELSE room
    /\ listed' = Append(listed, call[c].thr)
    /\ call' = [call EXCEPT ![c].pc = "start"]
    /\ UNCHANGED <<inited, lock, hooks, place, told, budget>>

(* CreateThread or pthread_create: the new thread may run at once. *)
Start(c) ==
    /\ call[c].pc = "start"
    /\ \/ /\ place' = [place EXCEPT ![call[c].thr] = "start"]
          /\ call' = [call EXCEPT ![c].pc = "created"]
       \/ call' = [call EXCEPT ![c].pc = "failed"] /\ UNCHANGED place
    /\ UNCHANGED <<inited, listed, room, lock, hooks, told, budget>>

(* remove_list *)
Without(t) == SelectSeq(listed, LAMBDA x : x # t)

(* A thread that did not start is taken off the list and freed. *)
Abandon(c) ==
    /\ call[c].pc = "failed" /\ lock = Unlocked
    /\ listed' = Without(call[c].thr)
    /\ place' = [place EXCEPT ![call[c].thr] = "none"]
    /\ told' = [told EXCEPT ![call[c].thr] = Untold]
    /\ call' = [call EXCEPT ![c] = [@ EXCEPT !.pc = "null", !.thr = NoThread]]
    /\ UNCHANGED <<inited, room, lock, hooks, budget>>

Return(c) ==
    /\ call[c].pc \in {"created", "null", "joined"} /\ call[c].job = "work"
    /\ call' = [call EXCEPT ![c].pc = "idle"]
    /\ UNCHANGED <<inited, listed, room, lock, hooks, place, told, budget>>

AskJoin(c) ==
    /\ call[c].pc = "idle" /\ call[c].thr # NoThread
    /\ call' = [call EXCEPT ![c].pc = "join"]
    /\ UNCHANGED <<inited, listed, room, lock, hooks, place, told, budget>>

(* thread_join: waits for the thread's end, closes the handle and frees the record. *)
Join(c) ==
    /\ call[c].pc = "join" /\ place[call[c].thr] = "done"
    /\ place' = [place EXCEPT ![call[c].thr] = "none"]
    /\ told' = [told EXCEPT ![call[c].thr] = Untold]
    /\ call' = [call EXCEPT ![c] = [@ EXCEPT !.pc = "joined", !.thr = NoThread]]
    /\ UNCHANGED <<inited, listed, room, lock, hooks, budget>>

-----------------------------------------------------------------------------
(* tfun takes the lock to read both callbacks. *)
Begin(t) ==
    /\ place[t] = "start" /\ lock = Unlocked
    /\ lock' = t /\ place' = [place EXCEPT ![t] = "reads"]
    /\ told' = [told EXCEPT ![t].hook = hooks]
    /\ UNCHANGED <<inited, listed, room, hooks, call, budget>>

Notice(t) ==
    /\ place[t] = "reads"
    /\ lock' = Unlocked /\ place' = [place EXCEPT ![t] = "body"]
    /\ told' = [told EXCEPT ![t].begun = told[t].hook]
    /\ UNCHANGED <<inited, listed, room, hooks, call, budget>>

(* Bug seeded in Ended: on_ended is read when the function has returned. *)
MEndedReadsAgain(t) ==
    /\ place[t] = "returned" /\ place' = [place EXCEPT ![t] = "unlist"]
    /\ told' = [told EXCEPT ![t].ended = hooks]
    /\ UNCHANGED <<inited, listed, room, lock, hooks, call, budget>>

(* The function has returned: on_ended, as read at the start. *)
Ended(t) ==
    /\ place[t] = "returned" /\ place' = [place EXCEPT ![t] = "unlist"]
    /\ told' = [told EXCEPT ![t].ended = told[t].hook]
    /\ UNCHANGED <<inited, listed, room, lock, hooks, call, budget>>

Unlist(t) ==
    /\ place[t] = "unlist" /\ lock = Unlocked
    /\ lock' = t /\ listed' = Without(t)
    /\ place' = [place EXCEPT ![t] = "unlock"]
    /\ UNCHANGED <<inited, room, hooks, told, call, budget>>

Exit(t) ==
    /\ place[t] = "unlock"
    /\ lock' = Unlocked /\ place' = [place EXCEPT ![t] = "done"]
    /\ UNCHANGED <<inited, listed, room, hooks, told, call, budget>>

(* The wrapper's steps around the function of t. *)
Wrapper(t) == Begin(t) \/ Notice(t) \/ Ended(t) \/ Unlist(t) \/ Exit(t)

(* What a caller does inside thread_create and thread_join. *)
InCall(c) == InitOnce(c) \/ List(c) \/ Start(c) \/ Abandon(c) \/ Return(c) \/ Join(c)

-----------------------------------------------------------------------------
(* What thread_enum shows is in memory, and a thread inside its function is   *)
(* shown: a thread is listed before it can run and freed after it left.       *)
ListIsTheThreads ==
    /\ \A i \in 1..Len(listed) : place[listed[i]] # "none"
    /\ \A t \in Threads : place[t] \in {"reads", "body", "heap", "calm", "returned"}
                            => \E i \in 1..Len(listed) : listed[i] = t
    /\ Len(listed) > 0 => Len(listed) < room

(* A thread whose end was announced is one whose start was, and the other way *)
(* round, whenever thread_init is called.                                     *)
NoticesPaired == \A t \in Threads :
    place[t] \in {"unlist", "unlock", "done"} => told[t].begun = told[t].ended
=============================================================================
