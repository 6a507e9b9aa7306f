-------------------------- MODULE InstanceRegistry --------------------------
(***************************************************************************)
(* xplat_instance.c and platform_init: each copy of the library in a       *)
(* process finds out whether it is the first.  On Windows a named mapping  *)
(* holds the record and a named mutex orders its creation and reading; on  *)
(* POSIX the one who gets the flock of a file named after the process is   *)
(* the first, and the others read what it wrote.                           *)
(***************************************************************************)
EXTENDS Naturals, FiniteSets

CONSTANTS
    Copies,      \* copies of the library in the process
    Inodes,      \* files the path of the POSIX record can come to name
    None,
    Scenarios    \* [os, serial, releases, leftover, fatal]: the platform, whether the
                 \* loader brings up one copy at a time, how often a copy is released,
                 \* whether a file of an earlier process is there, and g_fatal

VARIABLES
    scene,       \* the scenario; its releases are counted down
    at,          \* where each copy stands
    registered,  \* g_registered
    duplicate,   \* g_duplicate, with g_first.Identity
    blind,       \* copies that could not open the record
    mutex, maps, record,        \* Windows: the mutex's holder, open mappings, the record
    name, holder, content, fd   \* POSIX: the path's file; per file its flock and record;
                                \* per copy the open file

vars == <<scene, at, registered, duplicate, blind, mutex, maps, record, name, holder,
          content, fd>>
winVars == <<mutex, maps, record>>
posixVars == <<name, holder, content, fd>>

Init ==
    /\ scene \in Scenarios
    /\ at = [c \in Copies |-> "out"]
    /\ registered = {} /\ duplicate = [c \in Copies |-> None] /\ blind = {}
    /\ mutex = None /\ maps = {} /\ record = None
    /\ name = IF scene.leftover THEN CHOOSE i \in Inodes : TRUE ELSE None
    /\ holder = [i \in Inodes |-> None]
    /\ content = [i \in Inodes |-> IF i = name THEN "old" ELSE "empty"]
    /\ fd = [c \in Copies |-> None]

Running == \A c \in Copies : at[c] # "aborted"
Between(c) == at[c] \notin {"out", "up", "inert", "released"}

(* The loader's lock, when it is what brings the copies up and down. *)
Alone == scene.serial => ~ \E c \in Copies : Between(c)

(* platform_init or memop_init of a copy: the guard of xplat_instance_register. *)
Register(c) ==
    /\ Running /\ at[c] \in {"out", "released"} /\ c \notin registered
    /\ Alone
    /\ registered' = registered \cup {c}
    /\ at' = [at EXCEPT ![c] = IF scene.os = "windows" THEN "lock" ELSE "open"]
    /\ UNCHANGED <<scene, duplicate, blind, winVars, posixVars>>

Step(c, from, to) == Running /\ at[c] = from /\ at' = [at EXCEPT ![c] = to]

-----------------------------------------------------------------------------
(* Bug seeded in WinLock: the mutex is not waited for. *)
MWinLockFree(c) ==
    /\ Step(c, "lock", "map") /\ UNCHANGED mutex
    /\ UNCHANGED <<scene, registered, duplicate, blind, maps, record, posixVars>>

WinLock(c) ==
    /\ Step(c, "lock", "map") /\ mutex = None /\ mutex' = c
    /\ UNCHANGED <<scene, registered, duplicate, blind, maps, record, posixVars>>

(* CreateFileMapping: a new record, one that existed, or none at all. *)
WinMap(c) ==
    /\ \/ Step(c, "map", IF maps = {} THEN "fill" ELSE "compare")
          /\ maps' = maps \cup {c} /\ UNCHANGED blind
       \/ Step(c, "map", "unlock") /\ blind' = blind \cup {c} /\ UNCHANGED maps
    /\ UNCHANGED <<scene, registered, duplicate, mutex, record, posixVars>>

WinFill(c) ==
    /\ Step(c, "fill", "unlock") /\ record' = c
    /\ UNCHANGED <<scene, registered, duplicate, blind, mutex, maps, posixVars>>

(* A record never filled holds identity 0, which is nobody's. *)
WinCompare(c) ==
    /\ Step(c, "compare", "unlock")
    /\ duplicate' = IF record = c THEN duplicate
                    ELSE [duplicate EXCEPT ![c] = IF record = None THEN "nobody" ELSE record]
    /\ UNCHANGED <<scene, registered, blind, winVars, posixVars>>

WinUnlock(c) ==
    /\ Step(c, "unlock", "decide") /\ mutex' = IF mutex = c THEN None ELSE mutex
    /\ UNCHANGED <<scene, registered, duplicate, blind, maps, record, posixVars>>

-----------------------------------------------------------------------------
(* open with O_CREAT: the file under the name, or a new one. *)
Open(c) ==
    /\ \/ /\ Step(c, "open", "flock") /\ UNCHANGED blind
          /\ \/ name # None /\ name' = name
             \/ /\ name = None
                /\ name' \in {i \in Inodes : content[i] = "empty" /\ holder[i] = None
                                               /\ \A d \in Copies : fd[d] # i}
          /\ fd' = [fd EXCEPT ![c] = name']
       \/ Step(c, "open", "decide") /\ blind' = blind \cup {c} /\ UNCHANGED <<name, fd>>
    /\ UNCHANGED <<scene, registered, duplicate, winVars, holder, content>>

(* Bug seeded in Flock: a record in the file counts, not the lock. *)
MFlockByRecord(c) ==
    /\ at[c] = "flock"
    /\ IF content[fd[c]] = "empty"
       THEN Step(c, "flock", "truncate") /\ holder' = [holder EXCEPT ![fd[c]] = c]
       ELSE Step(c, "flock", "read") /\ UNCHANGED holder
    /\ UNCHANGED <<scene, registered, duplicate, blind, winVars, name, content, fd>>

(* flock does not wait: who gets it is the first. *)
Flock(c) ==
    /\ at[c] = "flock"
    /\ \/ /\ holder[fd[c]] = None
          /\ Step(c, "flock", "truncate") /\ holder' = [holder EXCEPT ![fd[c]] = c]
       \/ /\ holder[fd[c]] # None
          /\ Step(c, "flock", "read") /\ UNCHANGED holder
    /\ UNCHANGED <<scene, registered, duplicate, blind, winVars, name, content, fd>>

Truncate(c) ==
    /\ Step(c, "truncate", "write") /\ content' = [content EXCEPT ![fd[c]] = "empty"]
    /\ UNCHANGED <<scene, registered, duplicate, blind, winVars, name, holder, fd>>

Write(c) ==
    /\ Step(c, "write", "decide") /\ content' = [content EXCEPT ![fd[c]] = c]
    /\ UNCHANGED <<scene, registered, duplicate, blind, winVars, name, holder, fd>>

(* The other copy's record, if it is there yet; then the file is closed. *)
Read(c) ==
    /\ Step(c, "read", "decide") /\ fd' = [fd EXCEPT ![c] = None]
    /\ duplicate' = IF content[fd[c]] \in {c, "empty"} THEN duplicate
                    ELSE [duplicate EXCEPT ![c] = content[fd[c]]]
    /\ UNCHANGED <<scene, registered, blind, winVars, name, holder, content>>

-----------------------------------------------------------------------------
(* A duplicate aborts the process or makes platform_init stop there. *)
Decide(c) ==
    /\ Step(c, "decide", CASE duplicate[c] = None -> "up"
                           [] duplicate[c] # None /\ scene.fatal -> "aborted"
                           [] OTHER -> "inert")
    /\ UNCHANGED <<scene, registered, duplicate, blind, winVars, posixVars>>

(* xplat_instance_release.  The record goes with its last mapping. *)
WinRelease(c) ==
    /\ scene.os = "windows" /\ scene.releases > 0 /\ Alone
    /\ \E from \in {"up", "inert"} : Step(c, from, "released")
    /\ scene' = [scene EXCEPT !.releases = @ - 1]
    /\ maps' = maps \ {c} /\ record' = IF maps' = {} THEN None ELSE record
    /\ registered' = registered \ {c}
    /\ UNCHANGED <<duplicate, blind, mutex, posixVars>>

Unlock(c) ==
    /\ scene.os = "posix" /\ scene.releases > 0 /\ Alone
    /\ \E from \in {"up", "inert"} : Step(c, from, IF fd[c] = None THEN "forget" ELSE "unlink")
    /\ scene' = [scene EXCEPT !.releases = @ - 1]
    /\ holder' = [i \in Inodes |-> IF i = fd[c] THEN None ELSE holder[i]]
    /\ fd' = [fd EXCEPT ![c] = None]
    /\ UNCHANGED <<registered, duplicate, blind, winVars, name, content>>

(* The name goes last, whatever file it names by then. *)
Unlink(c) ==
    /\ Step(c, "unlink", "forget") /\ name' = None
    /\ content' = [i \in Inodes |-> IF i = name /\ holder[i] = None THEN "empty" ELSE content[i]]
    /\ UNCHANGED <<scene, registered, duplicate, blind, winVars, holder, fd>>

Forget(c) ==
    /\ Step(c, "forget", "released") /\ registered' = registered \ {c}
    /\ UNCHANGED <<scene, duplicate, blind, winVars, posixVars>>

CopyStep(c) ==
    \/ Register(c) \/ WinLock(c) \/ WinMap(c) \/ WinFill(c) \/ WinCompare(c) \/ WinUnlock(c)
    \/ Open(c) \/ Flock(c) \/ Truncate(c) \/ Write(c) \/ Read(c) \/ Decide(c)
    \/ WinRelease(c) \/ Unlock(c) \/ Unlink(c) \/ Forget(c)

Next == \E c \in Copies : CopyStep(c)

Spec == Init /\ [][Next]_vars

-----------------------------------------------------------------------------
(* Of the copies that could look, one at most takes itself for the only one.  *)
(* One that takes itself for a duplicate knows another that was there before   *)
(* it, whatever file is left from an earlier process (xplat_instance.c:16-18,  *)
(* :121).                                                                      *)
OneInstance ==
    /\ Cardinality({c \in registered \ blind : at[c] = "up"}) <= 1
    /\ \A c \in Copies : duplicate[c] # None =>
           duplicate[c] \in Copies \ {c} /\ at[duplicate[c]] # "out"
=============================================================================
