------------------------------- MODULE Logger -------------------------------
(***************************************************************************)
(* The log files of the gateway (cmd/loggers): a table of loggers by path, *)
(* behind one mutex; a file is opened, and rotated when it has grown too   *)
(* large, when its logger is created.  When that fails the logger writes   *)
(* to a file in the directory for temporary files, or to stderr, and is    *)
(* found under the path that was asked for.                                *)
(*                                                                         *)
(* Every log line of the capture loop of every session calls Get, then     *)
(* Info of the logger it got.                                              *)
(***************************************************************************)
EXTENDS Integers

CONSTANTS
  Callers,     \* goroutines that log
  Paths,       \* paths of log files
  Fallback,    \* the one in the directory for temporary files
  Stderr,      \* no path
  MaxSize,     \* maxLogSize, in lines
  MaxLoggers,  \* bound: loggers created by one run of the program
  SizeBound    \* bound: lines of a file

\* What the proofs assume of the constants.
LoggerConstants ==
  /\ Fallback \in Paths /\ Stderr \notin Paths
  /\ MaxSize \in Nat \ {0} /\ MaxLoggers \in Nat /\ SizeBound \in Nat

Nil     == 0
Loggers == 1..MaxLoggers

VARIABLES
  created,        \* how many loggers there are
  file,           \* the file of every logger
  loggers,        \* the table: a logger or Nil for every path
  globalLogPath,  \* {} for none
  globalLogger,
  lost,           \* paths that cannot be opened for now
  size,           \* lines in every file
  got             \* the logger a caller got and has not written to

table == <<created, file, loggers, globalLogPath, globalLogger>>
vars  == <<table, lost, size, got>>

Init ==
  /\ created = 0 /\ file = [l \in Loggers |-> Stderr]
  /\ loggers = [p \in Paths |-> Nil]
  /\ globalLogPath = {} /\ globalLogger = Nil
  /\ got = [c \in Callers |-> Nil]
  /\ lost \in SUBSET Paths /\ size = [p \in Paths |-> 0]

SetGlobalLogPath(p) ==
  /\ globalLogPath' = {p} /\ globalLogger' = loggers[p]
  /\ UNCHANGED <<created, file, loggers, lost, size, got>>

\* What Get does with its logger l for a path.
Hand(c, path, l) ==
  /\ got' = [got EXCEPT ![c] = l]
  /\ globalLogger' = IF path \in globalLogPath THEN l ELSE globalLogger

\* The file newLogger opens: Get's path, else the fallback.
Opened(path) ==
  IF path \notin lost THEN path ELSE IF Fallback \notin lost THEN Fallback ELSE Stderr

\* newLogger, with rotateIfNeeded unless it is for the fallback.
Create(c, path) ==
  /\ created < MaxLoggers /\ created' = created + 1
  /\ file' = [file EXCEPT ![created'] = Opened(path)]
  /\ loggers' = [loggers EXCEPT ![path] = created']
  /\ size' = IF path \notin lost /\ size[path] >= MaxSize
             THEN [size EXCEPT ![path] = 0] ELSE size
  /\ Hand(c, path, created')

Effective(path) ==
  IF globalLogPath = {} THEN path ELSE CHOOSE p \in globalLogPath : TRUE

Get(c, path) ==
  /\ got[c] = Nil
  /\ IF globalLogger # Nil
     THEN got' = [got EXCEPT ![c] = globalLogger]
            /\ UNCHANGED <<created, file, loggers, globalLogger, size>>
     ELSE IF loggers[Effective(path)] # Nil
     THEN Hand(c, Effective(path), loggers[Effective(path)])
            /\ UNCHANGED <<created, file, loggers, size>>
     ELSE Create(c, Effective(path))
  /\ UNCHANGED <<globalLogPath, lost>>

Info(c) ==
  /\ got[c] # Nil /\ got' = [got EXCEPT ![c] = Nil]
  /\ IF file[got[c]] = Stderr THEN UNCHANGED size
     ELSE /\ size[file[got[c]]] < SizeBound
          /\ size' = [size EXCEPT ![file[got[c]]] = @ + 1]
  /\ UNCHANGED <<table, lost>>

\* A directory or a permission changes.
Change(p) ==
  /\ lost' = IF p \in lost THEN lost \ {p} ELSE lost \cup {p}
  /\ UNCHANGED <<table, size, got>>

\* The gateway ends and is started again.
Restart ==
  /\ created # 0
  /\ created' = 0 /\ file' = [l \in Loggers |-> Stderr]
  /\ loggers' = [p \in Paths |-> Nil] /\ globalLogPath' = {} /\ globalLogger' = Nil
  /\ got' = [c \in Callers |-> Nil]
  /\ UNCHANGED <<lost, size>>

Next == \/ Restart
        \/ \E p \in Paths : \/ SetGlobalLogPath(p) \/ Change(p)
                            \/ \E c \in Callers : Get(c, p)
        \/ \E c \in Callers : Info(c)

Spec == Init /\ [][Next]_vars

-----------------------------------------------------------------------------
TypeOK ==
  /\ created \in 0..MaxLoggers /\ file \in [Loggers -> Paths \cup {Stderr}]
  /\ loggers \in [Paths -> 0..created] /\ got \in [Callers -> 0..created]
  /\ globalLogPath \in SUBSET Paths /\ globalLogger \in 0..created
  /\ lost \subseteq Paths /\ size \in [Paths -> 0..SizeBound]

\* The global logger is the one the table has for the global path, so that which
\* of the two Get looks at makes no difference.
GlobalIsInTable ==
  globalLogger # Nil => \A p \in globalLogPath : globalLogger = loggers[p]

\* No two loggers of a run write to the same file, each behind its own mutex,
\* the file of failures and stderr excepted.
OwnFile ==
  \A l, m \in 1..created :
    file[l] = file[m] /\ file[l] \notin {Fallback, Stderr} => l = m

=============================================================================
