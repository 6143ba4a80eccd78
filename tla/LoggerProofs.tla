---------------------------- MODULE LoggerProofs ----------------------------
(***************************************************************************)
(* The table of loggers and the global logger agree, and no two loggers    *)
(* write to one file, for every number of callers, paths and loggers and   *)
(* whatever fails to open.                                                 *)
(***************************************************************************)
EXTENDS Logger, TLAPS

\* There is one global path at most.
OneGlobal == \A p, q \in globalLogPath : p = q

\* A logger is found under the path of its file, unless that is where failures go.
Found == \A l \in 1..created :
           file[l] \notin {Fallback, Stderr} => loggers[file[l]] = l

IInv == LoggerConstants /\ TypeOK /\ OneGlobal /\ GlobalIsInTable /\ Found

-----------------------------------------------------------------------------
LEMMA InitIInv == LoggerConstants /\ Init => IInv
<1> SUFFICES ASSUME LoggerConstants, Init PROVE IInv OBVIOUS
<1>1. 1..0 = {} /\ 0 \in 0..MaxLoggers /\ 0 \in 0..SizeBound BY DEF LoggerConstants
<1> QED BY <1>1 DEF Init, IInv, TypeOK, OneGlobal, GlobalIsInTable, Found, Nil

\* Get looks at a path of the program's.
LEMMA EffectiveIsPath ==
  ASSUME TypeOK, OneGlobal, NEW path \in Paths
  PROVE  /\ Effective(path) \in Paths
         /\ \A p \in globalLogPath : p = Effective(path)
BY DEF TypeOK, OneGlobal, Effective

LEMMA OpenedIsFile ==
  ASSUME LoggerConstants, NEW path \in Paths
  PROVE  /\ Opened(path) \in Paths \cup {Stderr}
         /\ Opened(path) \notin {Fallback, Stderr} => Opened(path) = path
BY DEF LoggerConstants, Opened

\* A logger that is created for a path that has none: nobody writes to its file.
LEMMA CreateKeeps ==
  ASSUME IInv, NEW c \in Callers, NEW path \in Paths, Create(c, path),
         loggers[path] = Nil, globalLogger = Nil,
         \A p \in globalLogPath : p = path,
         UNCHANGED <<globalLogPath, lost>>
  PROVE  IInv'
<1> USE DEF IInv, TypeOK
<1>1. /\ created' = created + 1 /\ created' \in Loggers /\ created' \in 0..MaxLoggers
      /\ 0..created \subseteq 0..created' /\ created' \in 0..created'
      /\ 1..created' = 1..created \cup {created'} /\ created' \notin 1..created
      /\ 1..created \subseteq Loggers
  BY DEF Create, Loggers, LoggerConstants
<1>2. /\ file' \in [Loggers -> Paths \cup {Stderr}] /\ file'[created'] = Opened(path)
      /\ \A l \in 1..created : file'[l] = file[l]
  BY <1>1, OpenedIsFile DEF Create
<1>3. /\ loggers' \in [Paths -> 0..created'] /\ loggers'[path] = created'
      /\ \A p \in Paths : p # path => loggers'[p] = loggers[p]
  BY <1>1 DEF Create
<1>4. /\ got' \in [Callers -> 0..created'] /\ globalLogger' \in 0..created'
      /\ \A p \in globalLogPath : globalLogger' = created'
  BY <1>1 DEF Create, Hand
<1>5. size' \in [Paths -> 0..SizeBound]
  <2>1. 0 \in 0..SizeBound BY DEF LoggerConstants
  <2> QED BY <2>1 DEF Create
<1>6. TypeOK' BY <1>1, <1>2, <1>3, <1>4, <1>5
<1>7. GlobalIsInTable' BY <1>3, <1>4 DEF GlobalIsInTable
<1>8. Found'
  <2> SUFFICES ASSUME NEW l \in 1..created', file'[l] \notin {Fallback, Stderr}
               PROVE  loggers'[file'[l]] = l
    BY DEF Found
  <2>1. CASE l = created' BY <2>1, <1>2, <1>3, OpenedIsFile
  <2>2. CASE l \in 1..created
    <3>1. loggers[file[l]] = l /\ file[l] \in Paths BY <2>2, <1>1, <1>2 DEF Found
    <3>2. l # 0 BY <2>2
    <3>3. file[l] # path BY <3>1, <3>2 DEF Nil
    <3> QED BY <3>1, <3>3, <2>2, <1>2, <1>3
  <2> QED BY <2>1, <2>2, <1>1
<1> QED BY <1>6, <1>7, <1>8 DEF OneGlobal

LEMMA GetKeeps ==
  ASSUME IInv, NEW c \in Callers, NEW path \in Paths, Get(c, path)
  PROVE  IInv'
<1> USE DEF IInv, TypeOK
<1> DEFINE e == Effective(path)
<1>1. e \in Paths /\ \A p \in globalLogPath : p = e BY EffectiveIsPath
<1>2. CASE globalLogger # Nil
  BY <1>2 DEF Get, OneGlobal, GlobalIsInTable, Found
<1>3. CASE globalLogger = Nil /\ loggers[e] # Nil
  <2>1. /\ UNCHANGED <<created, file, loggers, size, globalLogPath, lost>>
        /\ Hand(c, e, loggers[e])
    BY <1>3 DEF Get
  <2>2. loggers[e] \in 0..created BY <1>1
  <2>3. TypeOK' BY <2>1, <2>2 DEF Hand
  <2>4. GlobalIsInTable' BY <2>1, <1>1, <1>3 DEF Hand, GlobalIsInTable
  <2> QED BY <2>1, <2>3, <2>4 DEF OneGlobal, Found
<1>4. CASE globalLogger = Nil /\ loggers[e] = Nil
  <2>1. Create(c, e) /\ UNCHANGED <<globalLogPath, lost>> BY <1>4 DEF Get
  <2> QED BY <1>1, <1>4, <2>1, CreateKeeps
<1> QED BY <1>2, <1>3, <1>4

LEMMA StepIInv == IInv /\ [Next]_vars => IInv'
<1> SUFFICES ASSUME IInv, [Next]_vars PROVE IInv' OBVIOUS
<1> USE DEF IInv
<1>1. CASE Restart
  <2>1. 1..0 = {} /\ 0 \in 0..MaxLoggers /\ 0 \in 0..0 BY DEF LoggerConstants
  <2> QED BY <1>1, <2>1 DEF Restart, TypeOK, OneGlobal, GlobalIsInTable, Found, Nil
<1>2. ASSUME NEW p \in Paths, SetGlobalLogPath(p) PROVE IInv'
  BY <1>2 DEF SetGlobalLogPath, TypeOK, OneGlobal, GlobalIsInTable, Found
<1>3. ASSUME NEW p \in Paths, Change(p) PROVE IInv'
  BY <1>3 DEF Change, table, TypeOK, OneGlobal, GlobalIsInTable, Found
<1>4. ASSUME NEW p \in Paths, NEW c \in Callers, Get(c, p) PROVE IInv'
  BY <1>4, GetKeeps
<1>5. ASSUME NEW c \in Callers, Info(c) PROVE IInv'
  <2>1. UNCHANGED <<created, file, loggers, globalLogPath, globalLogger, lost>>
    BY <1>5 DEF Info, table
  <2>2. got' \in [Callers -> 0..created'] BY <1>5, <2>1 DEF Info, TypeOK, Nil
  <2>3. size' \in [Paths -> 0..SizeBound]
    <3>1. CASE file[got[c]] = Stderr BY <1>5, <3>1 DEF Info, TypeOK
    <3>2. CASE file[got[c]] # Stderr
      <4>1. /\ size[file[got[c]]] < SizeBound
            /\ size' = [size EXCEPT ![file[got[c]]] = @ + 1]
        BY <1>5, <3>2 DEF Info
      <4>2. \A n \in 0..SizeBound : n < SizeBound => n + 1 \in 0..SizeBound
        BY DEF LoggerConstants
      <4> QED BY <4>1, <4>2 DEF TypeOK
    <3> QED BY <3>1, <3>2
  <2> QED BY <2>1, <2>2, <2>3 DEF TypeOK, OneGlobal, GlobalIsInTable, Found
<1>6. CASE UNCHANGED vars
  BY <1>6 DEF vars, table, TypeOK, OneGlobal, GlobalIsInTable, Found
<1> QED BY <1>1, <1>2, <1>3, <1>4, <1>5, <1>6 DEF Next

\* The inductive invariant: types, one global path, and every logger found under
\* the path of its file.
THEOREM InvariantHolds == ASSUME LoggerConstants PROVE Spec => []IInv
BY InitIInv, StepIInv, PTL DEF Spec

-----------------------------------------------------------------------------
\* Loggers, sizes and paths stay what they are.
THEOREM TypeCorrect == ASSUME LoggerConstants PROVE Spec => []TypeOK
<1>1. IInv => TypeOK BY DEF IInv
<1> QED BY <1>1, InvariantHolds, PTL

\* Which of global logger and table Get looks at makes no difference.
THEOREM GlobalInTable == ASSUME LoggerConstants PROVE Spec => []GlobalIsInTable
<1>1. IInv => GlobalIsInTable BY DEF IInv
<1> QED BY <1>1, InvariantHolds, PTL

\* Two loggers of one run never write to the same file.
THEOREM FilesAreOwn == ASSUME LoggerConstants PROVE Spec => []OwnFile
<1>1. IInv => OwnFile BY DEF IInv, Found, OwnFile
<1> QED BY <1>1, InvariantHolds, PTL
=============================================================================
