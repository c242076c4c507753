--------------------------- MODULE PlatformProofs ---------------------------
(***************************************************************************)
(* What the servers keep around their agents, for any number of visitors,  *)
(* callers, browsers, turns and of what they send.  Each component is a    *)
(* module of its own, and its section here needs no other.                 *)
(***************************************************************************)
EXTENDS TenantFiles, Visits, ModelCalls, SkillRegistry, Dialogue, SignIn,
        RunEvents, FiniteSetTheorems, SequenceTheorems, WellFoundedInduction,
        TLAPS

(* Every non-empty set of natural numbers has a smallest member, and one   *)
(* up to a bound a greatest one.                                           *)
LEMMA LeastMember ==
  ASSUME NEW T, T \subseteq Nat, T # {}
  PROVE  \E x \in T : \A y \in T : x <= y
<1> DEFINE Less == OpToRel(<, Nat)
<1>1. \A i, j \in Nat : <<i, j>> \in Less <=> i < j
  BY DEF OpToRel
<1>2. IsWellFoundedOn(Less, Nat)
  BY NatLessThanWellFounded
<1> HIDE DEF Less
<1>3. PICK x \in T : \A y \in T : <<y, x>> \notin Less
  BY <1>2, WFMin
<1>4. ASSUME NEW y \in T PROVE x <= y
  <2>1. x \in Nat /\ y \in Nat
    OBVIOUS
  <2>2. ~(y < x)
    BY <1>1, <1>3, <2>1
  <2>3. QED
    BY <2>1, <2>2
<1>5. QED
  BY <1>4

(* A set of numbers up to n that is not empty has a greatest one. *)
LEMMA GreatestMember ==
  ASSUME NEW n \in Nat, NEW S, S \subseteq 1 .. n, S # {}
  PROVE  \E m \in S : \A j \in S : m >= j
<1> DEFINE T == {n - i : i \in S}
<1>1. T \subseteq Nat /\ T # {}
  <2>1. \A i \in S : i \in Nat /\ n - i \in Nat
    OBVIOUS
  <2> QED
    BY <2>1
<1>2. PICK x \in T : \A y \in T : x <= y
  BY <1>1, LeastMember
<1>3. PICK m \in S : x = n - m
  BY <1>2
<1>4. ASSUME NEW j \in S PROVE m >= j
  <2>1. x <= n - j
    BY <1>2
  <2>2. j \in Nat /\ m \in Nat
    BY <1>1
  <2> QED
    BY <1>3, <2>1, <2>2
<1> QED
  BY <1>4

---------------------------------------------------------------------------
(* TenantFiles.  While a file is not muddled it has one writer at most,    *)
(* which has it for itself from its request to its answer: at each of its  *)
(* steps the file is what the last answers promised, changed as far as the *)
(* writer has come.                                                        *)
Updates == {"enable", "disable", "configure"}
PointsOf(op) ==
  CASE op = "none"                        -> {"idle"}
    [] op = "create"                      -> {"check", "make", "key", "reply", "fail"}
    [] op = "rotate"                      -> {"key", "reply", "fail"}
    [] op \in {"put", "drop"}             -> {"secrets", "write"}
    [] op \in {"set_model", "clear_model"} -> {"write"}
    [] op = "install"                     -> {"clear", "copy", "record", "fail"}
    [] op \in Updates                     -> {"list", "each", "save", "fail"}
    [] op = "uninstall"                   -> {"list", "each", "fail"}
    [] op = "turn" -> {"active", "load", "import", "required", "tools", "profile", "built"}
    [] op = "role"                        -> {"role", "profile", "built"}

Release  == [state : {"none", "bare", "whole"}, on : BOOLEAN, config : Nat]
Installations == [Releases -> Release]
RowsRead == {r \in Releases \X Release : r[2].state = "whole"}
Ops == {"none", "create", "rotate", "put", "drop", "set_model", "clear_model", "install",
        "uninstall", "turn", "role"} \cup Updates

IsRequest(q) ==
  /\ q = [op |-> q.op, pc |-> q.pc, arg |-> q.arg, rows |-> q.rows]
  /\ q.op \in Ops /\ q.pc \in PointsOf(q.op)
  /\ q.op \in {"create", "rotate"} => q.arg \in Nat \ {0}
  /\ q.op = "install" => q.arg \in Releases
  /\ q.op = "configure" => q.arg \in Nat
  /\ q.pc \in {"each", "save"} => q.rows \subseteq RowsRead
  /\ q.pc = "save" => q.rows # {}

FileTypes ==
  /\ handler = [h \in Requests |-> handler[h]] /\ \A h \in Requests : IsRequest(handler[h])
  /\ tenant \in Nat /\ installed \in Installations /\ asked \in Nat
  /\ promised = [f \in Files |-> promised[f]] /\ promised.installed \in Installations

File(h) == FileOf(handler[h].op)

(* What the releases are while those of rows are still to be changed.      *)
Changes(q, i) == IF q.op = "uninstall" THEN Missing ELSE Changed(q.op, q.arg, i)
Partly(q, was) ==
  [v \in Releases |-> IF was[v].state # "whole" \/ v \in {r[1] : r \in q.rows}
                      THEN was[v] ELSE Changes(q, was[v])]
Lowest(rows) == CHOOSE r \in rows : \A y \in rows : r[1] <= y[1]

(* The files are now what they should be with the last answers' was and    *)
(* what the request q, which has one of them for itself, has done since.   *)
InProgress(q, now, was) ==
  /\ q.op # "create" \/ q.pc \in {"key", "reply"} => now.tenant # Absent
  /\ q.pc # "fail"
  /\ q.op = "create" /\ q.pc \in {"check", "make"} => now.tenant = was.tenant
  /\ q.op \in {"create", "rotate"} /\ q.pc = "reply" => now.tenant = q.arg
  /\ q.op \in {"put", "drop"} => now.secret = was.secret /\ (q.pc = "write" => q.rows = now.secret)
  /\ q.op \in {"set_model", "clear_model"} => now.model = was.model
  /\ q.pc \in {"clear", "list"} => now.installed = was.installed
  /\ q.pc = "copy" => now.installed = [was.installed EXCEPT ![q.arg] = Missing]
  /\ q.pc = "record" => now.installed = [was.installed EXCEPT ![q.arg] = Bare]
  /\ q.pc \in {"each", "save"} => \A r \in q.rows : r[2] = was.installed[r[1]]
  /\ q.pc = "each" => now.installed = Partly(q, was.installed)
  /\ q.pc = "save" => now.installed = [Partly(q, was.installed) EXCEPT ![Lowest(q.rows)[1]] = Bare]

OneWriterEach ==
  \A g, h \in Requests : File(g) = File(h) /\ File(g) \in Files \ muddled => g = h
WritersProgress ==
  \A h \in Requests : File(h) \in Files \ muddled => InProgress(handler[h], OnDisk, promised)

FileInv == FileTypes /\ OneWriterEach /\ WritersProgress /\ QuietWritesHold

(* The point a request is at tells which of them it is.                    *)
LEMMA PointTells ==
  ASSUME NEW q, IsRequest(q)
  PROVE  /\ q.pc = "idle" => q.op = "none"
         /\ q.pc \in {"check", "make"} => q.op = "create"
         /\ q.pc \in {"key", "reply"} => q.op \in {"create", "rotate"}
         /\ q.pc = "secrets" => q.op \in {"put", "drop"}
         /\ q.pc = "write" => q.op \in {"put", "drop", "set_model", "clear_model"}
         /\ q.pc \in {"clear", "copy", "record"} => q.op = "install"
         /\ q.pc \in {"list", "each"} => q.op \in Updates \cup {"uninstall"}
         /\ q.pc = "save" => q.op \in Updates
         /\ q.pc = "fail" => q.op \in Updates \cup {"create", "rotate", "install", "uninstall"}
         /\ q.pc \in {"active", "load", "import", "required", "tools", "role", "profile", "built"} =>
              q.op \in {"turn", "role"}
  BY DEF IsRequest, PointsOf, Ops, Updates

(* Which file each of them writes.                                        *)
LEMMA FileTells ==
  /\ \A op \in {"create", "rotate"} : FileOf(op) = "tenant"
  /\ \A op \in {"put", "drop"} : FileOf(op) = "secret"
  /\ \A op \in {"set_model", "clear_model"} : FileOf(op) = "model"
  /\ \A op \in Updates \cup {"install", "uninstall"} : FileOf(op) = "installed"
  /\ \A op \in {"none", "turn", "role"} : FileOf(op) = "none"
  /\ "none" \notin Files
  /\ Files = {"tenant", "secret", "model", "installed"}
  BY DEF FileOf, Updates, Files

(* The files, by name.                                                     *)
LEMMA DiskIs ==
  /\ OnDisk["tenant"] = tenant /\ OnDisk["secret"] = secret
  /\ OnDisk["model"] = model /\ OnDisk["installed"] = installed
  /\ OnDisk'["tenant"] = tenant' /\ OnDisk'["secret"] = secret'
  /\ OnDisk'["model"] = model' /\ OnDisk'["installed"] = installed'
  BY DEF OnDisk

(* How far a writer has come depends on its file alone, and on the tenant. *)
LEMMA ProgressStays ==
  ASSUME NEW q, IsRequest(q), InProgress(q, OnDisk, promised), FileOf(q.op) \in Files,
         OnDisk'[FileOf(q.op)] = OnDisk[FileOf(q.op)],
         promised'[FileOf(q.op)] = promised[FileOf(q.op)], Exists => Exists'
  PROVE  InProgress(q, OnDisk', promised')
<1> USE DEF InProgress
<1>1. q.op \in Ops /\ q.op \notin {"none", "turn", "role"}
  BY FileTells DEF IsRequest
<1>2. OnDisk'.tenant # Absent \/ OnDisk.tenant = Absent
  BY DEF Exists, OnDisk
<1>3. CASE q.op \in {"create", "rotate"}
  <2>1. OnDisk'.tenant = OnDisk.tenant /\ promised'.tenant = promised.tenant
    BY <1>3, FileTells
  <2>2. q.pc \in {"check", "make", "key", "reply"}
    BY <1>3 DEF IsRequest, PointsOf, Updates
  <2> QED
    BY <1>2, <1>3, <2>1, <2>2
<1>4. CASE q.op \in {"put", "drop"}
  <2>1. OnDisk'.secret = OnDisk.secret /\ promised'.secret = promised.secret
    BY <1>4, FileTells
  <2>2. q.pc \in {"secrets", "write"}
    BY <1>4 DEF IsRequest, PointsOf, Updates
  <2> QED
    BY <1>2, <1>4, <2>1, <2>2
<1>5. CASE q.op \in {"set_model", "clear_model"}
  <2>1. OnDisk'.model = OnDisk.model /\ promised'.model = promised.model
    BY <1>5, FileTells
  <2>2. q.pc = "write"
    BY <1>5 DEF IsRequest, PointsOf, Updates
  <2> QED
    BY <1>2, <1>5, <2>1, <2>2
<1>6. CASE q.op \in Updates \cup {"install", "uninstall"}
  <2>1. OnDisk'.installed = OnDisk.installed /\ promised'.installed = promised.installed
    BY <1>6, FileTells
  <2>2. q.pc \in {"clear", "copy", "record", "list", "each", "save"}
    BY <1>6 DEF IsRequest, PointsOf, Updates
  <2>3. q.op \notin {"create", "rotate", "put", "drop", "set_model", "clear_model"}
    BY <1>6 DEF Updates
  <2> QED
    BY <1>2, <2>1, <2>2, <2>3
<1> QED
  BY <1>1, <1>3, <1>4, <1>5, <1>6 DEF Ops

(* A step of one request on its file.                                      *)
LEMMA StepMoves ==
  ASSUME FileInv, NEW h \in Requests, NEW q, IsRequest(q), q.op = handler[h].op,
         handler' = [handler EXCEPT ![h] = q], UNCHANGED <<promised, muddled, asked>>,
         tenant' \in Nat, installed' \in Installations,
         \A f \in Files : f # File(h) => OnDisk'[f] = OnDisk[f], Exists => Exists',
         File(h) \in Files \ muddled => InProgress(q, OnDisk', promised')
  PROVE  FileInv'
<1> USE DEF FileInv
<1>1. handler'[h] = q /\ \A g \in Requests \ {h} : handler'[g] = handler[g]
  BY DEF FileTypes
<1>2. \A g \in Requests : File(g)' = File(g)
  BY <1>1 DEF File
<1>3. FileTypes'
  <2>1. handler' = [g \in Requests |-> handler'[g]]
    BY DEF FileTypes
  <2>2. \A g \in Requests : IsRequest(handler'[g])
    BY <1>1 DEF FileTypes
  <2> QED
    BY <2>1, <2>2 DEF FileTypes
<1>4. OneWriterEach'
  BY <1>2 DEF OneWriterEach
<1>5. ASSUME NEW g \in Requests, File(g) \in Files \ muddled PROVE InProgress(handler'[g], OnDisk', promised')
  <2>1. CASE g = h
    BY <1>1, <1>5, <2>1
  <2>2. CASE g # h
    <3>1. PICK p : p = handler[g]
      OBVIOUS
    <3>2. IsRequest(p) /\ InProgress(p, OnDisk, promised) /\ File(g) = FileOf(p.op)
      BY <1>5, <3>1 DEF FileTypes, WritersProgress, File
    <3>3. File(g) # File(h)
      BY <1>5, <2>2 DEF OneWriterEach
    <3>4. InProgress(p, OnDisk', promised')
      BY <1>5, <3>2, <3>3, ProgressStays
    <3>5. handler'[g] = p
      BY <1>1, <2>2, <3>1
    <3> QED
      BY <3>4, <3>5
  <2> QED
    BY <2>1, <2>2
<1>6. WritersProgress'
  BY <1>2, <1>5 DEF WritersProgress
<1>7. QuietWritesHold'
  <2> SUFFICES ASSUME NEW f \in Files, Writing(f)' = {}, f \notin muddled
               PROVE  OnDisk'[f] = promised[f]
    BY DEF QuietWritesHold
  <2>1. f # File(h) /\ Writing(f) = {}
    BY <1>2 DEF Writing, File
  <2> QED
    BY <2>1 DEF QuietWritesHold
<1> QED
  BY <1>3, <1>4, <1>6, <1>7

(* An answer.                                                              *)
LEMMA DoneMoves ==
  ASSUME FileInv, NEW h \in Requests, NEW promise, Done(h, promise), File(h) \in Files,
         UNCHANGED asked, tenant' \in Nat, installed' \in Installations,
         \A f \in Files : f # File(h) => OnDisk'[f] = OnDisk[f], Exists => Exists',
         File(h) = "installed" => promise \in Installations,
         File(h) \notin muddled => promise = OnDisk'[File(h)]
  PROVE  FileInv'
<1> USE DEF FileInv
<1>1. PICK file \in Files : file = File(h)
  OBVIOUS
<1>2. handler' = [handler EXCEPT ![h] = NoReq]
  BY DEF Done, Set
<1>3. handler'[h] = NoReq /\ \A g \in Requests \ {h} : handler'[g] = handler[g]
  BY <1>2 DEF FileTypes
<1>4. File(h)' = "none" /\ \A g \in Requests \ {h} : File(g)' = File(g)
  BY <1>3, FileTells DEF File, NoReq
<1>5. /\ \A f \in Files \ {file} : promised'[f] = promised[f] /\ (f \in muddled' <=> f \in muddled)
      /\ file \notin muddled => promised'[file] = promise /\ muddled' = muddled
      /\ file \in muddled /\ Writing(file) # {h} => promised' = promised /\ muddled' = muddled
      /\ file \in muddled /\ Writing(file) = {h} => promised'[file] = OnDisk'[file]
      /\ promised' = [f \in Files |-> promised'[f]]
  <2>1. file # "none" /\ file = FileOf(handler[h].op)
    BY <1>1, FileTells DEF File
  <2>2. CASE file \notin muddled
    <3>1. promised' = [promised EXCEPT ![file] = promise] /\ muddled' = muddled
      BY <2>1, <2>2 DEF Done
    <3> QED
      BY <2>2, <3>1 DEF FileTypes
  <2>3. CASE file \in muddled /\ Writing(file) # {h}
    <3>1. promised' = promised /\ muddled' = muddled
      BY <2>1, <2>3 DEF Done
    <3> QED
      BY <2>3, <3>1 DEF FileTypes
  <2>4. CASE file \in muddled /\ Writing(file) = {h}
    <3>1. promised' = [promised EXCEPT ![file] = OnDisk'[file]] /\ muddled' = muddled \ {file}
      BY <2>1, <2>4 DEF Done
    <3> QED
      BY <2>4, <3>1 DEF FileTypes
  <2> QED
    BY <2>2, <2>3, <2>4
<1>6. FileTypes'
  <2>1. IsRequest(NoReq)
    BY DEF IsRequest, NoReq, PointsOf, Ops, Updates
  <2>2. handler' = [g \in Requests |-> handler'[g]] /\ \A g \in Requests : IsRequest(handler'[g])
    BY <1>2, <1>3, <2>1 DEF FileTypes
  <2>3. promised'["installed"] \in Installations
    <3>1. CASE file = "installed"
      BY <1>1, <1>5, <3>1, DiskIs DEF FileTypes
    <3>2. CASE file # "installed"
      BY <1>5, <3>2, FileTells DEF FileTypes
    <3> QED
      BY <3>1, <3>2
  <2> QED
    BY <1>5, <2>2, <2>3 DEF FileTypes
<1>7. ASSUME NEW g \in Requests, File(g)' \in Files \ muddled'
      PROVE  g # h /\ File(g) \in Files \ muddled /\ File(g) # file
  <2>1. g # h /\ File(g)' = File(g)
    BY <1>4, <1>7, FileTells
  <2>2. File(g) # file
    <3> SUFFICES ASSUME File(g) = file PROVE FALSE
      OBVIOUS
    <3>1. file \in muddled
      BY <1>1, <1>5, <2>1 DEF OneWriterEach
    <3>2. Writing(file) # {h}
      BY <2>1 DEF Writing, File
    <3> QED
      BY <1>5, <1>7, <2>1, <3>1, <3>2
  <2> QED
    BY <1>5, <1>7, <2>1, <2>2
<1>8. OneWriterEach'
  BY <1>4, <1>7 DEF OneWriterEach
<1>9. WritersProgress'
  <2> SUFFICES ASSUME NEW g \in Requests, File(g)' \in Files \ muddled'
               PROVE  InProgress(handler'[g], OnDisk', promised')
    BY DEF WritersProgress
  <2>1. g # h /\ File(g) \in Files \ muddled /\ File(g) # file
    BY <1>7
  <2>2. PICK p : p = handler[g]
    OBVIOUS
  <2>3. IsRequest(p) /\ InProgress(p, OnDisk, promised) /\ File(g) = FileOf(p.op)
    BY <2>1, <2>2 DEF FileTypes, WritersProgress, File
  <2>4. InProgress(p, OnDisk', promised')
    BY <1>1, <1>5, <2>1, <2>3, ProgressStays
  <2>5. handler'[g] = p
    BY <1>3, <2>1, <2>2
  <2> QED
    BY <2>4, <2>5
<1>10. QuietWritesHold'
  <2> SUFFICES ASSUME NEW f \in Files, Writing(f)' = {}, f \notin muddled'
               PROVE  OnDisk'[f] = promised'[f]
    BY DEF QuietWritesHold
  <2>1. CASE f = file
    BY <1>1, <1>5, <2>1
  <2>2. CASE f # file
    <3>1. Writing(f) = {}
      BY <1>1, <1>4, <2>2 DEF Writing, File
    <3> QED
      BY <1>1, <1>5, <2>2, <3>1 DEF QuietWritesHold
  <2> QED
    BY <2>1, <2>2
<1> QED
  BY <1>6, <1>8, <1>9, <1>10

(* A step of a request that writes no file.                                *)
LEMMA ReadMoves ==
  ASSUME FileInv, NEW h \in Requests, NEW q, IsRequest(q), File(h) = "none",
         FileOf(q.op) = "none", handler' = [handler EXCEPT ![h] = q],
         UNCHANGED <<tenant, secret, model, installed, promised, muddled, asked>>
  PROVE  FileInv'
<1> USE DEF FileInv
<1>1. handler'[h] = q /\ \A g \in Requests \ {h} : handler'[g] = handler[g]
  BY DEF FileTypes
<1>2. \A g \in Requests : File(g)' = File(g)
  BY <1>1 DEF File
<1>3. FileTypes'
  <2>1. handler' = [g \in Requests |-> handler'[g]]
    BY DEF FileTypes
  <2>2. \A g \in Requests : IsRequest(handler'[g])
    BY <1>1 DEF FileTypes
  <2> QED
    BY <2>1, <2>2 DEF FileTypes
<1>4. OneWriterEach'
  BY <1>2 DEF OneWriterEach
<1>5. WritersProgress'
  <2> SUFFICES ASSUME NEW g \in Requests, File(g) \in Files \ muddled
               PROVE  InProgress(handler'[g], OnDisk', promised')
    BY <1>2 DEF WritersProgress
  <2>1. InProgress(handler[g], OnDisk, promised) /\ handler'[g] = handler[g]
    BY <1>1, FileTells DEF WritersProgress
  <2>2. OnDisk' = OnDisk /\ promised' = promised
    BY DEF OnDisk
  <2> QED
    BY <2>1, <2>2
<1>6. QuietWritesHold'
  BY <1>2 DEF QuietWritesHold, Writing, File, OnDisk
<1> QED
  BY <1>3, <1>4, <1>5, <1>6

(* Before the tenant is created.                                           *)
LEMMA FileInvInit == FilesInit => FileInv
<1> SUFFICES ASSUME FilesInit PROVE FileInv
  OBVIOUS
<1> USE DEF FilesInit
<1>1. IsRequest(NoReq)
  BY DEF IsRequest, NoReq, PointsOf, Ops, Updates
<1>2. [v \in Releases |-> Missing] \in Installations
  BY DEF Installations, Release, Missing
<1>3. FileTypes
  BY <1>1, <1>2 DEF FileTypes, NoFiles, Files, Absent
<1>4. \A h \in Requests : File(h) = "none"
  BY FileTells DEF File, NoReq
<1>5. QuietWritesHold
  BY FileTells DEF QuietWritesHold, OnDisk, NoFiles
<1> QED
  BY <1>3, <1>4, <1>5, FileTells DEF FileInv, OneWriterEach, WritersProgress

(* A request has its file for itself from the first step, or muddles it.   *)
LEMMA AskKeeps ==
  ASSUME FileInv, NEW h \in Requests, NEW op \in Ops \ {"none"}, NEW arg, Ask(h, op, arg),
         op \in {"create", "rotate"} => arg \in Nat \ {0},
         op = "install" => arg \in Releases, op = "configure" => arg \in Nat
  PROVE  FileInv'
<1> USE DEF FileInv
<1> DEFINE file == FileOf(op)
<1>1. PICK q : q = [op |-> op, pc |-> Steps(op), arg |-> arg, rows |-> {}]
  OBVIOUS
<1>2. q.op = op /\ q.pc = Steps(op) /\ q.arg = arg /\ q.rows = {}
  BY <1>1
<1>3. IsRequest(q)
  <2>1. Steps(op) \in PointsOf(op) /\ Steps(op) \notin {"each", "save"}
    BY DEF PointsOf, Ops, Updates, Steps
  <2> QED
    BY <1>1, <1>2, <2>1 DEF IsRequest
<1>4. File(h) = "none"
  BY PointTells, FileTells DEF Ask, Is, FileTypes, File
<1>5. /\ handler' = [handler EXCEPT ![h] = q] /\ asked' \in Nat
      /\ op = "create" \/ Exists
      /\ UNCHANGED <<tenant, secret, model, installed, promised>>
      /\ muddled' = IF file # "none" /\ Writing(file) # {} THEN muddled \cup {file} ELSE muddled
  <2>1. asked' \in Nat
    BY DEF Ask, FileTypes
  <2> QED
    BY <1>1, <2>1 DEF Ask, Set
<1>6. handler'[h] = q /\ \A g \in Requests \ {h} : handler'[g] = handler[g]
  BY <1>5 DEF FileTypes
<1>7. File(h)' = file /\ \A g \in Requests \ {h} : File(g)' = File(g)
  BY <1>2, <1>6 DEF File
<1>8. FileTypes'
  <2>1. handler' = [g \in Requests |-> handler'[g]]
    BY <1>5 DEF FileTypes
  <2>2. \A g \in Requests : IsRequest(handler'[g])
    BY <1>3, <1>6 DEF FileTypes
  <2> QED
    BY <1>5, <2>1, <2>2 DEF FileTypes
<1>9. OnDisk' = OnDisk /\ promised' = promised
  BY <1>5 DEF OnDisk
<1>10. ASSUME file \in Files \ muddled' PROVE Writing(file) = {} /\ file \notin muddled
  BY <1>5, <1>10, FileTells
<1>11. OneWriterEach'
  <2> SUFFICES ASSUME NEW g \in Requests, NEW k \in Requests, File(g)' = File(k)',
                      File(g)' \in Files \ muddled', g # k
               PROVE  FALSE
    BY DEF OneWriterEach
  <2>1. CASE g # h /\ k # h
    BY <1>5, <1>7, <2>1 DEF OneWriterEach
  <2>2. CASE g = h
    BY <1>7, <1>10, <2>2 DEF Writing, File
  <2>3. CASE k = h
    BY <1>7, <1>10, <2>3 DEF Writing, File
  <2> QED
    BY <2>1, <2>2, <2>3
<1>12. WritersProgress'
  <2> SUFFICES ASSUME NEW g \in Requests, File(g)' \in Files \ muddled'
               PROVE  InProgress(handler'[g], OnDisk', promised')
    BY DEF WritersProgress
  <2>1. CASE g # h
    <3>1. File(g) \in Files \ muddled
      BY <1>5, <1>7, <2>1
    <3> QED
      BY <1>6, <1>9, <2>1, <3>1 DEF WritersProgress
  <2>2. CASE g = h
    <3>1. OnDisk[file] = promised[file]
      BY <1>7, <1>10, <2>2 DEF QuietWritesHold
    <3>2. op \in {"create", "rotate"} => OnDisk.tenant = promised.tenant
      BY <3>1, FileTells
    <3>3. op \in {"put", "drop"} => OnDisk.secret = promised.secret
      BY <3>1, FileTells
    <3>4. op \in {"set_model", "clear_model"} => OnDisk.model = promised.model
      BY <3>1, FileTells
    <3>5. op \in Updates \cup {"install", "uninstall"} => OnDisk.installed = promised.installed
      BY <3>1, FileTells
    <3>6. OnDisk.tenant # Absent \/ op = "create"
      BY <1>5 DEF Exists, OnDisk
    <3>7. /\ q.pc \notin {"fail", "copy", "record", "each", "save", "reply"}
          /\ q.pc = "key" => op = "rotate"
          /\ q.pc = "write" => op \notin {"put", "drop"}
          /\ q.pc \in {"clear", "list"} => op \in Updates \cup {"install", "uninstall"}
      BY <1>2 DEF Steps, Ops, Updates
    <3> QED
      BY <1>2, <1>6, <1>9, <2>2, <3>2, <3>3, <3>4, <3>5, <3>6, <3>7 DEF InProgress
  <2> QED
    BY <2>1, <2>2
<1>13. QuietWritesHold'
  <2> SUFFICES ASSUME NEW f \in Files, Writing(f)' = {}, f \notin muddled'
               PROVE  OnDisk'[f] = promised'[f]
    BY DEF QuietWritesHold
  <2>1. Writing(f) = {} /\ f \notin muddled
    BY <1>4, <1>5, <1>7, FileTells DEF Writing, File
  <2> QED
    BY <1>9, <2>1 DEF QuietWritesHold
<1> QED
  BY <1>8, <1>11, <1>12, <1>13

(* A deletion answers for every file, and muddles those being written.     *)
LEMMA DeleteKeeps == FileInv /\ DeleteTenant => FileInv'
<1> SUFFICES ASSUME FileInv, DeleteTenant PROVE FileInv'
  OBVIOUS
<1> USE DEF FileInv, DeleteTenant
<1>1. \A h \in Requests : File(h)' = File(h)
  BY DEF File
<1>2. OnDisk' = NoFiles /\ promised' = NoFiles
  BY DEF OnDisk, NoFiles
<1>3. [v \in Releases |-> Missing] \in Installations
  BY DEF Installations, Release, Missing
<1>4. FileTypes'
  <2>1. promised' = [f \in Files |-> promised'[f]] /\ promised'.installed \in Installations
    BY <1>3 DEF NoFiles, Files
  <2>2. tenant' \in Nat /\ asked' \in Nat /\ installed' \in Installations
    BY <1>3 DEF FileTypes, Absent
  <2> QED
    BY <2>1, <2>2 DEF FileTypes
<1>5. \A h \in Requests : File(h) \in Files => File(h) \in muddled'
  BY DEF Writing, File
<1> QED
  BY <1>1, <1>2, <1>4, <1>5 DEF OneWriterEach, WritersProgress, QuietWritesHold

(* Where a request stands.                                                 *)
LEMMA Standing ==
  ASSUME FileInv, NEW h \in Requests
  PROVE  \E p : /\ p = handler[h] /\ IsRequest(p) /\ File(h) = FileOf(p.op)
                /\ File(h) \in Files \ muddled => InProgress(p, OnDisk, promised)
  BY DEF FileInv, FileTypes, WritersProgress, File

(* What it becomes.                                                        *)
LEMMA MovedIs ==
  ASSUME NEW p, IsRequest(p), NEW pc, NEW rows
  PROVE  /\ [p EXCEPT !.pc = pc] = [op |-> p.op, pc |-> pc, arg |-> p.arg, rows |-> p.rows]
         /\ [p EXCEPT !.rows = rows] = [op |-> p.op, pc |-> p.pc, arg |-> p.arg, rows |-> rows]
         /\ [p EXCEPT !.pc = pc, !.rows = rows] =
              [op |-> p.op, pc |-> pc, arg |-> p.arg, rows |-> rows]
<1>1. PICK o, c, a, w : p = [op |-> o, pc |-> c, arg |-> a, rows |-> w]
  BY DEF IsRequest
<1>2. p.op = o /\ p.pc = c /\ p.arg = a /\ p.rows = w
  BY <1>1
<1>3. [p EXCEPT !.pc = pc] = [op |-> o, pc |-> pc, arg |-> a, rows |-> w]
  BY <1>1
<1>4. [p EXCEPT !.rows = rows] = [op |-> o, pc |-> c, arg |-> a, rows |-> rows]
  BY <1>1
<1>5. [p EXCEPT !.pc = pc, !.rows = rows] = [op |-> o, pc |-> pc, arg |-> a, rows |-> rows]
  <2>1. [p EXCEPT !.pc = pc, !.rows = rows] = [[p EXCEPT !.pc = pc] EXCEPT !.rows = rows]
    OBVIOUS
  <2>2. [[op |-> o, pc |-> pc, arg |-> a, rows |-> w] EXCEPT !.rows = rows] =
          [op |-> o, pc |-> pc, arg |-> a, rows |-> rows]
    OBVIOUS
  <2> QED
    BY <1>3, <2>1, <2>2
<1> QED
  BY <1>2, <1>3, <1>4, <1>5

(* A request that fails leaves its file as it was promised.                *)
LEMMA FailsKeeps ==
  ASSUME FileInv, NEW h \in Requests, File(h) \in Files, Fails(h),
         UNCHANGED <<tenant, secret, model, installed, asked>>,
         File(h) \notin muddled => OnDisk[File(h)] = promised[File(h)]
  PROVE  FileInv'
<1>1. PICK promise : promise = promised[File(h)]
  OBVIOUS
<1>2. Done(h, promise)
  BY <1>1 DEF Fails, Done, File
<1>3. tenant' \in Nat /\ installed' \in Installations /\ OnDisk' = OnDisk
  BY DEF FileInv, FileTypes, OnDisk
<1>4. File(h) = "installed" => promise \in Installations
  BY <1>1 DEF FileInv, FileTypes
<1>5. Exists => Exists'
  BY DEF Exists
<1> QED
  BY <1>1, <1>2, <1>3, <1>4, <1>5, DoneMoves

(* A tenant is created unless it is there.                                 *)
LEMMA CheckAbsentKeeps ==
  ASSUME FileInv, NEW h \in Requests, CheckAbsent(h) PROVE FileInv'
<1>1. PICK p : /\ p = handler[h] /\ IsRequest(p) /\ File(h) = FileOf(p.op)
               /\ File(h) \in Files \ muddled => InProgress(p, OnDisk, promised)
  BY Standing
<1>2. p.pc = "check" /\ p.op = "create" /\ File(h) = "tenant"
  BY <1>1, PointTells, FileTells DEF CheckAbsent, Is
<1>3. UNCHANGED <<tenant, secret, model, installed, asked>> /\ tenant' \in Nat /\ installed' \in Installations
  BY DEF CheckAbsent, FileInv, FileTypes
<1>4. OnDisk' = OnDisk /\ (Exists => Exists')
  BY <1>3 DEF OnDisk, Exists
<1>5. "tenant" \notin muddled => OnDisk.tenant = promised.tenant
  BY <1>1, <1>2, FileTells DEF InProgress
<1>6. CASE Exists
  BY <1>2, <1>3, <1>5, <1>6, FileTells, FailsKeeps DEF CheckAbsent
<1>7. CASE ~Exists
  <2>1. PICK q : q = [op |-> p.op, pc |-> "make", arg |-> p.arg, rows |-> p.rows]
    OBVIOUS
  <2>2. handler' = [handler EXCEPT ![h] = q] /\ UNCHANGED <<promised, muddled>>
    BY <1>1, <1>7, <2>1, MovedIs DEF CheckAbsent, Goto, Set
  <2>3. IsRequest(q) /\ q.op = p.op /\ q.pc = "make"
    BY <1>1, <1>2, <2>1 DEF IsRequest, PointsOf
  <2>4. "tenant" \notin muddled => InProgress(q, OnDisk', promised')
    BY <1>2, <1>4, <1>5, <2>2, <2>3 DEF InProgress
  <2> QED
    BY <1>1, <1>2, <1>3, <1>4, <2>2, <2>3, <2>4, StepMoves
<1> QED
  BY <1>6, <1>7

(* The record is written without a key ...                                 *)
LEMMA CreateTenantKeeps ==
  ASSUME FileInv, NEW h \in Requests, CreateTenant(h) PROVE FileInv'
<1>1. PICK p : /\ p = handler[h] /\ IsRequest(p) /\ File(h) = FileOf(p.op)
               /\ File(h) \in Files \ muddled => InProgress(p, OnDisk, promised)
  BY Standing
<1>2. p.pc = "make" /\ p.op = "create" /\ File(h) = "tenant"
  BY <1>1, PointTells, FileTells DEF CreateTenant, Is
<1>3. /\ UNCHANGED <<secret, model, installed, promised, muddled, asked>>
      /\ tenant' = NoKey /\ installed' \in Installations
  BY DEF CreateTenant, FileInv, FileTypes
<1>4. /\ tenant' \in Nat /\ Exists' /\ OnDisk'.tenant = NoKey
      /\ \A f \in Files \ {"tenant"} : OnDisk'[f] = OnDisk[f]
  BY <1>3, FileTells DEF OnDisk, Exists, NoKey, Absent
<1>5. PICK q : q = [op |-> p.op, pc |-> "key", arg |-> p.arg, rows |-> p.rows]
  OBVIOUS
<1>6. handler' = [handler EXCEPT ![h] = q]
  BY <1>1, <1>5, MovedIs DEF CreateTenant, Goto, Set
<1>7. IsRequest(q) /\ q.op = p.op /\ q.pc = "key"
  BY <1>1, <1>2, <1>5 DEF IsRequest, PointsOf
<1>8. InProgress(q, OnDisk', promised')
  BY <1>2, <1>4, <1>7 DEF InProgress, NoKey, Absent
<1> QED
  BY <1>1, <1>2, <1>3, <1>4, <1>6, <1>7, <1>8, StepMoves

(* ... a key is made, or a new one ...                                     *)
LEMMA RotateKeyKeeps ==
  ASSUME FileInv, NEW h \in Requests, RotateKey(h) PROVE FileInv'
<1>1. PICK p : /\ p = handler[h] /\ IsRequest(p) /\ File(h) = FileOf(p.op)
               /\ File(h) \in Files \ muddled => InProgress(p, OnDisk, promised)
  BY Standing
<1>2. p.pc = "key" /\ p.op \in {"create", "rotate"} /\ File(h) = "tenant"
  BY <1>1, PointTells, FileTells DEF RotateKey, Is
<1>3. p.arg \in Nat \ {0}
  BY <1>1, <1>2 DEF IsRequest
<1>4. UNCHANGED <<secret, model, installed, promised, muddled, asked>> /\ installed' \in Installations
  BY DEF RotateKey, FileInv, FileTypes
<1>5. \A f \in Files \ {"tenant"} : OnDisk'[f] = OnDisk[f]
  BY <1>4, FileTells DEF OnDisk
<1>6. PICK q : q = [op |-> p.op, pc |-> IF Exists THEN "reply" ELSE "fail",
                    arg |-> p.arg, rows |-> p.rows]
  OBVIOUS
<1>7. handler' = [handler EXCEPT ![h] = q]
  <2>1. PICK pc : pc = IF Exists THEN "reply" ELSE "fail"
    OBVIOUS
  <2>2. handler' = [handler EXCEPT ![h] = [p EXCEPT !.pc = pc]]
    BY <1>1, <2>1 DEF RotateKey, Goto, Set
  <2> QED
    BY <1>1, <1>6, <2>1, <2>2, MovedIs
<1>8. /\ IsRequest(q) /\ q.op = p.op /\ q.arg = p.arg
      /\ q.pc = IF Exists THEN "reply" ELSE "fail"
  BY <1>1, <1>2, <1>6 DEF IsRequest, PointsOf
<1>9. tenant' = IF Exists THEN p.arg ELSE tenant
  BY <1>1 DEF RotateKey
<1>10. tenant' \in Nat /\ (Exists => Exists') /\ OnDisk'.tenant = tenant'
  BY <1>3, <1>9 DEF FileInv, FileTypes, OnDisk, Exists, Absent
<1>11. ASSUME "tenant" \notin muddled PROVE InProgress(q, OnDisk', promised')
  <2>1. Exists
    BY <1>1, <1>2, <1>11, FileTells DEF InProgress, Exists, OnDisk
  <2> QED
    BY <1>2, <1>3, <1>8, <1>9, <1>10, <2>1 DEF InProgress, Absent
<1> QED
  BY <1>1, <1>2, <1>4, <1>5, <1>7, <1>8, <1>10, <1>11, StepMoves

(* ... and answered.                                                       *)
LEMMA ReplyKeyKeeps ==
  ASSUME FileInv, NEW h \in Requests, ReplyKey(h) PROVE FileInv'
<1>1. PICK p : /\ p = handler[h] /\ IsRequest(p) /\ File(h) = FileOf(p.op)
               /\ File(h) \in Files \ muddled => InProgress(p, OnDisk, promised)
  BY Standing
<1>2. p.pc = "reply" /\ p.op \in {"create", "rotate"} /\ File(h) = "tenant"
  BY <1>1, PointTells, FileTells DEF ReplyKey, Is
<1>3. UNCHANGED <<tenant, secret, model, installed, asked>> /\ tenant' \in Nat /\ installed' \in Installations
  BY DEF ReplyKey, FileInv, FileTypes
<1>4. OnDisk' = OnDisk /\ (Exists => Exists')
  BY <1>3 DEF OnDisk, Exists
<1>5. PICK promise : promise = p.arg
  OBVIOUS
<1>6. Done(h, promise)
  BY <1>1, <1>5 DEF ReplyKey
<1>7. "tenant" \notin muddled => promise = OnDisk'["tenant"]
  BY <1>1, <1>2, <1>4, <1>5, FileTells DEF InProgress
<1> QED
  BY <1>2, <1>3, <1>4, <1>6, <1>7, FileTells, DoneMoves

(* A request that has found nothing to write in was overtaken.             *)
LEMMA FailKeeps ==
  ASSUME FileInv, NEW h \in Requests, Fail(h) PROVE FileInv'
<1>1. PICK p : /\ p = handler[h] /\ IsRequest(p) /\ File(h) = FileOf(p.op)
               /\ File(h) \in Files \ muddled => InProgress(p, OnDisk, promised)
  BY Standing
<1>2. p.pc = "fail" /\ File(h) \in Files
  BY <1>1, PointTells, FileTells DEF Fail, Is
<1>3. File(h) \in muddled
  BY <1>1, <1>2 DEF InProgress
<1> QED
  BY <1>2, <1>3, FailsKeeps DEF Fail

(* The secrets are read.                                                   *)
LEMMA ReadSecretsKeeps ==
  ASSUME FileInv, NEW h \in Requests, ReadSecrets(h) PROVE FileInv'
<1>1. PICK p : /\ p = handler[h] /\ IsRequest(p) /\ File(h) = FileOf(p.op)
               /\ File(h) \in Files \ muddled => InProgress(p, OnDisk, promised)
  BY Standing
<1>2. p.pc = "secrets" /\ p.op \in {"put", "drop"} /\ File(h) = "secret"
  BY <1>1, PointTells, FileTells DEF ReadSecrets, Is
<1>3. /\ UNCHANGED <<tenant, secret, model, installed, promised, muddled, asked>>
      /\ tenant' \in Nat /\ installed' \in Installations
  BY DEF ReadSecrets, FileInv, FileTypes
<1>4. OnDisk' = OnDisk /\ (Exists => Exists')
  BY <1>3 DEF OnDisk, Exists
<1>5. PICK q : q = [op |-> p.op, pc |-> "write", arg |-> p.arg, rows |-> secret]
  OBVIOUS
<1>6. handler' = [handler EXCEPT ![h] = q]
  <2>1. PICK rows : rows = secret
    OBVIOUS
  <2>2. handler' = [handler EXCEPT ![h] = [p EXCEPT !.pc = "write", !.rows = rows]]
    BY <1>1, <2>1 DEF ReadSecrets, Set
  <2>3. PICK pc : pc = "write"
    OBVIOUS
  <2>4. [p EXCEPT !.pc = pc, !.rows = rows] = [op |-> p.op, pc |-> pc, arg |-> p.arg, rows |-> rows]
    BY <1>1, MovedIs
  <2> QED
    BY <1>5, <2>1, <2>2, <2>3, <2>4
<1>7. IsRequest(q) /\ q.op = p.op /\ q.pc = "write" /\ q.rows = secret
  BY <1>1, <1>2, <1>5 DEF IsRequest, PointsOf, Updates
<1>8. "secret" \notin muddled => InProgress(q, OnDisk', promised')
  BY <1>1, <1>2, <1>3, <1>4, <1>7, FileTells DEF InProgress, OnDisk
<1> QED
  BY <1>1, <1>2, <1>3, <1>4, <1>6, <1>7, <1>8, StepMoves

(* The file is what was read and one change; so is the promise.            *)
LEMMA SecretsKeep ==
  ASSUME FileInv, NEW h \in Requests, SetSecret(h) \/ DeleteSecret(h) PROVE FileInv'
<1>1. PICK p : /\ p = handler[h] /\ IsRequest(p) /\ File(h) = FileOf(p.op)
               /\ File(h) \in Files \ muddled => InProgress(p, OnDisk, promised)
  BY Standing
<1>2. p.pc = "write" /\ p.op \in {"put", "drop"} /\ File(h) = "secret"
  BY <1>1, FileTells DEF SetSecret, DeleteSecret, Is
<1>3. UNCHANGED <<tenant, model, installed, asked>> /\ tenant' \in Nat /\ installed' \in Installations
  BY DEF SetSecret, DeleteSecret, FileInv, FileTypes
<1>4. (Exists => Exists') /\ \A f \in Files \ {"secret"} : OnDisk'[f] = OnDisk[f]
  BY <1>3, FileTells DEF OnDisk, Exists
<1>5. "secret" \notin muddled => OnDisk["secret"] = promised["secret"] /\ p.rows = promised["secret"]
  BY <1>1, <1>2, FileTells DEF InProgress
<1>6. CASE Exists
  <2>1. PICK promise : promise = IF p.op = "put" THEN promised.secret \cup {p.arg}
                                 ELSE promised.secret \ {p.arg}
    OBVIOUS
  <2>2. Done(h, promise)
    BY <1>1, <1>6, <2>1 DEF SetSecret, DeleteSecret, Done
  <2>3. secret' = IF p.op = "put" THEN p.rows \cup {p.arg} ELSE p.rows \ {p.arg}
    BY <1>1, <1>6 DEF SetSecret, DeleteSecret
  <2>4. "secret" \notin muddled => promise = OnDisk'["secret"]
    BY <1>5, <2>1, <2>3, DiskIs
  <2> QED
    BY <1>2, <1>3, <1>4, <2>2, <2>4, FileTells, DoneMoves
<1>7. CASE ~Exists
  <2>1. Fails(h) /\ secret' = secret
    BY <1>7 DEF SetSecret, DeleteSecret
  <2> QED
    BY <1>2, <1>3, <1>5, <2>1, FileTells, FailsKeeps
<1> QED
  BY <1>6, <1>7

(* The model is written whole, or removed.                                 *)
LEMMA ModelsKeep ==
  ASSUME FileInv, NEW h \in Requests, SetModel(h) \/ ClearModel(h) PROVE FileInv'
<1>1. PICK p : /\ p = handler[h] /\ IsRequest(p) /\ File(h) = FileOf(p.op)
               /\ File(h) \in Files \ muddled => InProgress(p, OnDisk, promised)
  BY Standing
<1>2. p.op \in {"set_model", "clear_model"} /\ File(h) = "model"
  BY <1>1, FileTells DEF SetModel, ClearModel, Is
<1>3. UNCHANGED <<tenant, secret, installed, asked>> /\ tenant' \in Nat /\ installed' \in Installations
  BY DEF SetModel, ClearModel, FileInv, FileTypes
<1>4. (Exists => Exists') /\ \A f \in Files \ {"model"} : OnDisk'[f] = OnDisk[f]
  BY <1>3, FileTells DEF OnDisk, Exists
<1>5. "model" \notin muddled => OnDisk["model"] = promised["model"]
  BY <1>1, <1>2, FileTells DEF InProgress
<1>6. CASE Done(h, model')
  <2>1. PICK promise : promise = model'
    OBVIOUS
  <2>2. Done(h, promise)
    BY <1>6, <2>1 DEF Done
  <2>3. promise = OnDisk'["model"]
    BY <2>1, DiskIs
  <2> QED
    BY <1>2, <1>3, <1>4, <2>2, <2>3, FileTells, DoneMoves
<1>7. CASE model' = model /\ Fails(h)
  BY <1>2, <1>3, <1>5, <1>7, FileTells, FailsKeeps
<1>8. Done(h, model') \/ (model' = model /\ Fails(h))
  BY DEF SetModel, ClearModel
<1> QED
  BY <1>6, <1>7, <1>8

(* The release that comes next is one of those that were read.             *)
LEMMA LowestIs ==
  ASSUME NEW rows, rows \subseteq RowsRead, rows # {}
  PROVE  Lowest(rows) \in rows
<1> DEFINE T == {r[1] : r \in rows}
<1>1. T # {} /\ T \subseteq Nat
  BY FilesAssumption DEF RowsRead
<1>2. PICK x \in T : \A y \in T : x <= y
  <2> HIDE DEF T
  <2> QED
    BY <1>1, LeastMember
<1>3. \E r \in rows : \A y \in rows : r[1] <= y[1]
  BY <1>2
<1> QED
  BY <1>3 DEF Lowest

(* An update makes a record of a record.                                   *)
LEMMA ChangedIs ==
  ASSUME NEW op \in Updates, NEW arg, op = "configure" => arg \in Nat, NEW i \in Release
  PROVE  Changed(op, arg, i) \in Release
  BY DEF Changed, Release, Updates

(* While none has been changed.                                            *)
LEMMA PartlyBegins ==
  ASSUME NEW q, NEW was \in Installations,
         \A v \in Releases : was[v].state = "whole" => v \in {r[1] : r \in q.rows}
  PROVE  Partly(q, was) = was
  BY DEF Partly, Installations

(* One release is changed: the one with the lowest version.                *)
LEMMA PartlyNext ==
  ASSUME NEW p, NEW q, NEW was \in Installations, p.rows \subseteq RowsRead,
         \A x \in p.rows : x[2] = was[x[1]], NEW r \in p.rows,
         q.op = p.op, q.arg = p.arg, q.rows = p.rows \ {r}
  PROVE  /\ r[1] \in Releases /\ r[2] \in Release /\ Partly(p, was)[r[1]] = r[2]
         /\ r[2].state = "whole"
         /\ Partly(q, was) = [Partly(p, was) EXCEPT ![r[1]] = Changes(p, r[2])]
<1>1. r[1] \in Releases /\ r[2] \in Release /\ r[2].state = "whole" /\ was[r[1]] = r[2]
  BY DEF RowsRead
<1>2. \A x \in p.rows : x[1] = r[1] => x = r
  <2> SUFFICES ASSUME NEW x \in p.rows, x[1] = r[1] PROVE x = r
    OBVIOUS
  <2>1. x[2] = r[2] /\ x \in Releases \X Release /\ r \in Releases \X Release
    BY DEF RowsRead
  <2> QED
    BY <2>1
<1>3. \A v \in Releases : v \in {x[1] : x \in q.rows} <=> v \in {x[1] : x \in p.rows} /\ v # r[1]
  BY <1>2
<1>4. \A i : Changes(q, i) = Changes(p, i)
  BY DEF Changes
<1>5. \A v \in Releases :
        Partly(q, was)[v] = IF v = r[1] THEN Changes(p, r[2]) ELSE Partly(p, was)[v]
  BY <1>1, <1>3, <1>4 DEF Partly
<1>6. DOMAIN Partly(p, was) = Releases /\ DOMAIN Partly(q, was) = Releases
  BY DEF Partly
<1>7. Partly(q, was) = [v \in Releases |-> Partly(q, was)[v]]
  BY DEF Partly
<1>8. Partly(p, was) = [v \in Releases |-> Partly(p, was)[v]]
  BY DEF Partly
<1>9. Partly(q, was) = [Partly(p, was) EXCEPT ![r[1]] = Changes(p, r[2])]
  BY <1>1, <1>5, <1>7, <1>8
<1>10. Partly(p, was)[r[1]] = r[2]
  BY <1>1 DEF Partly
<1> QED
  BY <1>1, <1>9, <1>10

(* None is left to be changed.                                             *)
LEMMA PartlyEnds ==
  ASSUME NEW q, NEW was \in Installations, q.rows = {}, promised.installed = was
  PROVE  /\ q.op = "uninstall" => Partly(q, was) = Uninstalled
         /\ q.op \in Updates => Partly(q, was) = Update(q.op, q.arg)
<1>1. q.op = "uninstall" => Partly(q, was) = Uninstalled
  BY DEF Partly, Uninstalled, Changes
<1>2. q.op \in Updates => Partly(q, was) = Update(q.op, q.arg)
  BY DEF Partly, Update, Changes, Updates
<1> QED
  BY <1>1, <1>2

(* Both are what the answers say the releases are.                         *)
LEMMA PromisesTyped ==
  ASSUME FileInv, NEW op \in Updates, NEW arg, op = "configure" => arg \in Nat
  PROVE  Update(op, arg) \in Installations /\ Uninstalled \in Installations
<1>1. promised.installed \in Installations
  BY DEF FileInv, FileTypes
<1>2. \A v \in Releases : promised.installed[v] \in Release
  BY <1>1 DEF Installations
<1>3. \A v \in Releases : Changed(op, arg, promised.installed[v]) \in Release
  BY <1>2, ChangedIs
<1>4. Missing \in Release
  BY DEF Missing, Release
<1> QED
  BY <1>2, <1>3, <1>4 DEF Update, Uninstalled, Installations

(* An installation removes what is there and copies the bundle ...         *)
LEMMA InstallStepsKeep ==
  ASSUME FileInv, NEW h \in Requests, Clear(h) \/ Copy(h) PROVE FileInv'
<1>1. PICK p : /\ p = handler[h] /\ IsRequest(p) /\ File(h) = FileOf(p.op)
               /\ File(h) \in Files \ muddled => InProgress(p, OnDisk, promised)
  BY Standing
<1>2. p.pc \in {"clear", "copy"} /\ p.op = "install" /\ File(h) = "installed"
  BY <1>1, PointTells, FileTells DEF Clear, Copy, Is
<1>3. p.arg \in Releases
  BY <1>1, <1>2 DEF IsRequest
<1>4. UNCHANGED <<tenant, secret, model, promised, muddled, asked>> /\ tenant' \in Nat
  BY DEF Clear, Copy, FileInv, FileTypes
<1>5. (Exists => Exists') /\ \A f \in Files \ {"installed"} : OnDisk'[f] = OnDisk[f]
  BY <1>4, FileTells DEF OnDisk, Exists
<1>6. /\ OnDisk.installed = installed /\ OnDisk'.installed = installed'
      /\ OnDisk.tenant = tenant /\ OnDisk'.tenant = tenant
      /\ installed \in Installations /\ promised.installed \in Installations
      /\ Missing \in Release /\ Bare \in Release
  BY <1>4 DEF OnDisk, FileInv, FileTypes, Missing, Bare, Release
<1>7. CASE Clear(h)
  <2>1. PICK q : q = [op |-> p.op, pc |-> "copy", arg |-> p.arg, rows |-> p.rows]
    OBVIOUS
  <2>2. handler' = [handler EXCEPT ![h] = q]
    BY <1>1, <1>7, <2>1, MovedIs DEF Clear, Goto, Set
  <2>3. IsRequest(q) /\ q.op = p.op /\ q.pc = "copy" /\ q.arg = p.arg
    BY <1>1, <1>2, <2>1 DEF IsRequest, PointsOf, Updates
  <2>4. installed' = [installed EXCEPT ![p.arg] = Missing] /\ p.pc = "clear"
    BY <1>1, <1>7 DEF Clear, Is
  <2>5. installed' \in Installations
    BY <1>3, <1>6, <2>4 DEF Installations
  <2>6. "installed" \notin muddled => InProgress(q, OnDisk', promised')
    <3>1. "installed" \notin muddled => InProgress(p, OnDisk, promised)
      BY <1>1, <1>2, FileTells
    <3> QED
      BY <1>2, <1>4, <1>6, <2>3, <2>4, <3>1 DEF InProgress
  <2> QED
    BY <1>1, <1>2, <1>4, <1>5, <2>2, <2>3, <2>5, <2>6, StepMoves
<1>8. CASE Copy(h)
  <2>1. p.pc = "copy"
    BY <1>1, <1>8 DEF Copy, Is
  <2>2. "installed" \notin muddled => /\ Exists
                                      /\ installed = [promised.installed EXCEPT ![p.arg] = Missing]
    BY <1>1, <1>2, <1>6, <2>1, FileTells DEF InProgress, Exists
  <2>3. CASE Exists /\ installed[p.arg].state = "none"
    <3>1. PICK q : q = [op |-> p.op, pc |-> "record", arg |-> p.arg, rows |-> p.rows]
      OBVIOUS
    <3>2. handler' = [handler EXCEPT ![h] = q] /\ installed' = [installed EXCEPT ![p.arg] = Bare]
      BY <1>1, <1>8, <2>3, <3>1, MovedIs DEF Copy, Goto, Set
    <3>3. IsRequest(q) /\ q.op = p.op /\ q.pc = "record" /\ q.arg = p.arg
      BY <1>1, <1>2, <3>1 DEF IsRequest, PointsOf, Updates
    <3>4. installed' \in Installations
      BY <1>3, <1>6, <3>2 DEF Installations
    <3>5. "installed" \notin muddled => installed' = [promised.installed EXCEPT ![p.arg] = Bare]
      BY <1>3, <1>6, <2>2, <3>2 DEF Installations
    <3>6. "installed" \notin muddled => InProgress(q, OnDisk', promised')
      BY <1>2, <1>4, <1>6, <2>2, <3>3, <3>5 DEF InProgress, Exists
    <3> QED
      BY <1>1, <1>2, <1>4, <1>5, <3>2, <3>3, <3>4, <3>6, StepMoves
  <2>4. CASE ~(Exists /\ installed[p.arg].state = "none")
    <3>1. PICK q : q = [op |-> p.op, pc |-> "fail", arg |-> p.arg, rows |-> p.rows]
      OBVIOUS
    <3>2. handler' = [handler EXCEPT ![h] = q] /\ installed' = installed
      BY <1>1, <1>8, <2>4, <3>1, MovedIs DEF Copy, Goto, Set
    <3>3. IsRequest(q) /\ q.op = p.op
      BY <1>1, <1>2, <3>1 DEF IsRequest, PointsOf, Updates
    <3>4. "installed" \in muddled
      <4> SUFFICES ASSUME "installed" \notin muddled PROVE FALSE
        OBVIOUS
      <4>1. Exists /\ installed[p.arg] = Missing
        BY <1>3, <1>6, <2>2 DEF Installations
      <4> QED
        BY <2>4, <4>1 DEF Missing
    <3> QED
      BY <1>1, <1>2, <1>4, <1>5, <1>6, <3>2, <3>3, <3>4, StepMoves
  <2> QED
    BY <2>3, <2>4
<1> QED
  BY <1>7, <1>8

(* ... and writes its record.                                              *)
LEMMA RecordKeeps ==
  ASSUME FileInv, NEW h \in Requests, Record(h) PROVE FileInv'
<1>1. PICK p : /\ p = handler[h] /\ IsRequest(p) /\ File(h) = FileOf(p.op)
               /\ File(h) \in Files \ muddled => InProgress(p, OnDisk, promised)
  BY Standing
<1>2. p.pc = "record" /\ p.op = "install" /\ File(h) = "installed"
  BY <1>1, PointTells, FileTells DEF Record, Is
<1>3. p.arg \in Releases
  BY <1>1, <1>2 DEF IsRequest
<1>4. UNCHANGED <<tenant, secret, model, asked>> /\ tenant' \in Nat
  BY DEF Record, FileInv, FileTypes
<1>5. (Exists => Exists') /\ \A f \in Files \ {"installed"} : OnDisk'[f] = OnDisk[f]
  BY <1>4, FileTells DEF OnDisk, Exists
<1>6. /\ OnDisk.installed = installed /\ OnDisk'.installed = installed'
      /\ installed \in Installations /\ promised.installed \in Installations
  BY DEF OnDisk, FileInv, FileTypes
<1>7. "installed" \notin muddled => installed = [promised.installed EXCEPT ![p.arg] = Bare]
  BY <1>1, <1>2, <1>6, FileTells DEF InProgress
<1>8. CASE installed[p.arg].state = "none"
  <2>1. Fails(h) /\ installed' = installed
    BY <1>1, <1>8 DEF Record
  <2>2. "installed" \in muddled
    <3> SUFFICES ASSUME "installed" \notin muddled PROVE FALSE
      OBVIOUS
    <3>1. installed[p.arg] = Bare
      BY <1>3, <1>6, <1>7 DEF Installations
    <3> QED
      BY <1>8, <3>1 DEF Bare
  <2> QED
    BY <1>2, <1>4, <2>1, <2>2, FileTells, FailsKeeps
<1>9. CASE installed[p.arg].state # "none"
  <2>1. PICK new : new = Whole(TRUE, asked)
    OBVIOUS
  <2>2. new \in Release
    BY <2>1 DEF Whole, Release, FileInv, FileTypes
  <2>3. installed' = [installed EXCEPT ![p.arg] = new]
    BY <1>1, <1>9, <2>1 DEF Record
  <2>4. installed' \in Installations /\ installed'[p.arg] = new
    BY <1>3, <1>6, <2>2, <2>3 DEF Installations
  <2>5. PICK promise : promise = [promised.installed EXCEPT ![p.arg] = new]
    OBVIOUS
  <2>6. Done(h, promise)
    BY <1>1, <1>9, <2>4, <2>5 DEF Record, Done
  <2>7. promise \in Installations
    BY <1>3, <1>6, <2>2, <2>5 DEF Installations
  <2>8. "installed" \notin muddled => promise = OnDisk'["installed"]
    BY <1>3, <1>6, <1>7, <2>3, <2>5 DEF Installations
  <2> QED
    BY <1>2, <1>4, <1>5, <2>4, <2>6, <2>7, <2>8, FileTells, DoneMoves
<1> QED
  BY <1>8, <1>9

(* The releases are read.                                                  *)
LEMMA ListKeeps ==
  ASSUME FileInv, NEW h \in Requests, List(h) PROVE FileInv'
<1>1. PICK p : /\ p = handler[h] /\ IsRequest(p) /\ File(h) = FileOf(p.op)
               /\ File(h) \in Files \ muddled => InProgress(p, OnDisk, promised)
  BY Standing
<1>2. p.pc = "list" /\ p.op \in Updates \cup {"uninstall"} /\ File(h) = "installed"
  BY <1>1, PointTells, FileTells DEF List, Is
<1>3. UNCHANGED <<tenant, secret, model, installed, asked>> /\ tenant' \in Nat /\ installed' \in Installations
  BY DEF List, FileInv, FileTypes
<1>4. /\ OnDisk' = OnDisk /\ (Exists => Exists') /\ OnDisk.installed = installed
      /\ promised.installed \in Installations /\ installed \in Installations
  BY <1>3 DEF OnDisk, Exists, FileInv, FileTypes
<1>5. "installed" \notin muddled => InProgress(p, OnDisk, promised)
                                    /\ OnDisk["installed"] = promised["installed"]
  BY <1>1, <1>2, FileTells DEF InProgress
<1>6. CASE Listed = {}
  <2>1. Fails(h)
    BY <1>6 DEF List
  <2> QED
    BY <1>2, <1>3, <1>5, <2>1, FileTells, FailsKeeps
<1>7. CASE Listed # {}
  <2>1. PICK rows : rows = {<<v, installed[v]>> : v \in Listed}
    OBVIOUS
  <2>2. PICK q : q = [op |-> p.op, pc |-> "each", arg |-> p.arg, rows |-> rows]
    OBVIOUS
  <2>3. handler' = [handler EXCEPT ![h] = q] /\ UNCHANGED <<promised, muddled>>
    <3>1. /\ handler' = [handler EXCEPT ![h] = [p EXCEPT !.pc = "each", !.rows = rows]]
          /\ UNCHANGED <<promised, muddled>>
      BY <1>1, <1>7, <2>1 DEF List, Set
    <3>2. PICK pc : pc = "each"
      OBVIOUS
    <3>3. [p EXCEPT !.pc = pc, !.rows = rows] = [op |-> p.op, pc |-> pc, arg |-> p.arg, rows |-> rows]
      BY <1>1, MovedIs
    <3> QED
      BY <2>2, <3>1, <3>2, <3>3
  <2>4. rows \subseteq RowsRead
    BY <1>4, <2>1 DEF RowsRead, Listed, Installations
  <2>5. IsRequest(q) /\ q.op = p.op /\ q.pc = "each" /\ q.rows = rows
    BY <1>1, <1>2, <2>2, <2>4 DEF IsRequest, PointsOf, Updates
  <2>6. ASSUME "installed" \notin muddled PROVE InProgress(q, OnDisk', promised')
    <3>1. \A v \in Releases : promised.installed[v].state = "whole" => v \in {r[1] : r \in q.rows}
      <4> SUFFICES ASSUME NEW v \in Releases, promised.installed[v].state = "whole"
                   PROVE  v \in {r[1] : r \in q.rows}
        OBVIOUS
      <4>1. <<v, installed[v]>> \in q.rows
        BY <1>4, <1>5, <2>1, <2>5, <2>6 DEF Listed
      <4> QED
        BY <4>1
    <3>2. PICK was \in Installations : was = promised.installed
      BY <1>4
    <3>3. Partly(q, was) = was
      BY <3>1, <3>2, PartlyBegins
    <3>4. \A r \in q.rows : r[2] = was[r[1]]
      BY <1>4, <1>5, <2>1, <2>5, <2>6, <3>2
    <3>5. q.op \notin {"create", "rotate", "put", "drop", "set_model", "clear_model"}
      BY <1>2, <2>5 DEF Updates
    <3> QED
      BY <1>2, <1>4, <1>5, <2>3, <2>5, <2>6, <3>2, <3>3, <3>4, <3>5 DEF InProgress, Updates
  <2> QED
    BY <1>1, <1>2, <1>3, <1>4, <2>3, <2>5, <2>6, StepMoves
<1> QED
  BY <1>6, <1>7

(* What a writer of several releases has in hand.                          *)
LEMMA EachIs ==
  ASSUME FileInv, NEW h \in Requests, NEW p, p = handler[h], IsRequest(p),
         p.pc \in {"each", "save"}, p.rows # {},
         "installed" \notin muddled => InProgress(p, OnDisk, promised)
  PROVE  /\ Row(h) \in p.rows /\ Row(h)[1] \in Releases /\ Row(h)[2] \in Release
         /\ Row(h)[2].state = "whole" /\ Row(h) = Lowest(p.rows)
         /\ "installed" \notin muddled =>
              /\ Row(h)[2] = promised.installed[Row(h)[1]]
              /\ Partly(p, promised.installed)[Row(h)[1]] = Row(h)[2]
<1>1. p.rows \subseteq RowsRead
  BY DEF IsRequest
<1>2. Row(h) = Lowest(p.rows)
  BY DEF Row, Lowest
<1>3. PICK r \in p.rows : r = Row(h)
  BY <1>1, <1>2, LowestIs
<1>4. r[1] \in Releases /\ r[2] \in Release /\ r[2].state = "whole"
  BY <1>1 DEF RowsRead
<1>5. ASSUME "installed" \notin muddled
      PROVE  r[2] = promised.installed[r[1]] /\ Partly(p, promised.installed)[r[1]] = r[2]
  <2>1. r[2] = promised.installed[r[1]]
    BY <1>5 DEF InProgress
  <2> QED
    BY <1>4, <2>1 DEF Partly
<1> QED
  BY <1>2, <1>3, <1>4, <1>5

(* An update empties the next record ...                                   *)
LEMMA UpdateNextKeeps ==
  ASSUME FileInv, NEW h \in Requests, UpdateNext(h) PROVE FileInv'
<1>1. PICK p : /\ p = handler[h] /\ IsRequest(p) /\ File(h) = FileOf(p.op)
               /\ File(h) \in Files \ muddled => InProgress(p, OnDisk, promised)
  BY Standing
<1>2. p.pc = "each" /\ p.op \in Updates /\ File(h) = "installed"
  BY <1>1, PointTells, FileTells DEF UpdateNext, Is
<1>3. UNCHANGED <<tenant, secret, model, asked>> /\ tenant' \in Nat
  BY DEF UpdateNext, FileInv, FileTypes
<1>4. /\ (Exists => Exists') /\ \A f \in Files \ {"installed"} : OnDisk'[f] = OnDisk[f]
      /\ OnDisk.installed = installed /\ OnDisk'.installed = installed'
      /\ OnDisk.tenant = OnDisk'.tenant
      /\ installed \in Installations /\ promised.installed \in Installations
  BY <1>3, FileTells DEF OnDisk, Exists, FileInv, FileTypes
<1>5. "installed" \notin muddled => /\ InProgress(p, OnDisk, promised)
                                    /\ installed = Partly(p, promised.installed)
  BY <1>1, <1>2, <1>4, FileTells DEF InProgress
<1>6. CASE p.rows = {}
  <2>1. PICK promise : promise = Update(p.op, p.arg)
    OBVIOUS
  <2>2. Done(h, promise) /\ installed' = installed
    BY <1>1, <1>6, <2>1 DEF UpdateNext
  <2>3. promise \in Installations
    BY <1>1, <1>2, <2>1, PromisesTyped DEF IsRequest
  <2>4. PICK was \in Installations : was = promised.installed
    BY <1>4
  <2>5. "installed" \notin muddled => promise = OnDisk'["installed"]
    BY <1>2, <1>4, <1>5, <1>6, <2>1, <2>2, <2>4, PartlyEnds
  <2> QED
    BY <1>2, <1>3, <1>4, <2>2, <2>3, <2>5, FileTells, DoneMoves
<1>7. CASE p.rows # {}
  <2>1. /\ Row(h) \in p.rows /\ Row(h)[1] \in Releases /\ Row(h) = Lowest(p.rows)
        /\ "installed" \notin muddled => installed[Row(h)[1]].state = "whole"
    <3>1. /\ Row(h) \in p.rows /\ Row(h)[1] \in Releases /\ Row(h)[2].state = "whole"
          /\ Row(h) = Lowest(p.rows)
          /\ "installed" \notin muddled => Partly(p, promised.installed)[Row(h)[1]] = Row(h)[2]
      BY <1>1, <1>2, <1>5, <1>7, EachIs
    <3> QED
      BY <1>5, <3>1
  <2>2. PICK v \in Releases : v = Row(h)[1]
    BY <2>1
  <2>3. UNCHANGED <<promised, muddled>>
    BY <1>1, <1>7 DEF UpdateNext
  <2>4. CASE installed[v].state = "none"
    <3>1. PICK q : q = [op |-> p.op, pc |-> "fail", arg |-> p.arg, rows |-> p.rows]
      OBVIOUS
    <3>2. handler' = [handler EXCEPT ![h] = q] /\ installed' = installed
      <4>1. Goto(h, "fail") /\ installed' = installed
        BY <1>1, <1>7, <2>2, <2>4 DEF UpdateNext
      <4> QED
        BY <1>1, <3>1, <4>1, MovedIs DEF Goto, Set
    <3>3. IsRequest(q) /\ q.op = p.op
      BY <1>1, <1>2, <3>1 DEF IsRequest, PointsOf, Updates
    <3>4. "installed" \in muddled
      BY <2>1, <2>2, <2>4
    <3> QED
      BY <1>1, <1>2, <1>3, <1>4, <2>3, <3>2, <3>3, <3>4, StepMoves
  <2>5. CASE installed[v].state # "none"
    <3>1. PICK q : q = [op |-> p.op, pc |-> "save", arg |-> p.arg, rows |-> p.rows]
      OBVIOUS
    <3>2. handler' = [handler EXCEPT ![h] = q] /\ installed' = [installed EXCEPT ![v] = Bare]
      BY <1>1, <1>7, <2>2, <2>5, <3>1, MovedIs DEF UpdateNext, Goto, Set
    <3>3. IsRequest(q) /\ q.op = p.op /\ q.pc = "save" /\ q.arg = p.arg /\ q.rows = p.rows
      BY <1>1, <1>2, <1>7, <3>1 DEF IsRequest, PointsOf, Updates
    <3>4. installed' \in Installations
      BY <1>4, <3>2 DEF Installations, Bare, Release
    <3>5. ASSUME "installed" \notin muddled PROVE InProgress(q, OnDisk', promised')
      <4>1. Partly(q, promised.installed) = Partly(p, promised.installed)
        BY <3>3 DEF Partly, Changes
      <4>2. installed' = [Partly(q, promised.installed) EXCEPT ![Lowest(q.rows)[1]] = Bare]
        BY <1>5, <2>1, <2>2, <3>2, <3>3, <3>5, <4>1
      <4>3. q.op \notin {"create", "rotate", "put", "drop", "set_model", "clear_model", "uninstall"}
        BY <1>2, <3>3 DEF Updates
      <4>4. OnDisk'.tenant # Absent /\ \A r \in q.rows : r[2] = promised.installed[r[1]]
        BY <1>2, <1>4, <1>5, <3>3, <3>5, <4>3 DEF InProgress
      <4> QED
        BY <1>4, <2>3, <3>3, <4>2, <4>3, <4>4 DEF InProgress
    <3> QED
      BY <1>1, <1>2, <1>3, <1>4, <2>3, <3>2, <3>3, <3>4, <3>5, StepMoves
  <2> QED
    BY <2>4, <2>5
<1> QED
  BY <1>6, <1>7

(* One release fewer to change.                                            *)
LEMMA NextRelease ==
  ASSUME FileInv, NEW h \in Requests, NEW p, p = handler[h], IsRequest(p), p.rows # {},
         File(h) = "installed", p.pc = "save" \/ (p.pc = "each" /\ p.op = "uninstall"),
         "installed" \notin muddled => InProgress(p, OnDisk, promised),
         handler' = [handler EXCEPT ![h] =
           [op |-> p.op, pc |-> "each", arg |-> p.arg, rows |-> p.rows \ {Row(h)}]],
         \/ installed' = [installed EXCEPT ![Row(h)[1]] = Changes(p, Row(h)[2])]
         \/ "installed" \in muddled /\ installed' = installed,
         UNCHANGED <<tenant, secret, model, promised, muddled, asked>>
  PROVE  FileInv'
<1>1. PICK r \in p.rows : r = Row(h)
  BY EachIs
<1>2. /\ r[1] \in Releases /\ r[2] \in Release /\ r = Lowest(p.rows)
      /\ "installed" \notin muddled => r[2] = promised.installed[r[1]]
  BY <1>1, EachIs
<1>3. p.op \in Updates \cup {"uninstall"} /\ p.rows \subseteq RowsRead
  BY PointTells DEF IsRequest
<1>4. PICK q : q = [op |-> p.op, pc |-> "each", arg |-> p.arg, rows |-> p.rows \ {r}]
  OBVIOUS
<1>5. /\ q.op = p.op /\ q.pc = "each" /\ q.arg = p.arg /\ q.rows = p.rows \ {r}
      /\ handler' = [handler EXCEPT ![h] = q]
  BY <1>1, <1>4
<1>6. IsRequest(q)
  BY <1>3, <1>4 DEF IsRequest, PointsOf, Updates
<1>7. Changes(p, r[2]) \in Release
  <2>1. Missing \in Release
    BY DEF Missing, Release
  <2>2. p.op \in Updates => Changed(p.op, p.arg, r[2]) \in Release
    BY <1>2, ChangedIs DEF IsRequest
  <2> QED
    BY <1>3, <2>1, <2>2 DEF Changes
<1>8. /\ (Exists => Exists') /\ \A f \in Files \ {"installed"} : OnDisk'[f] = OnDisk[f]
      /\ OnDisk.installed = installed /\ OnDisk'.installed = installed'
      /\ OnDisk.tenant = OnDisk'.tenant /\ tenant' \in Nat
      /\ installed \in Installations /\ promised.installed \in Installations
  BY FileTells DEF OnDisk, Exists, FileInv, FileTypes
<1>9. installed' \in Installations
  BY <1>1, <1>2, <1>7, <1>8 DEF Installations
<1>10. ASSUME "installed" \notin muddled PROVE InProgress(q, OnDisk', promised')
  <2>1. InProgress(p, OnDisk, promised)
    BY <1>10
  <2>2. PICK was \in Installations : was = promised.installed
    BY <1>8
  <2>3. \A x \in p.rows : x[2] = was[x[1]]
    BY <2>1, <2>2 DEF InProgress
  <2>4. Partly(q, was) = [Partly(p, was) EXCEPT ![r[1]] = Changes(p, r[2])]
    BY <1>3, <1>5, <2>3, PartlyNext
  <2>5. installed = Partly(p, was) \/ installed = [Partly(p, was) EXCEPT ![r[1]] = Bare]
    BY <1>2, <1>8, <2>1, <2>2 DEF InProgress
  <2>6. installed' = [installed EXCEPT ![r[1]] = Changes(p, r[2])]
    BY <1>1, <1>10
  <2>7. installed' = Partly(q, was)
    <3>1. PICK part : part = Partly(p, was)
      OBVIOUS
    <3>2. part = [v \in Releases |-> part[v]]
      BY <3>1 DEF Partly
    <3>3. [[part EXCEPT ![r[1]] = Bare] EXCEPT ![r[1]] = Changes(p, r[2])] =
            [part EXCEPT ![r[1]] = Changes(p, r[2])]
      BY <1>2, <3>2
    <3> QED
      BY <2>4, <2>5, <2>6, <3>1, <3>3
  <2>8. p.op \notin {"create", "rotate", "put", "drop", "set_model", "clear_model"}
    BY <1>3 DEF Updates
  <2>9. OnDisk'.tenant # Absent
    BY <1>8, <2>1, <2>8 DEF InProgress
  <2> QED
    BY <1>5, <1>8, <2>2, <2>3, <2>7, <2>8, <2>9 DEF InProgress
<1> QED
  BY <1>5, <1>6, <1>8, <1>9, <1>10, StepMoves

(* ... and writes it.                                                      *)
LEMMA WriteRecordKeeps ==
  ASSUME FileInv, NEW h \in Requests, WriteRecord(h) PROVE FileInv'
<1>1. PICK p : /\ p = handler[h] /\ IsRequest(p) /\ File(h) = FileOf(p.op)
               /\ File(h) \in Files \ muddled => InProgress(p, OnDisk, promised)
  BY Standing
<1>2. p.pc = "save" /\ p.op \in Updates /\ File(h) = "installed" /\ p.rows # {}
  BY <1>1, PointTells, FileTells DEF WriteRecord, Is, IsRequest
<1>3. PICK rows : rows = p.rows \ {Row(h)}
  OBVIOUS
<1>4. handler' = [handler EXCEPT ![h] = [op |-> p.op, pc |-> "each", arg |-> p.arg, rows |-> rows]]
  <2>1. handler' = [handler EXCEPT ![h] = [p EXCEPT !.pc = "each", !.rows = rows]]
    <3>1. handler' = [handler EXCEPT ![h] = [p EXCEPT !.pc = "each", !.rows = @ \ {Row(h)}]]
      BY <1>1 DEF WriteRecord, Set
    <3>2. [p EXCEPT !.pc = "each", !.rows = @ \ {Row(h)}] = [p EXCEPT !.pc = "each", !.rows = rows]
      BY <1>1, <1>3 DEF IsRequest
    <3> QED
      BY <3>1, <3>2
  <2>2. PICK pc : pc = "each"
    OBVIOUS
  <2>3. [p EXCEPT !.pc = pc, !.rows = rows] = [op |-> p.op, pc |-> pc, arg |-> p.arg, rows |-> rows]
    BY <1>1, MovedIs
  <2> QED
    BY <2>1, <2>2, <2>3
<1>5. Changes(p, Row(h)[2]) = Changed(p.op, p.arg, Row(h)[2])
  BY <1>2 DEF Changes, Updates
<1>6. /\ \/ installed' = [installed EXCEPT ![Row(h)[1]] = Changes(p, Row(h)[2])]
         \/ "installed" \in muddled /\ installed' = installed
      /\ UNCHANGED <<tenant, secret, model, promised, muddled, asked>>
  BY <1>1, <1>5 DEF WriteRecord
<1> QED
  BY <1>1, <1>2, <1>3, <1>4, <1>6, FileTells, NextRelease

(* A configuration that a release refuses is not promised.                 *)
LEMMA RefuseConfigKeeps ==
  ASSUME FileInv, NEW h \in Requests, RefuseConfig(h) PROVE FileInv'
<1>1. PICK p : /\ p = handler[h] /\ IsRequest(p) /\ File(h) = FileOf(p.op)
               /\ File(h) \in Files \ muddled => InProgress(p, OnDisk, promised)
  BY Standing
<1>2. p.op = "configure" /\ File(h) = "installed"
  BY <1>1, FileTells DEF RefuseConfig, Is, Updates
<1>3. UNCHANGED <<tenant, secret, model, installed, asked>> /\ tenant' \in Nat /\ installed' \in Installations
  BY DEF RefuseConfig, FileInv, FileTypes
<1>4. OnDisk' = OnDisk /\ (Exists => Exists')
  BY <1>3 DEF OnDisk, Exists
<1>5. PICK promise : promise = installed
  OBVIOUS
<1>6. Done(h, promise)
  BY <1>5 DEF RefuseConfig, Done
<1>7. promise \in Installations /\ promise = OnDisk'["installed"]
  BY <1>3, <1>5, DiskIs
<1> QED
  BY <1>2, <1>3, <1>4, <1>6, <1>7, FileTells, DoneMoves

(* An uninstallation removes the next release.                             *)
LEMMA UninstallNextKeeps ==
  ASSUME FileInv, NEW h \in Requests, UninstallNext(h) PROVE FileInv'
<1>1. PICK p : /\ p = handler[h] /\ IsRequest(p) /\ File(h) = FileOf(p.op)
               /\ File(h) \in Files \ muddled => InProgress(p, OnDisk, promised)
  BY Standing
<1>2. p.pc = "each" /\ p.op = "uninstall" /\ File(h) = "installed"
  BY <1>1, FileTells DEF UninstallNext, Is
<1>3. UNCHANGED <<tenant, secret, model, asked>> /\ tenant' \in Nat
  BY DEF UninstallNext, FileInv, FileTypes
<1>4. /\ (Exists => Exists') /\ \A f \in Files \ {"installed"} : OnDisk'[f] = OnDisk[f]
      /\ OnDisk.installed = installed /\ OnDisk'.installed = installed'
      /\ installed \in Installations /\ promised.installed \in Installations
  BY <1>3, FileTells DEF OnDisk, Exists, FileInv, FileTypes
<1>5. "installed" \notin muddled => /\ InProgress(p, OnDisk, promised)
                                    /\ installed = Partly(p, promised.installed)
  BY <1>1, <1>2, <1>4, FileTells DEF InProgress
<1>6. CASE p.rows = {}
  <2>1. PICK promise : promise = Uninstalled
    OBVIOUS
  <2>2. Done(h, promise) /\ installed' = installed
    BY <1>1, <1>6, <2>1 DEF UninstallNext
  <2>3. promise \in Installations
    BY <2>1, PromisesTyped DEF Updates
  <2>4. PICK was \in Installations : was = promised.installed
    BY <1>4
  <2>5. "installed" \notin muddled => promise = OnDisk'["installed"]
    BY <1>2, <1>4, <1>5, <1>6, <2>1, <2>2, <2>4, PartlyEnds
  <2> QED
    BY <1>2, <1>3, <1>4, <2>2, <2>3, <2>5, FileTells, DoneMoves
<1>7. CASE p.rows # {}
  <2>1. /\ Row(h) \in p.rows /\ Row(h)[1] \in Releases
        /\ "installed" \notin muddled => installed[Row(h)[1]].state = "whole"
    <3>1. /\ Row(h) \in p.rows /\ Row(h)[1] \in Releases /\ Row(h)[2].state = "whole"
          /\ "installed" \notin muddled => Partly(p, promised.installed)[Row(h)[1]] = Row(h)[2]
      BY <1>1, <1>2, <1>5, <1>7, EachIs
    <3> QED
      BY <1>5, <3>1
  <2>2. PICK r : r = Row(h)
    OBVIOUS
  <2>3. UNCHANGED <<promised, muddled>>
    BY <1>1, <1>7 DEF UninstallNext
  <2>4. CASE installed[r[1]].state = "none"
    <3>1. PICK q : q = [op |-> p.op, pc |-> "fail", arg |-> p.arg, rows |-> p.rows]
      OBVIOUS
    <3>2. handler' = [handler EXCEPT ![h] = q] /\ installed' = installed
      BY <1>1, <1>7, <2>2, <2>4, <3>1, MovedIs DEF UninstallNext, Goto, Set
    <3>3. IsRequest(q) /\ q.op = p.op
      BY <1>1, <1>2, <3>1 DEF IsRequest, PointsOf, Updates
    <3>4. "installed" \in muddled
      BY <2>1, <2>2, <2>4
    <3> QED
      BY <1>1, <1>2, <1>3, <1>4, <2>3, <3>2, <3>3, <3>4, StepMoves
  <2>5. CASE installed[r[1]].state # "none"
    <3>1. PICK rows : rows = p.rows \ {r}
      OBVIOUS
    <3>2. handler' = [handler EXCEPT ![h] = [op |-> p.op, pc |-> p.pc, arg |-> p.arg, rows |-> rows]]
      <4>1. handler' = [handler EXCEPT ![h] = [p EXCEPT !.rows = @ \ {r}]]
        BY <1>1, <1>7, <2>2, <2>5 DEF UninstallNext, Set
      <4>2. [p EXCEPT !.rows = @ \ {r}] = [p EXCEPT !.rows = rows]
        BY <1>1, <3>1 DEF IsRequest
      <4> QED
        BY <1>1, <4>1, <4>2, MovedIs
    <3>3. installed' = [installed EXCEPT ![Row(h)[1]] = Changes(p, Row(h)[2])]
      BY <1>1, <1>2, <1>7, <2>2, <2>5 DEF UninstallNext, Changes
    <3> QED
      BY <1>1, <1>2, <1>3, <1>5, <1>7, <2>2, <2>3, <3>1, <3>2, <3>3, NextRelease
  <2> QED
    BY <2>4, <2>5
<1> QED
  BY <1>6, <1>7

(* A turn, or an agent of a role, only reads.                              *)
LEMMA TurnsKeep ==
  ASSUME FileInv, NEW h \in Requests,
         \/ Active(h) \/ LoadBundle(h) \/ LoadTools(h) \/ MissingSecrets(h)
         \/ RoleSpec(h) \/ Tools(h) \/ Profile(h) \/ Built(h)
  PROVE  FileInv'
<1>1. PICK p : p = handler[h] /\ IsRequest(p) /\ File(h) = FileOf(p.op)
  BY Standing
<1>2. /\ p.op \in {"turn", "role"} /\ File(h) = "none"
      /\ p.pc \in {"active", "load", "import", "required", "role"} => (p.op = "turn" <=> p.pc # "role")
  <2>1. p.pc \in {"active", "load", "import", "required", "tools", "role", "profile", "built"}
    BY <1>1 DEF Active, LoadBundle, LoadTools, MissingSecrets, RoleSpec, Tools, Profile, Built, Is
  <2>2. p.op \in {"turn", "role"}
    BY <1>1, <2>1, PointTells
  <2> QED
    BY <1>1, <2>2, FileTells DEF IsRequest, PointsOf, Updates
<1>3. UNCHANGED <<tenant, secret, model, installed, promised, muddled, asked>>
  BY DEF Active, LoadBundle, LoadTools, MissingSecrets, RoleSpec, Tools, Profile, Built
<1>4. CASE handler' = [handler EXCEPT ![h] = NoReq]
  <2>1. PICK q : q = NoReq
    OBVIOUS
  <2>2. IsRequest(q) /\ FileOf(q.op) = "none"
    BY <2>1, FileTells DEF IsRequest, NoReq, PointsOf, Ops, Updates
  <2> QED
    BY <1>2, <1>3, <1>4, <2>1, <2>2, ReadMoves
<1>5. ASSUME NEW pc \in {"import", "required", "tools", "profile", "built"}, Goto(h, pc),
             pc \in PointsOf(p.op)
      PROVE  FileInv'
  <2>1. PICK q : q = [op |-> p.op, pc |-> pc, arg |-> p.arg, rows |-> p.rows]
    OBVIOUS
  <2>2. handler' = [handler EXCEPT ![h] = q]
    BY <1>1, <1>5, <2>1, MovedIs DEF Goto, Set
  <2>3. IsRequest(q) /\ FileOf(q.op) = "none"
    BY <1>1, <1>2, <1>5, <2>1 DEF IsRequest
  <2> QED
    BY <1>2, <1>3, <2>2, <2>3, ReadMoves
<1>6. CASE Active(h)
  <2>1. p.op = "turn"
    BY <1>1, <1>2, <1>6 DEF Active, Is
  <2>2. CASE Enabled = {}
    BY <1>4, <1>6, <2>2 DEF Active, Set
  <2>3. CASE Enabled # {}
    <3>1. PICK v : v = Max(Enabled)
      OBVIOUS
    <3>2. PICK q : q = [op |-> p.op, pc |-> "load", arg |-> v, rows |-> p.rows]
      OBVIOUS
    <3>3. handler' = [handler EXCEPT ![h] = q]
      <4>1. handler' = [handler EXCEPT ![h] = [p EXCEPT !.pc = "load", !.arg = v]]
        BY <1>1, <1>6, <2>3, <3>1 DEF Active, Set
      <4>2. PICK o, c, a, w : p = [op |-> o, pc |-> c, arg |-> a, rows |-> w]
        BY <1>1 DEF IsRequest
      <4>3. [p EXCEPT !.pc = "load", !.arg = v] = [[p EXCEPT !.pc = "load"] EXCEPT !.arg = v]
        OBVIOUS
      <4>4. [p EXCEPT !.pc = "load"] = [op |-> o, pc |-> "load", arg |-> a, rows |-> w]
        BY <4>2
      <4>5. [[op |-> o, pc |-> "load", arg |-> a, rows |-> w] EXCEPT !.arg = v] =
              [op |-> o, pc |-> "load", arg |-> v, rows |-> w]
        OBVIOUS
      <4> QED
        BY <3>2, <4>1, <4>2, <4>3, <4>4, <4>5
    <3>4. IsRequest(q) /\ FileOf(q.op) = "none"
      BY <1>1, <1>2, <2>1, <3>2 DEF IsRequest, PointsOf, Updates
    <3> QED
      BY <1>2, <1>3, <3>3, <3>4, ReadMoves
  <2> QED
    BY <2>2, <2>3
<1>7. CASE Tools(h)
  <2>1. p.op = "turn"
    BY <1>1, <1>2, <1>7 DEF Tools, Is, IsRequest, PointsOf, Updates
  <2>2. PICK rows : rows = secret
    OBVIOUS
  <2>3. PICK pc : pc = "profile"
    OBVIOUS
  <2>4. PICK q : q = [op |-> p.op, pc |-> pc, arg |-> p.arg, rows |-> rows]
    OBVIOUS
  <2>5. handler' = [handler EXCEPT ![h] = q]
    <3>1. handler' = [handler EXCEPT ![h] = [p EXCEPT !.pc = pc, !.rows = rows]]
      BY <1>1, <1>7, <2>2, <2>3 DEF Tools, Set
    <3>2. [p EXCEPT !.pc = pc, !.rows = rows] = [op |-> p.op, pc |-> pc, arg |-> p.arg, rows |-> rows]
      BY <1>1, MovedIs
    <3> QED
      BY <2>4, <3>1, <3>2
  <2>6. IsRequest(q) /\ FileOf(q.op) = "none"
    BY <1>1, <1>2, <2>1, <2>3, <2>4 DEF IsRequest, PointsOf, Updates
  <2> QED
    BY <1>2, <1>3, <2>5, <2>6, ReadMoves
<1>8. CASE LoadBundle(h) \/ LoadTools(h) \/ MissingSecrets(h)
  <2>1. PointsOf(p.op) = {"active", "load", "import", "required", "tools", "profile", "built"}
    BY <1>1, <1>2, <1>8 DEF LoadBundle, LoadTools, MissingSecrets, Is, PointsOf, Updates
  <2> QED
    BY <1>4, <1>5, <1>8, <2>1 DEF LoadBundle, LoadTools, MissingSecrets, Set
<1>9. CASE RoleSpec(h) \/ Profile(h) \/ Built(h)
  <2>1. {"profile", "built"} \subseteq PointsOf(p.op)
    BY <1>2 DEF PointsOf, Updates
  <2> QED
    BY <1>4, <1>5, <1>9, <2>1 DEF RoleSpec, Profile, Built, Set
<1> QED
  BY <1>6, <1>7, <1>8, <1>9

(* Every step of the requests and every deletion keeps the invariant.      *)
LEMMA FileInvNext == FileInv /\ [FilesNext]_fileVars => FileInv'
<1> SUFFICES ASSUME FileInv, [FilesNext]_fileVars PROVE FileInv'
  OBVIOUS
<1>1. CASE UNCHANGED fileVars
  <2>1. OnDisk' = OnDisk
    BY <1>1 DEF fileVars, OnDisk
  <2> QED
    BY <1>1, <2>1 DEF fileVars, FileInv, FileTypes, OneWriterEach, WritersProgress, QuietWritesHold,
                      File, Writing
<1>2. CASE DeleteTenant
  BY <1>2, DeleteKeeps
<1>3. ASSUME NEW h \in Requests, Asks(h) PROVE FileInv'
  <2>1. asked \in Nat
    BY DEF FileInv, FileTypes
  <2>2. ASSUME NEW op \in {"create", "rotate"}, Ask(h, op, asked + 2) PROVE FileInv'
    <3>1. PICK arg \in Nat \ {0} : arg = asked + 2
      BY <2>1
    <3>2. Ask(h, op, arg)
      BY <2>2, <3>1
    <3> QED
      BY <2>2, <3>2, AskKeeps DEF Ops
  <2>3. ASSUME NEW op \in {"clear_model", "enable", "disable", "uninstall", "turn", "role"},
               Ask(h, op, 0)
        PROVE  FileInv'
    BY <2>3, AskKeeps DEF Ops, Updates
  <2>4. ASSUME NEW op \in {"put", "drop", "set_model"}, NEW s \in Secrets, Ask(h, op, s)
        PROVE  FileInv'
    BY <2>4, AskKeeps DEF Ops
  <2>5. ASSUME NEW v \in Releases, Ask(h, "install", v) PROVE FileInv'
    BY <2>5, AskKeeps DEF Ops
  <2>6. CASE Ask(h, "configure", 1)
    BY <2>6, AskKeeps DEF Ops, Updates
  <2> QED
    BY <1>3, <2>2, <2>3, <2>4, <2>5, <2>6 DEF Asks
<1>4. ASSUME NEW h \in Requests,
             \/ Fail(h) \/ CheckAbsent(h) \/ CreateTenant(h) \/ RotateKey(h) \/ ReplyKey(h)
             \/ ReadSecrets(h) \/ SetSecret(h) \/ DeleteSecret(h) \/ SetModel(h) \/ ClearModel(h)
      PROVE  FileInv'
  BY <1>4, FailKeeps, CheckAbsentKeeps, CreateTenantKeeps, RotateKeyKeeps, ReplyKeyKeeps,
     ReadSecretsKeeps, SecretsKeep, ModelsKeep
<1>5. ASSUME NEW h \in Requests,
             \/ Clear(h) \/ Copy(h) \/ Record(h) \/ List(h)
             \/ UpdateNext(h) \/ WriteRecord(h) \/ RefuseConfig(h) \/ UninstallNext(h)
      PROVE  FileInv'
  BY <1>5, InstallStepsKeep, RecordKeeps, ListKeeps, UpdateNextKeeps, WriteRecordKeeps,
     RefuseConfigKeeps, UninstallNextKeeps
<1>6. ASSUME NEW h \in Requests,
             \/ Active(h) \/ LoadBundle(h) \/ LoadTools(h) \/ MissingSecrets(h)
             \/ RoleSpec(h) \/ Tools(h) \/ Profile(h) \/ Built(h)
      PROVE  FileInv'
  BY <1>6, TurnsKeep
<1> QED
  BY <1>1, <1>2, <1>3, <1>4, <1>5, <1>6 DEF FilesNext

(* tenants.py, installs.py: while the requests on one of a tenant's files  *)
(* come one after another, the file is what their answers say: also when   *)
(* the requests on the other files overlap, and turns read all of them.    *)
THEOREM AnswersHold == FilesSpec => []QuietWritesHold
<1>1. FileInv => QuietWritesHold
  BY DEF FileInv
<1> QED
  BY <1>1, FileInvInit, FileInvNext, PTL DEF FilesSpec

---------------------------------------------------------------------------
(* Visits.  The playground's folders: what the sweep can take from a       *)
(* session.                                                                *)
EarlyPoints  == {"idle", "sweep", "copy"}
OpeningPoints == EarlyPoints \cup {"stamp", "row", "open", "failed"}

(* A folder looks old while its time is not yet its own, or when its       *)
(* session is; a sweep that saw it then has been recorded as one that      *)
(* caught it, and only such a sweep makes it gone.                         *)
VisitTypes ==
  /\ opening \in [Visitors -> OpeningPoints]
  /\ folder \in [Visitors -> {"none", "part", "whole", "gone"}]
  /\ looksOld \subseteq Visitors /\ isOld \subseteq Visitors
  /\ caught \subseteq Visitors /\ seenOld \subseteq Visitors \X Visitors

AgeIsKnown ==
  \A d \in looksOld : opening[d] = "stamp" \/ d \in isOld \/ folder[d] = "gone"
OldIsOpen    == \A d \in isOld : opening[d] = "open"
CaughtIsLate == \A d \in caught : opening[d] \notin EarlyPoints
SweepsExcuse == \A s, d \in Visitors : <<s, d>> \in seenOld => d \in caught \cup isOld
GoneExcused  == \A d \in Visitors : folder[d] = "gone" => d \in caught \cup isOld
Filled ==
  \A d \in Visitors :
    opening[d] \in {"stamp", "row", "open"} => folder[d] \in {"whole", "gone"}

VisitInv ==
  /\ VisitTypes /\ AgeIsKnown /\ OldIsOpen /\ CaughtIsLate /\ SweepsExcuse
  /\ GoneExcused /\ Filled

(* A playground nobody has visited is in the invariant.                    *)
LEMMA VisitInvInit == VisitStart({}) => VisitInv
  BY DEF VisitStart, VisitInv, VisitTypes, AgeIsKnown, OldIsOpen, CaughtIsLate,
         SweepsExcuse, GoneExcused, Filled, OpeningPoints, EarlyPoints

(* Each step of a handler that opens a session, the sweep of another's     *)
(* folder included, keeps it.                                              *)
LEMMA OpenNextKeeps == VisitInv /\ OpenNext => VisitInv'
<1> SUFFICES ASSUME VisitInv, OpenNext PROVE VisitInv'
  OBVIOUS
<1> USE DEF VisitInv, VisitTypes, AgeIsKnown, OldIsOpen, CaughtIsLate,
            SweepsExcuse, GoneExcused, Filled, OpeningPoints, EarlyPoints
<1>1. ASSUME NEW s \in Visitors, Visit(s) PROVE VisitInv'
  BY <1>1 DEF Visit, OpeningStep
<1>2. ASSUME NEW s \in Visitors, MakeFolder(s) PROVE VisitInv'
  BY <1>2 DEF MakeFolder, OpeningStep
<1>3. ASSUME NEW s \in Visitors, CopyTree(s) PROVE VisitInv'
  BY <1>3 DEF CopyTree, OpeningStep
<1>4. ASSUME NEW s \in Visitors, Stamp(s) PROVE VisitInv'
  <2>1. CASE folder[s] = "gone"
    BY <1>4, <2>1 DEF Stamp, OpeningStep
  <2>2. CASE folder[s] # "gone"
    BY <1>4, <2>2 DEF Stamp, OpeningStep
  <2> QED BY <2>1, <2>2
<1>5. ASSUME NEW s \in Visitors, InsertSession(s) PROVE VisitInv'
  BY <1>5 DEF InsertSession, OpeningStep
<1>6. ASSUME NEW s \in Visitors, GrowOld(s) PROVE VisitInv'
  BY <1>6 DEF GrowOld
<1>7. ASSUME NEW s \in Visitors, NEW d \in Visitors, SeeOld(s, d)
      PROVE VisitInv'
  BY <1>7 DEF SeeOld
<1>8. ASSUME NEW s \in Visitors, NEW d \in Visitors, Remove(s, d)
      PROVE VisitInv'
  BY <1>8 DEF Remove
<1> QED
  BY <1>1, <1>2, <1>3, <1>4, <1>5, <1>6, <1>7, <1>8 DEF OpenNext

(* Messages, turns and the accounting do not touch it.                     *)
LEMMA VisitInvNext ==
  VisitInv /\ [OpenNext \/ SpendNext]_visitVars => VisitInv'
<1>1. SpendNext \/ UNCHANGED visitVars => UNCHANGED openVars
  BY DEF SpendNext, Midnight, Admit, ReadCursor, Refuse, Register, SetThread, StartTurn,
         StartAccount, TurnStep, AccountStep, Join, WaitOver, ReadEvents, ReadUsed,
         StoreUsed, visitVars
<1>2. VisitInv /\ UNCHANGED openVars => VisitInv'
  BY DEF VisitInv, VisitTypes, AgeIsKnown, OldIsOpen, CaughtIsLate, SweepsExcuse,
         GoneExcused, Filled, openVars
<1> QED
  BY <1>1, <1>2, OpenNextKeeps

(* workspace.py:108: the folder of a session less than a day old is swept  *)
(* only when another's sweep looked at it between copytree, which gives it *)
(* the time of its source, and the call that sets its own.                 *)
THEOREM LostFoldersWereCaught == VisitSpec => []LostOnlyToARace
<1>1. VisitInv => LostOnlyToARace
  BY DEF VisitInv, VisitTypes, GoneExcused, Filled, LostOnlyToARace, Lost, OpeningPoints,
         EarlyPoints
<1> QED
  BY <1>1, VisitInvInit, VisitInvNext, PTL DEF VisitSpec
---------------------------------------------------------------------------
(* Visits.  The playground's budget: what its accounting books.  A session *)
(* in which nobody was overtaken between the registering of a run and its  *)
(* start has one run at most that is not over, the one registered last: so *)
(* the accounting of a message, whose wait looks up the run of the moment, *)
(* has waited for its own run, or for one that could start only after it.  *)
(* That run ended behind the cursor, which was read before it was sent.    *)
(* What it books stays on the budget while no other accounting, which read *)
(* the budget before, writes it: those between read and write agree with   *)
(* the budget on every booking nobody overlapped.                          *)
Registered(m) == message[m].pc \in {"sending", "sent", "answered"}
Running(m) == turn[m] \in Unstarted \cup {"started", "logged", "finished"}
Concluded(m)   == turn[m] \in {"finished", "dead"}
Waited(m)  == account[m].pc \in {"events", "add", "store", "over"}
Billing(m) == account[m].pc \in {"add", "store"}
LogOf(m)   == log[Session(m)]
IsEndOf(e, m) == e.kind = "run_finished" /\ e.run = m
Excused(m) == m \in late \/ Session(m) \in rushed
Held(m)    == m \notin late \cup overlapped /\ Session(m) \notin rushed /\ Len(LogOf(m)) <= PageSize
Counted(m) == <<m, m>> \in budget.booked \cup past

LogEvent == [kind : {"user_message", "run_finished"}, run : Messages]
Posting  == [pc : {"idle", "refused", "cursor", "send", "sending", "sent", "answered"},
             session : Visitors \cup {NoRun}]
Bookings == SUBSET (Messages \X Messages)
Accounting == [pc : {"off", "join", "wait", "events", "add", "store", "over", "failed"},
               cursor : Nat, waits : Messages \cup {NoRun}, bill : SUBSET Nat, read : Bookings]
Budget == [day : Nat, booked : Bookings]

BillTypes ==
  /\ message \in [Messages -> Posting]
  /\ turn \in [Messages -> Unstarted \cup {"none", "started", "logged", "finished", "dead"}]
  /\ log \in [Visitors -> Seq(LogEvent)]
  /\ current \in [Visitors -> Messages \cup {NoRun}]
  /\ account \in [Messages -> Accounting]
  /\ budget \in Budget /\ today \in Nat

PostedSomewhere == \A m \in Messages : message[m].pc # "idle" => Session(m) \in Visitors
SentThenRun ==
  \A m \in Messages : /\ turn[m] # "none" <=> Registered(m)
                      /\ turn[m] \in Unstarted <=> message[m].pc = "sending"
                      /\ account[m].pc # "off" <=> message[m].pc = "answered"
RegisteredLast ==
  /\ \A m \in Messages : Running(m) => current[Session(m)] = m \/ Session(m) \in rushed
  /\ \A m \in Messages : Registered(m) => current[Session(m)] # NoRun
  /\ \A s \in Visitors : current[s] # NoRun => turn[current[s]] # "none" /\ Session(current[s]) = s
CursorWithin ==
  \A m \in Messages : IF message[m].pc = "idle" THEN account[m].cursor = 0
                      ELSE account[m].cursor <= Len(LogOf(m))
EndBehindCursor ==
  \A m \in Messages : Concluded(m) =>
    \E i \in DOMAIN LogOf(m) : account[m].cursor < i /\ IsEndOf(LogOf(m)[i], m)
WaitsWell ==
  \A m \in Messages : account[m].pc = "wait" =>
    account[m].waits \in Messages /\ (account[m].waits = m \/ turn[m] = "dead" \/ Excused(m))
WaitedOut  == \A m \in Messages : Waited(m) => Excused(m) \/ turn[m] = "dead"
BillInLog  ==
  \A m \in Messages : Billing(m) =>
    account[m].bill \subseteq DOMAIN LogOf(m) /\ (account[m].pc = "store" => account[m].bill # {})
BillHoldsRun ==
  \A m \in Messages : Billing(m) /\ Held(m) =>
    Counted(m) \/ \E i \in account[m].bill : LogOf(m)[i].run = m
ReadsAgree ==
  \A a \in Messages : account[a].pc = "store" =>
    \A m \in Messages \ overlapped : <<m, m>> \in account[a].read \cup past <=> Counted(m)

BookedAtTheEnd ==
  \A m \in Messages : account[m].pc = "over" /\ Held(m) => Counted(m)

BillInv ==
  /\ BillTypes /\ PostedSomewhere /\ SentThenRun /\ RegisteredLast /\ CursorWithin
  /\ EndBehindCursor /\ WaitsWell /\ WaitedOut /\ BillInLog /\ BillHoldsRun
  /\ ReadsAgree /\ BookedAtTheEnd

(* Before anything is sent.                                               *)
LEMMA BillInvInit == ASSUME NEW open, VisitStart(open) PROVE BillInv
<1> USE DEF VisitStart
<1>1. BillTypes
  BY DEF BillTypes, Posting, Accounting, NoAccount, Budget, Bookings
<1>2. PostedSomewhere /\ SentThenRun /\ RegisteredLast
  BY DEF PostedSomewhere, SentThenRun, RegisteredLast, Registered, Running, NoAccount, Unstarted
<1>3. CursorWithin /\ EndBehindCursor /\ WaitsWell /\ WaitedOut /\ BillInLog /\ BillHoldsRun
  BY DEF CursorWithin, EndBehindCursor, WaitsWell, WaitedOut, BillInLog, BillHoldsRun,
         Concluded, Waited, Billing, NoAccount
<1>4. ReadsAgree /\ BookedAtTheEnd
  BY DEF ReadsAgree, BookedAtTheEnd, NoAccount
<1> QED
  BY <1>1, <1>2, <1>3, <1>4 DEF BillInv

(* Who is registered stays so.                                             *)
LEMMA StillRegistered ==
  ASSUME BillInv, UNCHANGED <<current, rushed>>,
         \A n \in Messages : /\ Registered(n)' <=> Registered(n)
                             /\ Registered(n) => Session(n)' = Session(n)
                             /\ Running(n)' => Running(n)
                             /\ turn'[n] = "none" <=> turn[n] = "none"
  PROVE  RegisteredLast'
<1> USE DEF BillInv
<1>1. \A n \in Messages : Running(n) => Registered(n)
  BY DEF Running, SentThenRun, Unstarted
<1>2. \A v \in Visitors : current[v] # NoRun => current[v] \in Messages /\ Registered(current[v])
  BY DEF BillTypes, RegisteredLast, SentThenRun
<1> QED
  BY <1>1, <1>2 DEF RegisteredLast

(* The start of another day closes the bookings of the one before.         *)
LEMMA NothingForgotten ==
  ASSUME UsedToday
  PROVE  /\ past \subseteq past'
         /\ budget'.booked \cup past' = budget.booked \cup past
         /\ Booked \cup past' = budget.booked \cup past
<1>1. Booked \subseteq budget.booked
  BY DEF Booked
<1>2. budget'.booked = Booked /\ past' = past \cup (budget.booked \ Booked)
  BY DEF UsedToday
<1> QED
  BY <1>1, <1>2

(* Steps that leave the bills and the bookings alone, while the log grows. *)
LEMMA BillsStand ==
  ASSUME BillInv,
         \A n \in Messages : account'[n].pc \in {"add", "store", "over"} =>
           account'[n] = account[n] /\ Session(n)' = Session(n),
         UNCHANGED <<late, overlapped>>, rushed \subseteq rushed', past \subseteq past',
         budget'.booked \cup past' = budget.booked \cup past,
         \A v \in Visitors : /\ Len(log[v]) \in Nat /\ Len(log'[v]) \in Nat
                             /\ Len(log[v]) <= Len(log'[v])
                             /\ \A i \in DOMAIN log[v] :
                                  i \in DOMAIN log'[v] /\ log'[v][i] = log[v][i]
  PROVE  BillInLog' /\ BillHoldsRun' /\ ReadsAgree' /\ BookedAtTheEnd'
<1> USE DEF BillInv
<1>1. \A n \in Messages : Counted(n)' <=> Counted(n)
  BY DEF Counted
<1>2. \A n \in Messages : account'[n].pc \in {"add", "store", "over"} =>
        account'[n] = account[n] /\ Session(n)' = Session(n) /\ Session(n) \in Visitors
  BY DEF SentThenRun, PostedSomewhere
<1>3. \A n \in Messages :
        account'[n].pc \in {"add", "store", "over"} /\ Held(n)' => Held(n)
  <2> SUFFICES ASSUME NEW n \in Messages, account'[n].pc \in {"add", "store", "over"}, Held(n)'
               PROVE  Held(n)
    OBVIOUS
  <2>1. Session(n)' = Session(n) /\ Session(n) \in Visitors
    BY <1>2
  <2>2. Len(log'[Session(n)]) <= PageSize
    BY <2>1 DEF Held, LogOf
  <2>3. Len(log[Session(n)]) <= PageSize
    BY <2>1, <2>2, VisitAssumption
  <2> QED
    BY <2>1, <2>3 DEF Held, LogOf
<1>4. BillInLog'
  <2> SUFFICES ASSUME NEW n \in Messages, Billing(n)'
               PROVE  /\ account'[n].bill \subseteq DOMAIN log'[Session(n)']
                      /\ account'[n].pc = "store" => account'[n].bill # {}
    BY DEF BillInLog, LogOf
  <2>1. /\ account'[n] = account[n] /\ Session(n)' = Session(n) /\ Session(n) \in Visitors
        /\ Billing(n)
    BY <1>2 DEF Billing
  <2>2. /\ account[n].bill \subseteq DOMAIN log[Session(n)]
        /\ account[n].pc = "store" => account[n].bill # {}
    BY <2>1 DEF BillInLog, LogOf
  <2> QED
    BY <2>1, <2>2
<1>5. BillHoldsRun'
  <2> SUFFICES ASSUME NEW n \in Messages, Billing(n)', Held(n)', ~Counted(n)'
               PROVE  \E i \in account'[n].bill : log'[Session(n)'][i].run = n
    BY DEF BillHoldsRun, LogOf
  <2>1. /\ account'[n] = account[n] /\ Session(n)' = Session(n) /\ Session(n) \in Visitors
        /\ Billing(n) /\ Held(n)
    BY <1>2, <1>3 DEF Billing
  <2>2. PICK i \in account[n].bill : log[Session(n)][i].run = n
    BY <1>1, <2>1 DEF BillHoldsRun, LogOf
  <2>3. i \in DOMAIN log[Session(n)]
    BY <2>1 DEF BillInLog, LogOf
  <2> QED
    BY <2>1, <2>2, <2>3
<1>6. ReadsAgree'
  <2> SUFFICES ASSUME NEW n \in Messages, account'[n].pc = "store", NEW m \in Messages \ overlapped
               PROVE  <<m, m>> \in account'[n].read \cup past' <=> Counted(m)'
    BY DEF ReadsAgree
  <2>1. account'[n] = account[n]
    BY <1>2
  <2>2. <<m, m>> \in account[n].read \cup past <=> Counted(m)
    BY <2>1 DEF ReadsAgree
  <2> QED
    BY <1>1, <2>1, <2>2 DEF Counted
<1>7. BookedAtTheEnd'
  BY <1>1, <1>2, <1>3 DEF BookedAtTheEnd
<1> QED
  BY <1>4, <1>5, <1>6, <1>7

(* The log that stays as it is.                                            *)
LEMMA LogStands ==
  ASSUME BillInv, UNCHANGED log
  PROVE  \A v \in Visitors : /\ Len(log[v]) \in Nat /\ Len(log'[v]) \in Nat
                             /\ Len(log[v]) <= Len(log'[v])
                             /\ \A i \in DOMAIN log[v] :
                                  i \in DOMAIN log'[v] /\ log'[v][i] = log[v][i]
<1> SUFFICES ASSUME NEW v \in Visitors
             PROVE  /\ Len(log[v]) \in Nat /\ Len(log'[v]) \in Nat
                    /\ Len(log[v]) <= Len(log'[v])
                    /\ \A i \in DOMAIN log[v] :
                         i \in DOMAIN log'[v] /\ log'[v][i] = log[v][i]
  OBVIOUS
<1>1. log[v] \in Seq(LogEvent)
  BY DEF BillInv, BillTypes
<1> QED
  BY <1>1

(* A message is let in, or not.                                            *)
LEMMA AdmitKeeps ==
  ASSUME BillInv, NEW m \in Messages, NEW s \in Visitors, Admit(m, s)
  PROVE  BillInv'
<1> USE DEF BillInv
<1>1. /\ message[m].pc = "idle" /\ UsedToday
      /\ UNCHANGED <<log, current, rushed, turn, account, late, overlapped, today>>
  BY DEF Admit
<1>2. PICK pc \in {"refused", "cursor"} :
        message' = [message EXCEPT ![m] = [pc |-> pc, session |-> s]]
  BY DEF Admit, Put
<1>3. BillTypes'
  <2>1. budget' \in Budget
    BY <1>1 DEF BillTypes, Budget, Bookings, UsedToday, Booked
  <2>2. message' \in [Messages -> Posting]
    BY <1>2 DEF BillTypes, Posting
  <2> QED
    BY <1>1, <2>1, <2>2 DEF BillTypes
<1>4. /\ message'[m] = [pc |-> pc, session |-> s]
      /\ \A n \in Messages \ {m} : message'[n] = message[n]
  BY <1>2 DEF BillTypes
<1>5. turn[m] = "none" /\ account[m].pc = "off" /\ account[m].cursor = 0
  BY <1>1 DEF SentThenRun, Registered, CursorWithin, BillTypes, Accounting
<1>6. PostedSomewhere' /\ SentThenRun'
  BY <1>1, <1>4, <1>5 DEF PostedSomewhere, SentThenRun, Registered, Session, Unstarted
<1>7. RegisteredLast'
  <2>1. \A n \in Messages : /\ Registered(n)' <=> Registered(n)
                            /\ Registered(n) => Session(n)' = Session(n)
                            /\ Running(n)' => Running(n)
    BY <1>1, <1>4 DEF Registered, Session, Running
  <2> QED
    BY <1>1, <2>1, StillRegistered
<1>8. CursorWithin'
  <2>1. Len(log[s]) \in Nat
    BY DEF BillTypes
  <2> QED
    BY <1>1, <1>4, <1>5, <2>1 DEF CursorWithin, LogOf, Session
<1>9. EndBehindCursor' /\ WaitsWell' /\ WaitedOut'
  BY <1>1, <1>4, <1>5
     DEF EndBehindCursor, WaitsWell, WaitedOut, LogOf, Session, Concluded, Waited, IsEndOf, Excused
<1>10. BillInLog' /\ BillHoldsRun' /\ ReadsAgree' /\ BookedAtTheEnd'
  <2>1. \A n \in Messages : account'[n].pc \in {"add", "store", "over"} =>
          account'[n] = account[n] /\ Session(n)' = Session(n)
    BY <1>1, <1>4, <1>5 DEF Session
  <2> QED
    BY <1>1, <2>1, NothingForgotten, LogStands, BillsStand
<1> QED
  BY <1>3, <1>6, <1>7, <1>8, <1>9, <1>10

(* The cursor is read before the message is sent.                          *)
LEMMA ReadCursorKeeps ==
  ASSUME BillInv, NEW m \in Messages, ReadCursor(m)
  PROVE  BillInv'
<1> USE DEF BillInv
<1> DEFINE s == Session(m)
           cut == IF Len(log[s]) < PageSize THEN Len(log[s]) ELSE PageSize
<1>1. /\ message[m].pc = "cursor" /\ s \in Visitors
      /\ UNCHANGED <<log, current, rushed, turn, late, today, budget, past, overlapped>>
  BY DEF ReadCursor, PostedSomewhere
<1>2. Len(log[s]) \in Nat
  BY <1>1 DEF BillTypes
<1>3. cut \in Nat /\ cut <= Len(log[s])
  BY <1>2, VisitAssumption
<1>4. /\ message' = [message EXCEPT ![m] = [pc |-> "send", session |-> s]]
      /\ account' = [account EXCEPT ![m] = [account[m] EXCEPT !.cursor = cut]]
  BY DEF ReadCursor, Put, Acc
<1> HIDE DEF cut
<1>5. BillTypes'
  BY <1>1, <1>3, <1>4 DEF BillTypes, Posting, Accounting
<1>6. /\ message'[m] = [pc |-> "send", session |-> s]
      /\ account'[m] = [account[m] EXCEPT !.cursor = cut]
      /\ \A n \in Messages \ {m} : message'[n] = message[n] /\ account'[n] = account[n]
  BY <1>4 DEF BillTypes
<1>7. turn[m] = "none" /\ account[m].pc = "off"
  BY <1>1 DEF SentThenRun, Registered, BillTypes, Accounting
<1>8. account'[m].pc = "off" /\ account'[m].cursor = cut
  BY <1>6, <1>7 DEF BillTypes, Accounting
<1>9. \A n \in Messages : /\ Session(n)' = Session(n) /\ (Registered(n)' <=> Registered(n))
                          /\ (message[n].pc = "idle" <=> message'[n].pc = "idle")
                          /\ account'[n].pc = account[n].pc
                          /\ n # m => account'[n] = account[n]
  <2>1. \A n \in Messages : Session(n)' = Session(n)
    BY <1>6 DEF Session
  <2>2. message[m].pc = "cursor" /\ message'[m].pc = "send"
    BY <1>1, <1>6
  <2> QED
    BY <1>6, <1>7, <1>8, <2>1, <2>2 DEF Registered
<1>10. PostedSomewhere' /\ SentThenRun' /\ RegisteredLast'
  <2>1. PostedSomewhere'
    BY <1>9 DEF PostedSomewhere
  <2>2. SentThenRun'
    BY <1>1, <1>6, <1>7, <1>8, <1>9 DEF SentThenRun, Unstarted
  <2>3. RegisteredLast'
    BY <1>1, <1>9, StillRegistered DEF Running
  <2> QED
    BY <2>1, <2>2, <2>3
<1>11. CursorWithin'
  BY <1>1, <1>3, <1>8, <1>9 DEF CursorWithin, LogOf
<1>12. EndBehindCursor' /\ WaitsWell' /\ WaitedOut'
  BY <1>1, <1>7, <1>8, <1>9
     DEF EndBehindCursor, WaitsWell, WaitedOut, LogOf, Concluded, Waited, IsEndOf, Excused
<1>13. BillInLog' /\ BillHoldsRun' /\ ReadsAgree' /\ BookedAtTheEnd'
  BY <1>1, <1>8, <1>9, LogStands, BillsStand
<1> QED
  BY <1>5, <1>10, <1>11, <1>12, <1>13

(* A session with a live run refuses the message.                          *)
LEMMA RefuseKeeps ==
  ASSUME BillInv, NEW m \in Messages, Refuse(m)
  PROVE  BillInv'
<1> USE DEF BillInv
<1>1. /\ message[m].pc = "send" /\ Session(m) \in Visitors
      /\ message' = [message EXCEPT ![m] = [pc |-> "refused", session |-> Session(m)]]
      /\ UNCHANGED <<log, current, rushed, turn, account, late, today, budget, past, overlapped>>
  BY DEF Refuse, PostedSomewhere, Put, billVars
<1>2. /\ message'[m] = [pc |-> "refused", session |-> Session(m)]
      /\ \A n \in Messages \ {m} : message'[n] = message[n]
  BY <1>1 DEF BillTypes
<1>3. BillTypes'
  BY <1>1 DEF BillTypes, Posting
<1>4. \A n \in Messages : /\ Session(n)' = Session(n) /\ (Registered(n)' <=> Registered(n))
                          /\ (message[n].pc = "idle" <=> message'[n].pc = "idle")
  <2>1. \A n \in Messages : Session(n)' = Session(n)
    BY <1>2 DEF Session
  <2> QED
    BY <1>1, <1>2, <2>1 DEF Registered
<1>5. PostedSomewhere' /\ SentThenRun' /\ RegisteredLast'
  <2>1. PostedSomewhere'
    BY <1>4 DEF PostedSomewhere
  <2>2. SentThenRun'
    BY <1>1, <1>2, <1>4 DEF SentThenRun, Unstarted, Registered
  <2>3. RegisteredLast'
    BY <1>1, <1>4, StillRegistered DEF Running
  <2> QED
    BY <2>1, <2>2, <2>3
<1>6. CursorWithin' /\ EndBehindCursor' /\ WaitsWell' /\ WaitedOut'
  BY <1>1, <1>4 DEF CursorWithin, EndBehindCursor, WaitsWell, WaitedOut, LogOf, Concluded,
                    Waited, IsEndOf, Excused
<1>7. BillInLog' /\ BillHoldsRun' /\ ReadsAgree' /\ BookedAtTheEnd'
  BY <1>1, <1>4, LogStands, BillsStand
<1> QED
  BY <1>3, <1>5, <1>6, <1>7

(* A run is registered where none is left, or where one has not started:   *)
(* then the session has been rushed.                                       *)
LEMMA RegisterKeeps ==
  ASSUME BillInv, NEW m \in Messages, Register(m)
  PROVE  BillInv'
<1> USE DEF BillInv
<1>1. /\ message[m].pc = "send" /\ Session(m) \in Visitors /\ ~Alive(Session(m))
      /\ message' = [message EXCEPT ![m] = [pc |-> "sending", session |-> Session(m)]]
      /\ current' = [current EXCEPT ![Session(m)] = m]
      /\ turn' = [turn EXCEPT ![m] = "registered"]
      /\ UNCHANGED <<log, account, late, today, budget, past, overlapped>>
  BY DEF Register, PostedSomewhere, Put, billVars
<1>2. PICK s \in Visitors : s = Session(m)
  BY <1>1
<1>3. turn[m] = "none" /\ account[m].pc = "off" /\ message[m].session = s
  BY <1>1, <1>2 DEF SentThenRun, Registered, BillTypes, Accounting, Session
<1>4. /\ rushed \subseteq rushed'
      /\ current[s] # NoRun /\ turn[current[s]] \in Unstarted => s \in rushed'
  BY <1>2 DEF Register
<1>5. /\ message'[m] = [pc |-> "sending", session |-> s]
      /\ turn'[m] = "registered" /\ current'[s] = m
      /\ \A n \in Messages \ {m} : message'[n] = message[n] /\ turn'[n] = turn[n]
      /\ \A v \in Visitors \ {s} : current'[v] = current[v]
  BY <1>1, <1>2 DEF BillTypes
<1>6. BillTypes'
  <2>1. message' \in [Messages -> Posting]
    BY <1>1 DEF BillTypes, Posting
  <2>2. turn' \in [Messages -> Unstarted \cup {"none", "started", "logged", "finished", "dead"}]
    BY <1>1 DEF BillTypes, Unstarted
  <2> QED
    BY <1>1, <2>1, <2>2 DEF BillTypes
<1>7. \A n \in Messages : Running(n) /\ Session(n) = s => s \in rushed'
  <2> SUFFICES ASSUME NEW n \in Messages, Running(n), Session(n) = s, s \notin rushed PROVE s \in rushed'
    BY <1>4
  <2>1. current[s] = n
    BY DEF RegisteredLast
  <2>2. turn[n] \in Unstarted
    BY <1>1, <1>2, <2>1, NoRunAssumption DEF Alive, Running
  <2> QED
    BY <1>4, <2>1, <2>2, NoRunAssumption
<1>8. \A n \in Messages : Session(n)' = Session(n)
  BY <1>3, <1>5 DEF Session
<1>9. PostedSomewhere' /\ SentThenRun'
  <2>1. PostedSomewhere'
    BY <1>1, <1>5, <1>8 DEF PostedSomewhere
  <2>2. SentThenRun'
    BY <1>1, <1>3, <1>5 DEF SentThenRun, Registered, Unstarted
  <2> QED
    BY <2>1, <2>2
<1>10. \A n \in Messages \ {m} : Registered(n)' = Registered(n) /\ Running(n)' = Running(n)
  BY <1>5 DEF Registered, Running
<1>11. RegisteredLast'
  <2>1. \A n \in Messages : Running(n)' => current'[Session(n)'] = n \/ Session(n)' \in rushed'
    <3> SUFFICES ASSUME NEW n \in Messages, Running(n)', Session(n) \notin rushed'
                 PROVE  current'[Session(n)] = n
      BY <1>8
    <3>1. CASE n = m
      BY <1>2, <1>5, <3>1
    <3>2. CASE n # m
      <4>1. Running(n) /\ Registered(n)
        BY <1>10, <3>2 DEF Running, SentThenRun, Unstarted
      <4>2. current[Session(n)] = n /\ Session(n) \in Visitors
        BY <1>4, <4>1 DEF RegisteredLast, PostedSomewhere, Registered
      <4> QED
        BY <1>5, <1>7, <4>1, <4>2
    <3> QED
      BY <3>1, <3>2
  <2>2. \A n \in Messages : Registered(n)' => current'[Session(n)'] # NoRun
    <3> SUFFICES ASSUME NEW n \in Messages, Registered(n)' PROVE current'[Session(n)] # NoRun
      BY <1>8
    <3>1. CASE n = m
      BY <1>2, <1>5, <3>1, NoRunAssumption
    <3>2. CASE n # m
      <4>1. Registered(n) /\ Session(n) \in Visitors
        BY <1>10, <3>2 DEF PostedSomewhere, Registered
      <4> QED
        BY <1>5, <4>1, NoRunAssumption DEF RegisteredLast
    <3> QED
      BY <3>1, <3>2
  <2>3. \A v \in Visitors :
          current'[v] # NoRun => turn'[current'[v]] # "none" /\ message'[current'[v]].session = v
    <3> SUFFICES ASSUME NEW v \in Visitors, current'[v] # NoRun
                 PROVE  turn'[current'[v]] # "none" /\ message'[current'[v]].session = v
      OBVIOUS
    <3>1. CASE v = s
      BY <1>5, <3>1
    <3>2. CASE v # s
      <4>1. current'[v] = current[v] /\ current[v] \in Messages
        BY <1>5, <3>2 DEF BillTypes
      <4>2. turn[current[v]] # "none" /\ Session(current[v]) = v
        BY <4>1, NoRunAssumption DEF RegisteredLast
      <4>3. current[v] # m
        BY <1>3, <4>2
      <4> QED
        BY <1>5, <4>1, <4>2, <4>3 DEF Session
    <3> QED
      BY <3>1, <3>2
  <2> QED
    BY <2>1, <2>2, <2>3 DEF RegisteredLast, Session
<1>12. CursorWithin'
  BY <1>1, <1>3, <1>5, <1>8 DEF CursorWithin, LogOf
<1>13. EndBehindCursor' /\ WaitsWell' /\ WaitedOut'
  BY <1>1, <1>3, <1>4, <1>5, <1>8
     DEF EndBehindCursor, WaitsWell, WaitedOut, LogOf, Concluded, Waited, IsEndOf, Excused
<1>14. BillInLog' /\ BillHoldsRun' /\ ReadsAgree' /\ BookedAtTheEnd'
  BY <1>1, <1>4, <1>8, LogStands, BillsStand
<1> QED
  BY <1>6, <1>9, <1>11, <1>12, <1>13, <1>14

(* The thread is made, then started.                                       *)
LEMMA SetThreadKeeps ==
  ASSUME BillInv, NEW m \in Messages, SetThread(m)
  PROVE  BillInv'
<1> USE DEF BillInv
<1>1. /\ turn[m] = "registered" /\ turn' = [turn EXCEPT ![m] = "threaded"]
      /\ UNCHANGED <<log, current, rushed, message, account, late, today, budget, past, overlapped>>
  BY DEF SetThread, billVars
<1>2. turn'[m] = "threaded" /\ \A n \in Messages \ {m} : turn'[n] = turn[n]
  BY <1>1 DEF BillTypes
<1>3. \A n \in Messages : /\ Session(n)' = Session(n) /\ (Registered(n)' <=> Registered(n))
                          /\ (Running(n)' <=> Running(n)) /\ (Concluded(n)' <=> Concluded(n))
                          /\ (turn'[n] = "none" <=> turn[n] = "none")
                          /\ (turn'[n] = "dead" <=> turn[n] = "dead")
                          /\ (turn'[n] \in Unstarted <=> turn[n] \in Unstarted)
  BY <1>1, <1>2 DEF Session, Registered, Running, Concluded, Unstarted
<1>4. BillTypes'
  BY <1>1 DEF BillTypes, Unstarted
<1>5. PostedSomewhere' /\ SentThenRun' /\ RegisteredLast'
  <2>1. PostedSomewhere' /\ SentThenRun'
    BY <1>1, <1>3 DEF PostedSomewhere, SentThenRun
  <2> QED
    BY <1>1, <1>3, <2>1, StillRegistered
<1>6. CursorWithin' /\ EndBehindCursor' /\ WaitsWell' /\ WaitedOut'
  BY <1>1, <1>3 DEF CursorWithin, EndBehindCursor, WaitsWell, WaitedOut, LogOf, Waited,
                    IsEndOf, Excused
<1>7. BillInLog' /\ BillHoldsRun' /\ ReadsAgree' /\ BookedAtTheEnd'
  BY <1>1, <1>3, LogStands, BillsStand
<1> QED
  BY <1>4, <1>5, <1>6, <1>7

(* From here on another message is refused.                                *)
LEMMA StartTurnKeeps ==
  ASSUME BillInv, NEW m \in Messages, StartTurn(m)
  PROVE  BillInv'
<1> USE DEF BillInv
<1>1. /\ turn[m] = "threaded" /\ turn' = [turn EXCEPT ![m] = "started"]
      /\ message' = [message EXCEPT ![m] = [pc |-> "sent", session |-> Session(m)]]
      /\ UNCHANGED <<log, current, rushed, account, late, today, budget, past, overlapped>>
  BY DEF StartTurn, Put, billVars
<1>2. /\ turn'[m] = "started" /\ message'[m] = [pc |-> "sent", session |-> Session(m)]
      /\ \A n \in Messages \ {m} : turn'[n] = turn[n] /\ message'[n] = message[n]
  BY <1>1 DEF BillTypes
<1>3. message[m].pc = "sending" /\ Session(m) \in Visitors /\ account[m].pc = "off"
  BY <1>1 DEF SentThenRun, Unstarted, PostedSomewhere
<1>4. \A n \in Messages : Session(n)' = Session(n)
  BY <1>2 DEF Session
<1>5. \A n \in Messages : /\ (Registered(n)' <=> Registered(n))
                          /\ (Running(n)' <=> Running(n)) /\ (Concluded(n)' <=> Concluded(n))
                          /\ (turn'[n] = "none" <=> turn[n] = "none")
                          /\ (turn'[n] = "dead" <=> turn[n] = "dead")
                          /\ (message'[n].pc = "idle" <=> message[n].pc = "idle")
  BY <1>1, <1>2, <1>3 DEF Registered, Running, Concluded, Unstarted
<1>6. BillTypes'
  <2>1. message' \in [Messages -> Posting]
    BY <1>1, <1>3 DEF BillTypes, Posting
  <2>2. turn' \in [Messages -> Unstarted \cup {"none", "started", "logged", "finished", "dead"}]
    BY <1>1 DEF BillTypes
  <2> QED
    BY <1>1, <2>1, <2>2 DEF BillTypes
<1>7. PostedSomewhere' /\ SentThenRun' /\ RegisteredLast'
  <2>1. PostedSomewhere'
    BY <1>4, <1>5 DEF PostedSomewhere
  <2>2. SentThenRun'
    BY <1>1, <1>2, <1>3, <1>5 DEF SentThenRun, Unstarted
  <2> QED
    BY <1>1, <1>4, <1>5, <2>1, <2>2, StillRegistered
<1>8. CursorWithin' /\ EndBehindCursor' /\ WaitsWell' /\ WaitedOut'
  BY <1>1, <1>4, <1>5 DEF CursorWithin, EndBehindCursor, WaitsWell, WaitedOut, LogOf, Waited,
                          IsEndOf, Excused
<1>9. BillInLog' /\ BillHoldsRun' /\ ReadsAgree' /\ BookedAtTheEnd'
  BY <1>1, <1>4, LogStands, BillsStand
<1> QED
  BY <1>6, <1>7, <1>8, <1>9

(* The turn logs its events behind the cursor.                             *)
LEMMA TurnStepKeeps ==
  ASSUME BillInv, NEW m \in Messages, TurnStep(m)
  PROVE  BillInv'
<1> USE DEF BillInv
<1> DEFINE s == Session(m)
<1>1. /\ turn[m] # "none" /\ Registered(m) /\ turn[m] \notin Unstarted
      /\ UNCHANGED <<current, rushed, message, account, late, today, budget, past, overlapped>>
  BY DEF TurnStep, SentThenRun, billVars, Unstarted
<1>2. s \in Visitors /\ log[s] \in Seq(LogEvent)
  BY <1>1 DEF Registered, PostedSomewhere, BillTypes
<1>3. PICK after \in {"logged", "finished", "dead"} :
        /\ turn' = [turn EXCEPT ![m] = after]
        /\ Running(m) /\ after \notin Unstarted
        /\ (after = "dead") = (turn[m] = "finished")
        /\ IF after = "dead" THEN log' = log
           ELSE \E kind \in {"user_message", "run_finished"} :
                  /\ log' = [log EXCEPT ![s] = Append(@, [kind |-> kind, run |-> m])]
                  /\ (after = "finished") = (kind = "run_finished")
  BY DEF TurnStep, Append1, Running, Unstarted
<1>4. turn'[m] = after /\ \A n \in Messages \ {m} : turn'[n] = turn[n]
  BY <1>3 DEF BillTypes
<1>5. BillTypes'
  <2>1. turn' \in [Messages -> Unstarted \cup {"none", "started", "logged", "finished", "dead"}]
    BY <1>3 DEF BillTypes
  <2>2. log' \in [Visitors -> Seq(LogEvent)]
    <3>1. \A kind \in {"user_message", "run_finished"} :
            Append(log[s], [kind |-> kind, run |-> m]) \in Seq(LogEvent)
      BY <1>2 DEF LogEvent
    <3> QED
      BY <1>2, <1>3, <3>1 DEF BillTypes
  <2> QED
    BY <1>1, <2>1, <2>2 DEF BillTypes
<1>6. \A n \in Messages : Session(n)' = Session(n)
  BY <1>1 DEF Session
<1>7. \A v \in Visitors : /\ Len(log[v]) \in Nat /\ Len(log'[v]) \in Nat
                          /\ Len(log[v]) <= Len(log'[v])
                          /\ DOMAIN log[v] = 1 .. Len(log[v])
                          /\ DOMAIN log'[v] = 1 .. Len(log'[v])
                          /\ \A i \in DOMAIN log[v] : log'[v][i] = log[v][i]
  <2> SUFFICES ASSUME NEW v \in Visitors
               PROVE  /\ Len(log[v]) \in Nat /\ Len(log'[v]) \in Nat
                      /\ Len(log[v]) <= Len(log'[v])
                      /\ DOMAIN log[v] = 1 .. Len(log[v])
                      /\ DOMAIN log'[v] = 1 .. Len(log'[v])
                      /\ \A i \in DOMAIN log[v] : log'[v][i] = log[v][i]
    OBVIOUS
  <2>1. log[v] \in Seq(LogEvent)
    BY DEF BillTypes
  <2>2. CASE log'[v] = log[v]
    BY <2>1, <2>2
  <2>3. CASE \E e : log'[v] = Append(log[v], e)
    BY <2>1, <2>3
  <2>4. log'[v] = log[v] \/ \E e : log'[v] = Append(log[v], e)
    <3>1. CASE after = "dead" \/ v # s
      BY <1>2, <1>3, <3>1 DEF BillTypes
    <3>2. CASE after # "dead" /\ v = s
      <4>1. PICK kind \in {"user_message", "run_finished"} :
              log' = [log EXCEPT ![s] = Append(@, [kind |-> kind, run |-> m])]
        BY <1>3, <3>2
      <4>2. log'[s] = Append(log[s], [kind |-> kind, run |-> m])
        BY <1>2, <4>1 DEF BillTypes
      <4> QED
        BY <3>2, <4>2
    <3> QED
      BY <3>1, <3>2
  <2> QED
    BY <2>2, <2>3, <2>4
<1>8. PostedSomewhere' /\ SentThenRun'
  BY <1>1, <1>3, <1>4, <1>6 DEF PostedSomewhere, SentThenRun, Registered, Unstarted
<1>9. RegisteredLast'
  <2>1. \A n \in Messages : /\ Running(n)' => Running(n)
                            /\ Registered(n)' <=> Registered(n)
                            /\ turn'[n] = "none" <=> turn[n] = "none"
    BY <1>1, <1>3, <1>4 DEF Running, Registered
  <2> QED
    BY <1>1, <1>6, <2>1, StillRegistered
<1>10. CursorWithin'
  <2> SUFFICES ASSUME NEW n \in Messages, message[n].pc # "idle"
               PROVE  account[n].cursor <= Len(log'[Session(n)])
    BY <1>1, <1>6 DEF CursorWithin, LogOf
  <2>1. Session(n) \in Visitors /\ account[n].cursor <= Len(log[Session(n)])
    BY DEF CursorWithin, LogOf, PostedSomewhere
  <2>2. account[n].cursor \in Nat
    BY DEF BillTypes, Accounting
  <2> QED
    BY <1>7, <2>1, <2>2
<1>11. EndBehindCursor'
  <2> SUFFICES ASSUME NEW n \in Messages, Concluded(n)'
               PROVE  \E i \in DOMAIN log'[Session(n)] :
                        account[n].cursor < i /\ IsEndOf(log'[Session(n)][i], n)
    BY <1>1, <1>6 DEF EndBehindCursor, LogOf, IsEndOf
  <2>1. Session(n) \in Visitors
    BY <1>1, <1>4 DEF Concluded, SentThenRun, PostedSomewhere, Registered
  <2>2. CASE Concluded(n)
    <3>1. PICK i \in DOMAIN log[Session(n)] :
            account[n].cursor < i /\ IsEndOf(log[Session(n)][i], n)
      BY <2>2 DEF EndBehindCursor, LogOf
    <3>2. i \in DOMAIN log'[Session(n)] /\ log'[Session(n)][i] = log[Session(n)][i]
      BY <1>7, <2>1, <3>1
    <3> QED
      BY <3>1, <3>2
  <2>3. CASE ~Concluded(n)
    <3>1. n = m /\ after = "finished"
      BY <1>3, <1>4, <2>3 DEF Concluded
    <3>2. log'[s] = Append(log[s], [kind |-> "run_finished", run |-> m])
      BY <1>2, <1>3, <3>1 DEF BillTypes
    <3>3. account[m].cursor \in Nat /\ account[m].cursor <= Len(log[s])
      BY <1>1 DEF BillTypes, Accounting, CursorWithin, LogOf, Registered
    <3>4. /\ Len(log[s]) + 1 \in DOMAIN log'[s] /\ account[m].cursor < Len(log[s]) + 1
          /\ IsEndOf(log'[s][Len(log[s]) + 1], m)
      BY <1>2, <3>2, <3>3 DEF IsEndOf
    <3> QED
      BY <3>1, <3>4
  <2> QED
    BY <2>2, <2>3
<1>12. WaitsWell' /\ WaitedOut'
  <2>1. \A n \in Messages : turn[n] = "dead" => turn'[n] = "dead"
    BY <1>3, <1>4 DEF Running, Unstarted
  <2>2. \A n \in Messages : Excused(n)' <=> Excused(n)
    BY <1>1, <1>6 DEF Excused
  <2> QED
    BY <1>1, <2>1, <2>2 DEF WaitsWell, WaitedOut, Waited
<1>13. BillInLog' /\ BillHoldsRun' /\ ReadsAgree' /\ BookedAtTheEnd'
  <2>1. \A v \in Visitors : \A i \in DOMAIN log[v] :
          i \in DOMAIN log'[v] /\ log'[v][i] = log[v][i]
    BY <1>7
  <2> QED
    BY <1>1, <1>6, <1>7, <2>1, BillsStand
<1> QED
  BY <1>5, <1>8, <1>9, <1>10, <1>11, <1>12, <1>13

(* What the accounting of one message may do without breaking the others'. *)
LEMMA AccountMoves ==
  ASSUME BillInv, NEW m \in Messages, NEW a \in Accounting,
         account[m].pc # "off", a.pc # "off", a.cursor = account[m].cursor,
         account' = [account EXCEPT ![m] = a],
         UNCHANGED <<log, current, rushed, message, turn, today>>,
         late \subseteq late', overlapped \subseteq overlapped', budget' \in Budget,
         \A n \in Messages \ overlapped' : Counted(n) => Counted(n)',
         ReadsAgree',
         a.pc = "wait" => a.waits \in Messages /\ (a.waits = m \/ turn[m] = "dead" \/ Excused(m)),
         a.pc \in {"events", "add", "store", "over"} =>
           (m \in late' \/ Session(m) \in rushed \/ turn[m] = "dead"),
         a.pc \in {"add", "store"} => a.bill \subseteq DOMAIN LogOf(m),
         a.pc = "store" => a.bill # {},
         a.pc \in {"add", "store", "over"} /\ Held(m)' =>
           Counted(m)' \/ (a.pc # "over" /\ \E i \in a.bill : LogOf(m)[i].run = m)
  PROVE  BillInv'
<1> USE DEF BillInv
<1>1. account'[m] = a /\ \A n \in Messages \ {m} : account'[n] = account[n]
  BY DEF BillTypes
<1>2. \A n \in Messages : /\ Session(n)' = Session(n) /\ LogOf(n)' = LogOf(n)
                          /\ account'[n].cursor = account[n].cursor
                          /\ (account'[n].pc = "off" <=> account[n].pc = "off")
                          /\ (Registered(n)' <=> Registered(n)) /\ (Concluded(n)' <=> Concluded(n))
                          /\ (Running(n)' <=> Running(n)) /\ (Excused(n) => Excused(n)')
                          /\ (Held(n)' => Held(n) /\ n \notin overlapped')
  BY <1>1 DEF Session, LogOf, Registered, Concluded, Running, Excused, Held
<1>3. BillTypes'
  BY DEF BillTypes
<1>4. PostedSomewhere' /\ SentThenRun' /\ RegisteredLast'
  <2>1. PostedSomewhere' /\ SentThenRun'
    BY <1>2 DEF PostedSomewhere, SentThenRun
  <2> QED
    BY <1>2, <2>1, StillRegistered
<1>5. CursorWithin' /\ EndBehindCursor'
  BY <1>2 DEF CursorWithin, EndBehindCursor, IsEndOf
<1>6. WaitsWell' /\ WaitedOut'
  <2>1. m \in late' \/ Session(m) \in rushed <=> Excused(m)'
    BY <1>2 DEF Excused
  <2> QED
    BY <1>1, <1>2, <2>1 DEF WaitsWell, WaitedOut, Waited
<1>7. BillInLog'
  BY <1>1, <1>2 DEF BillInLog, Billing
<1>8. BillHoldsRun'
  <2> SUFFICES ASSUME NEW n \in Messages, Billing(n)', Held(n)', ~Counted(n)'
               PROVE  \E i \in account'[n].bill : LogOf(n)[i].run = n
    BY <1>2 DEF BillHoldsRun
  <2>1. CASE n = m
    BY <1>1, <2>1 DEF Billing
  <2>2. CASE n # m
    <3>1. account'[n] = account[n] /\ Billing(n) /\ Held(n) /\ ~Counted(n)
      BY <1>1, <1>2, <2>2 DEF Billing
    <3> QED
      BY <3>1 DEF BillHoldsRun
  <2> QED
    BY <2>1, <2>2
<1>9. BookedAtTheEnd'
  BY <1>1, <1>2 DEF BookedAtTheEnd
<1> QED
  BY <1>3, <1>4, <1>5, <1>6, <1>7, <1>8, <1>9

(* Steps of an accounting that do not read or write the budget.            *)
LEMMA BudgetStands ==
  ASSUME BillInv, NEW m \in Messages, NEW a \in Accounting, a.pc # "store",
         account' = [account EXCEPT ![m] = a], UNCHANGED <<budget, past, overlapped>>
  PROVE  ReadsAgree' /\ budget' \in Budget /\ \A n \in Messages : Counted(n)' <=> Counted(n)
<1>1. \A n \in Messages : account'[n].pc = "store" => account'[n] = account[n]
  BY DEF BillInv, BillTypes
<1>2. \A n \in Messages : Counted(n)' <=> Counted(n)
  BY DEF Counted
<1> QED
  BY <1>1, <1>2 DEF BillInv, BillTypes, ReadsAgree

(* The wait looks up a run that is the message's or began after its end,   *)
(* when the session was not rushed: a run with no thread yet is another's. *)
LEMMA JoinKeeps == ASSUME BillInv, NEW m \in Messages, Join(m) PROVE BillInv'
<1> USE DEF BillInv
<1>1. /\ account[m].pc = "join" /\ account[m] \in Accounting
      /\ UNCHANGED <<log, current, rushed, message, turn, late, today, budget, past, overlapped>>
  BY DEF Join, BillTypes, runVars
<1>2. /\ Registered(m) /\ turn[m] # "none" /\ turn[m] \notin Unstarted
      /\ Session(m) \in Visitors
  BY <1>1 DEF SentThenRun, Registered, PostedSomewhere
<1>3. PICK x \in Messages : x = current[Session(m)]
  BY <1>2 DEF RegisteredLast, BillTypes
<1>4. x = m \/ turn[m] = "dead" \/ Excused(m)
  BY <1>2, <1>3 DEF RegisteredLast, Running, BillTypes, Excused
<1>5. \/ turn[x] = "registered" /\ Acc(m, [account[m] EXCEPT !.pc = "events"])
      \/ turn[x] = "threaded" /\ Acc(m, [account[m] EXCEPT !.pc = "failed"])
      \/ Acc(m, [account[m] EXCEPT !.pc = "wait", !.waits = x])
  BY <1>3 DEF Join
<1>6. CASE turn[x] = "registered" /\ Acc(m, [account[m] EXCEPT !.pc = "events"])
  <2>1. PICK a \in Accounting : a = [account[m] EXCEPT !.pc = "events"]
    BY <1>1 DEF Accounting
  <2>2. a.pc = "events" /\ a.cursor = account[m].cursor
    BY <1>1, <2>1 DEF Accounting
  <2>3. account' = [account EXCEPT ![m] = a]
    BY <1>6, <2>1 DEF Acc
  <2>4. m \in late' \/ Session(m) \in rushed \/ turn[m] = "dead"
    BY <1>1, <1>2, <1>4, <1>6 DEF Unstarted, Excused
  <2> QED
    BY <1>1, <2>2, <2>3, <2>4, BudgetStands, AccountMoves
<1>7. CASE Acc(m, [account[m] EXCEPT !.pc = "failed"])
  <2>1. PICK a \in Accounting : a = [account[m] EXCEPT !.pc = "failed"]
    BY <1>1 DEF Accounting
  <2>2. a.pc = "failed" /\ a.cursor = account[m].cursor
    BY <1>1, <2>1 DEF Accounting
  <2>3. account' = [account EXCEPT ![m] = a]
    BY <1>7, <2>1 DEF Acc
  <2> QED
    BY <1>1, <2>2, <2>3, BudgetStands, AccountMoves
<1>8. CASE Acc(m, [account[m] EXCEPT !.pc = "wait", !.waits = x])
  <2>1. PICK a \in Accounting : a = [account[m] EXCEPT !.pc = "wait", !.waits = x]
    BY <1>1 DEF Accounting
  <2>2. a.pc = "wait" /\ a.waits = x /\ a.cursor = account[m].cursor
    BY <1>1, <2>1 DEF Accounting
  <2>3. account' = [account EXCEPT ![m] = a]
    BY <1>8, <2>1 DEF Acc
  <2> QED
    BY <1>1, <1>4, <2>2, <2>3, BudgetStands, AccountMoves
<1> QED
  BY <1>5, <1>6, <1>7, <1>8

(* The wait ends with the thread, or after 300 s.                          *)
LEMMA WaitOverKeeps ==
  ASSUME BillInv, NEW m \in Messages, NEW timeout \in BOOLEAN, WaitOver(m, timeout)
  PROVE  BillInv'
<1> USE DEF BillInv
<1>1. account[m].pc = "wait" /\ account[m] \in Accounting
  BY DEF WaitOver, BillTypes
<1>2. late \subseteq late' /\ (m \in late' \/ Session(m) \in rushed \/ turn[m] = "dead")
  BY <1>1 DEF WaitOver, WaitsWell, Excused
<1>3. PICK a \in Accounting : a = [account[m] EXCEPT !.pc = "events"]
  BY <1>1 DEF Accounting
<1>4. a.pc = "events" /\ a.cursor = account[m].cursor
  BY <1>1, <1>3 DEF Accounting
<1>5. account' = [account EXCEPT ![m] = a]
  BY <1>3 DEF WaitOver, Acc
<1>6. UNCHANGED <<log, current, rushed, message, turn, today, budget, past, overlapped>>
  BY DEF WaitOver, runVars
<1> QED
  BY <1>1, <1>2, <1>4, <1>5, <1>6, BudgetStands, AccountMoves

(* The page that add_usage reads holds the message's run, when the log is  *)
(* no longer than a page.                                                  *)
LEMMA ReadEventsKeeps == ASSUME BillInv, NEW m \in Messages, ReadEvents(m) PROVE BillInv'
<1> USE DEF BillInv
<1> DEFINE s == Session(m)
           n == account[m].cursor
<1>1. account[m].pc = "events" /\ account[m] \in Accounting
  BY DEF ReadEvents, BillTypes
<1>2. Session(m) \in Visitors /\ log[Session(m)] \in Seq(LogEvent) /\ n \in Nat
  BY <1>1 DEF SentThenRun, PostedSomewhere, BillTypes, Accounting
<1>3. m \in late \/ Session(m) \in rushed \/ turn[m] = "dead"
  BY <1>1 DEF WaitedOut, Waited, Excused
<1>4. PICK bill \in SUBSET Nat : bill = FinishedIn(s, PageAfter(s, n))
  <2>1. DOMAIN log[Session(m)] \subseteq Nat
    BY <1>2
  <2> QED
    BY <2>1 DEF FinishedIn, PageAfter
<1>5. bill \subseteq DOMAIN LogOf(m)
  BY <1>4 DEF FinishedIn, PageAfter, LogOf
<1>6. ASSUME Held(m)
      PROVE  \E i \in bill : LogOf(m)[i].run = m
  <2>1. PICK i \in DOMAIN LogOf(m) : n < i /\ IsEndOf(LogOf(m)[i], m)
    BY <1>3, <1>6 DEF EndBehindCursor, Concluded, Held
  <2>2. i <= n + PageSize
    BY <1>2, <1>6, <2>1, VisitAssumption DEF LogOf, Held
  <2>3. i \in bill
    BY <1>4, <2>1, <2>2 DEF FinishedIn, PageAfter, LogOf, IsEndOf
  <2> QED
    BY <2>1, <2>3 DEF IsEndOf
<1>7. PICK a \in Accounting : a = [account[m] EXCEPT !.pc = "add", !.bill = bill]
  BY <1>1 DEF Accounting
<1>8. a.pc = "add" /\ a.bill = bill /\ a.cursor = account[m].cursor
  BY <1>1, <1>7 DEF Accounting
<1>9. account' = [account EXCEPT ![m] = a]
  BY <1>4, <1>7 DEF ReadEvents, Acc
<1>10. UNCHANGED <<log, current, rushed, message, turn, late, today, budget, past, overlapped>>
  BY DEF ReadEvents, runVars
<1>11. Held(m)' => Held(m)
  BY <1>10 DEF Held, LogOf, Session
<1> QED
  BY <1>1, <1>3, <1>5, <1>6, <1>8, <1>9, <1>10, <1>11, BudgetStands, AccountMoves

(* used += tokens: what was read agrees with the budget.                   *)
LEMMA ReadUsedKeeps == ASSUME BillInv, NEW m \in Messages, ReadUsed(m) PROVE BillInv'
<1> USE DEF BillInv
<1>1. account[m].pc = "add" /\ account[m] \in Accounting
  BY DEF ReadUsed, BillTypes
<1>2. /\ m \in late \/ Session(m) \in rushed \/ turn[m] = "dead"
      /\ account[m].bill \subseteq DOMAIN LogOf(m)
      /\ Held(m) => Counted(m) \/ \E i \in account[m].bill : LogOf(m)[i].run = m
  BY <1>1 DEF WaitedOut, Waited, BillInLog, BillHoldsRun, Billing, Excused
<1>3. UNCHANGED <<log, current, rushed, message, turn, late, today, overlapped>>
  BY DEF ReadUsed, runVars
<1>4. Held(m)' => Held(m)
  BY <1>3 DEF Held, LogOf, Session
<1>5. CASE account[m].bill = {}
  <2>1. PICK a \in Accounting : a = [account[m] EXCEPT !.pc = "over"]
    BY <1>1 DEF Accounting
  <2>2. a.pc = "over" /\ a.cursor = account[m].cursor
    BY <1>1, <2>1 DEF Accounting
  <2>3. account' = [account EXCEPT ![m] = a] /\ UNCHANGED <<budget, past>>
    BY <1>5, <2>1 DEF ReadUsed, Acc
  <2>4. ReadsAgree' /\ budget' \in Budget /\ \A n \in Messages : Counted(n)' <=> Counted(n)
    BY <1>3, <2>2, <2>3, BudgetStands
  <2>5. Held(m)' => Counted(m)'
    BY <1>2, <1>4, <1>5, <2>4
  <2> QED
    BY <1>1, <1>2, <1>3, <2>2, <2>3, <2>4, <2>5, AccountMoves
<1>6. CASE account[m].bill # {}
  <2>1. UsedToday /\ Acc(m, [account[m] EXCEPT !.pc = "store", !.read = Booked])
    BY <1>6 DEF ReadUsed
  <2>2. PICK u \in Bookings : u = Booked
    BY DEF Booked, BillTypes, Budget, Bookings
  <2>3. PICK a \in Accounting : a = [account[m] EXCEPT !.pc = "store", !.read = u]
    BY <1>1 DEF Accounting
  <2>4. a.pc = "store" /\ a.cursor = account[m].cursor /\ a.bill = account[m].bill /\ a.read = u
    BY <1>1, <2>3 DEF Accounting
  <2>5. account' = [account EXCEPT ![m] = a]
    BY <2>1, <2>2, <2>3 DEF Acc
  <2>6. account'[m] = a /\ \A n \in Messages \ {m} : account'[n] = account[n]
    BY <2>5 DEF BillTypes
  <2>7. /\ past \subseteq past' /\ budget'.booked \cup past' = budget.booked \cup past
        /\ u \cup past' = budget.booked \cup past
    BY <2>1, <2>2, NothingForgotten
  <2>8. budget' \in Budget
    BY <2>1, <2>2 DEF UsedToday, Budget, BillTypes
  <2>9. \A n \in Messages : Counted(n)' <=> Counted(n)
    BY <2>7 DEF Counted
  <2>10. ReadsAgree'
    <3> SUFFICES ASSUME NEW n \in Messages, account'[n].pc = "store", NEW k \in Messages \ overlapped
                 PROVE  <<k, k>> \in account'[n].read \cup past' <=> Counted(k)
      BY <1>3, <2>9 DEF ReadsAgree
    <3>1. CASE n = m
      BY <2>4, <2>6, <2>7, <3>1 DEF Counted
    <3>2. CASE n # m
      <4>1. account'[n] = account[n]
        BY <2>6, <3>2
      <4>2. <<k, k>> \in account[n].read \cup past <=> Counted(k)
        BY <4>1 DEF ReadsAgree
      <4> QED
        BY <2>7, <4>1, <4>2 DEF Counted
    <3> QED
      BY <3>1, <3>2
  <2>11. Held(m)' => Counted(m)' \/ \E i \in a.bill : LogOf(m)[i].run = m
    BY <1>2, <1>4, <2>4, <2>9
  <2>12. m \in late' \/ Session(m) \in rushed \/ turn[m] = "dead"
    BY <1>2, <1>3
  <2>13. a.bill # {} /\ a.bill \subseteq DOMAIN LogOf(m)
    BY <1>2, <1>6, <2>4
  <2> QED
    BY <1>1, <1>3, <2>4, <2>5, <2>8, <2>9, <2>10, <2>11, <2>12, <2>13, AccountMoves
<1> QED
  BY <1>5, <1>6

(* The write books the first finished run of the page that is left, and    *)
(* loses nothing that was booked with no other accounting in between.      *)
LEMMA StoreUsedKeeps == ASSUME BillInv, NEW m \in Messages, StoreUsed(m) PROVE BillInv'
<1> USE DEF BillInv
<1>1. account[m].pc = "store" /\ account[m] \in Accounting
  BY DEF StoreUsed, BillTypes
<1>2. /\ m \in late \/ Session(m) \in rushed \/ turn[m] = "dead"
      /\ account[m].bill \subseteq DOMAIN LogOf(m)
      /\ Held(m) => Counted(m) \/ \E i \in account[m].bill : LogOf(m)[i].run = m
      /\ LogOf(m) \in Seq(LogEvent)
  BY <1>1 DEF WaitedOut, Waited, BillInLog, BillHoldsRun, Billing, Excused, BillTypes, LogOf,
              SentThenRun, PostedSomewhere
<1>3. PICK k \in account[m].bill : k = First(account[m].bill)
  <2>1. account[m].bill # {} /\ account[m].bill \subseteq Nat
    BY <1>1 DEF BillInLog, Billing, Accounting
  <2>2. \E x \in account[m].bill : \A y \in account[m].bill : x <= y
    BY <2>1, LeastMember
  <2> QED
    BY <2>1, <2>2 DEF First
<1>4. UNCHANGED <<log, current, rushed, message, turn, late, today, past>>
  BY DEF StoreUsed, runVars
<1>5. PICK r \in Messages : r = LogOf(m)[k].run
  <2>1. LogOf(m)[k] \in LogEvent
    BY <1>2, <1>3
  <2> QED
    BY <2>1 DEF LogEvent
<1>6. /\ budget' = [budget EXCEPT !.booked = account[m].read \cup {<<m, r>>}]
      /\ account' = [account EXCEPT ![m] =
                       [account[m] EXCEPT !.pc = "add", !.bill = @ \ {k}, !.read = {}]]
  BY <1>3, <1>5 DEF StoreUsed, LogOf, Acc
<1>7. PICK a \in Accounting :
        a = [account[m] EXCEPT !.pc = "add", !.bill = @ \ {k}, !.read = {}]
  BY <1>1 DEF Accounting, Bookings
<1>8. a.pc = "add" /\ a.cursor = account[m].cursor /\ a.bill = account[m].bill \ {k}
  BY <1>1, <1>7 DEF Accounting
<1>9. account' = [account EXCEPT ![m] = a]
  BY <1>6, <1>7
<1>10. budget' \in Budget /\ budget'.booked = account[m].read \cup {<<m, r>>}
  <2>1. account[m].read \cup {<<m, r>>} \in Bookings
    BY <1>1 DEF Accounting, Bookings
  <2> QED
    BY <1>6, <2>1 DEF BillTypes, Budget
<1>11. /\ overlapped \subseteq overlapped'
       /\ \A n \in Messages \ {m} : account[n].pc = "store" => m \in overlapped'
  BY DEF StoreUsed
<1>12. \A n \in Messages \ overlapped' :
         Counted(n) => <<n, n>> \in account[m].read \cup past
  BY <1>1, <1>11 DEF ReadsAgree
<1>13. \A n \in Messages \ overlapped' : Counted(n) => Counted(n)'
  BY <1>4, <1>10, <1>12 DEF Counted
<1>14. ReadsAgree'
  <2> SUFFICES ASSUME NEW n \in Messages, account'[n].pc = "store", NEW j \in Messages \ overlapped'
               PROVE  <<j, j>> \in account'[n].read \cup past <=> Counted(j)'
    BY <1>4 DEF ReadsAgree
  <2>1. account'[m] = a /\ \A q \in Messages \ {m} : account'[q] = account[q]
    BY <1>9 DEF BillTypes
  <2>2. n # m /\ account'[n] = account[n] /\ j # m /\ j \notin overlapped
    BY <1>8, <1>11, <2>1
  <2>3. /\ <<j, j>> \in account[n].read \cup past <=> Counted(j)
        /\ <<j, j>> \in account[m].read \cup past <=> Counted(j)
    BY <1>1, <2>2 DEF ReadsAgree
  <2>4. Counted(j)' <=> <<j, j>> \in account[m].read \cup past
    BY <1>4, <1>10, <2>2 DEF Counted
  <2> QED
    BY <2>2, <2>3, <2>4
<1>15. Held(m)' => Counted(m)' \/ \E i \in a.bill : LogOf(m)[i].run = m
  <2> SUFFICES ASSUME Held(m)', ~Counted(m)' PROVE \E i \in a.bill : LogOf(m)[i].run = m
    OBVIOUS
  <2>1. Held(m) /\ m \notin overlapped'
    BY <1>4, <1>11 DEF Held, LogOf, Session
  <2>2. PICK i \in account[m].bill : LogOf(m)[i].run = m
    BY <1>2, <1>13, <2>1
  <2>3. r # m
    BY <1>10 DEF Counted
  <2>4. i # k
    BY <1>5, <2>2, <2>3
  <2> QED
    BY <1>8, <2>2, <2>4
<1>16. m \in late' \/ Session(m) \in rushed \/ turn[m] = "dead"
  BY <1>2, <1>4
<1>17. a.bill \subseteq DOMAIN LogOf(m) /\ late \subseteq late'
  BY <1>2, <1>4, <1>8
<1> QED
  BY <1>1, <1>4, <1>8, <1>9, <1>10, <1>11, <1>13, <1>14, <1>15, <1>16, <1>17, AccountMoves

(* The accounting starts when its message has been sent, and the day goes  *)
(* on.                                                                     *)
LEMMA StartAccountKeeps == ASSUME BillInv, NEW m \in Messages, StartAccount(m) PROVE BillInv'
<1> USE DEF BillInv
<1> DEFINE s == Session(m)
<1>1. /\ message[m].pc = "sent" /\ account[m] \in Accounting
      /\ UNCHANGED <<log, current, rushed, turn, late, today, budget, past, overlapped>>
  BY DEF StartAccount, BillTypes
<1>2. s \in Visitors /\ account[m].pc = "off" /\ turn[m] # "none"
  BY <1>1 DEF PostedSomewhere, SentThenRun, Registered
<1>3. PICK v \in Visitors : v = s
  BY <1>2
<1>4. PICK a \in Accounting : a = [account[m] EXCEPT !.pc = "join"]
  BY <1>1 DEF Accounting
<1>5. a.pc = "join" /\ a.cursor = account[m].cursor
  BY <1>1, <1>4 DEF Accounting
<1>6. /\ account' = [account EXCEPT ![m] = a]
      /\ message' = [message EXCEPT ![m] = [pc |-> "answered", session |-> v]]
  BY <1>3, <1>4 DEF StartAccount, Acc, Put
<1>7. /\ account'[m] = a /\ message'[m] = [pc |-> "answered", session |-> v]
      /\ \A n \in Messages \ {m} : account'[n] = account[n] /\ message'[n] = message[n]
  BY <1>6 DEF BillTypes
<1>8. \A n \in Messages : Session(n)' = Session(n)
  BY <1>3, <1>7 DEF Session
<1>9. \A n \in Messages : /\ Registered(n)' <=> Registered(n)
                          /\ message'[n].pc = "idle" <=> message[n].pc = "idle"
                          /\ message'[n].pc = "sending" <=> message[n].pc = "sending"
                          /\ account'[n].cursor = account[n].cursor
  BY <1>1, <1>5, <1>7 DEF Registered
<1>10. BillTypes'
  BY <1>1, <1>6 DEF BillTypes, Posting
<1>11. PostedSomewhere' /\ SentThenRun' /\ RegisteredLast'
  <2>1. PostedSomewhere'
    BY <1>8, <1>9 DEF PostedSomewhere
  <2>2. SentThenRun'
    BY <1>1, <1>2, <1>5, <1>7, <1>9 DEF SentThenRun
  <2> QED
    BY <1>1, <1>8, <1>9, <2>1, <2>2, StillRegistered DEF Running
<1>12. CursorWithin' /\ EndBehindCursor'
  BY <1>1, <1>8, <1>9 DEF CursorWithin, EndBehindCursor, IsEndOf, LogOf, Concluded
<1>13. WaitsWell' /\ WaitedOut'
  BY <1>1, <1>5, <1>7, <1>8 DEF WaitsWell, WaitedOut, Waited, Excused
<1>14. BillInLog' /\ BillHoldsRun' /\ ReadsAgree' /\ BookedAtTheEnd'
  BY <1>1, <1>5, <1>7, <1>8, LogStands, BillsStand
<1> QED
  BY <1>10, <1>11, <1>12, <1>13, <1>14

(* Nothing of this happens while sessions open, nor at midnight, when no   *)
(* account is forgotten.                                                   *)
LEMMA BillInvSame ==
  ASSUME BillInv, today' \in Nat,
         UNCHANGED <<log, current, rushed, message, turn, account, late, budget, past, overlapped>>
  PROVE  BillInv'
<1> USE DEF BillInv
<1>1. BillTypes' /\ PostedSomewhere' /\ SentThenRun' /\ RegisteredLast'
  BY DEF BillTypes, PostedSomewhere, SentThenRun, RegisteredLast, Session, Registered, Running
<1>2. CursorWithin' /\ EndBehindCursor' /\ WaitsWell' /\ WaitedOut'
  BY DEF CursorWithin, EndBehindCursor, WaitsWell, WaitedOut, Session, LogOf, IsEndOf,
         Concluded, Waited, Excused
<1>3. BillInLog' /\ BillHoldsRun' /\ ReadsAgree' /\ BookedAtTheEnd'
  BY LogStands, BillsStand DEF Session
<1> QED
  BY <1>1, <1>2, <1>3

(* Every step of the playground keeps the invariant.                       *)
LEMMA BillInvNext == BillInv /\ [OpenNext \/ SpendNext]_visitVars => BillInv'
<1> SUFFICES ASSUME BillInv, [OpenNext \/ SpendNext]_visitVars PROVE BillInv'
  OBVIOUS
<1>1. CASE OpenNext \/ UNCHANGED visitVars
  <2>1. UNCHANGED spendVars
    BY <1>1 DEF OpenNext, visitVars, Visit, MakeFolder, CopyTree, Stamp, InsertSession,
                GrowOld, SeeOld, Remove
  <2> QED
    BY <2>1, BillInvSame DEF spendVars, runVars, billVars, BillInv, BillTypes
<1>2. CASE SpendNext
  <2>1. CASE Midnight
    BY <2>1, BillInvSame DEF Midnight, runVars, BillInv, BillTypes
  <2>2. ASSUME NEW m \in Messages,
               \/ \E s \in Visitors : Admit(m, s)
               \/ ReadCursor(m) \/ Refuse(m) \/ Register(m) \/ SetThread(m) \/ StartTurn(m)
               \/ StartAccount(m) \/ TurnStep(m)
        PROVE  BillInv'
    BY <2>2, AdmitKeeps, ReadCursorKeeps, RefuseKeeps, RegisterKeeps, SetThreadKeeps,
       StartTurnKeeps, StartAccountKeeps, TurnStepKeeps
  <2>3. ASSUME NEW m \in Messages, AccountStep(m) \/ WaitOver(m, TRUE)
        PROVE  BillInv'
    BY <2>3, JoinKeeps, WaitOverKeeps, ReadEventsKeeps, ReadUsedKeeps, StoreUsedKeeps
       DEF AccountStep
  <2> QED
    BY <1>2, <2>1, <2>2, <2>3 DEF SpendNext
<1> QED
  BY <1>1, <1>2

(* playground.py:311-320: with the cursor read before the message is sent, *)
(* each message's run is on the budget of its day by the time its          *)
(* accounting is over, also when other messages of the session overtake    *)
(* it: unless the run takes longer than 300 s, the log is longer than a    *)
(* page, the session was rushed between the registering of a run and its   *)
(* start (local.py:222-231), or another accounting stood between its read  *)
(* and its write of the budget (playground.py:203).                        *)
THEOREM FinishedRunsGetCounted == VisitSpec => []FinishedRunsAreCounted
<1>1. VisitStart({}) => BillInv
  BY BillInvInit
<1>2. BillInv => FinishedRunsAreCounted
  BY DEF BillInv, BookedAtTheEnd, FinishedRunsAreCounted, Held, Counted, LogOf
<1> QED
  BY <1>1, <1>2, BillInvNext, PTL DEF VisitSpec
---------------------------------------------------------------------------
(* SkillRegistry.  Two writes never have the same time, so an mtime says   *)
(* which file it was read off: a cached skill whose mtime is that of       *)
(* skill.toml was made of that skill.toml, and of the prompt of that       *)
(* moment.                                                                 *)
FileWritten == [at : Nat, by : Installers \cup {User}]

Skill   == [toml : FileWritten, prompt : FileWritten, mtime : Nat, torn : BOOLEAN]
Reading == [at : {"idle", "check", "legacy", "manifest", "prompt", "store", "done"},
            loader : {"none", "legacy", "manifest"}, mtime : Nat, toml : FileWritten,
            prompt : FileWritten, begun : Nat, got : Skill]

SkillTypes ==
  /\ files \in [Names -> FileWritten] /\ clock \in Nat
  /\ cached \in Skill /\ reading \in [Readers -> Reading]

TimesDiffer ==
  /\ \A f \in Names : files[f].at <= clock
  /\ \A f, g \in Names : f # g /\ files[f].at = files[g].at => files[f].at = 0

(* A time that was the legacy file's, and one that was another file's.     *)
OfLegacy(t) == 0 < t /\ t <= clock /\ files["toml"].at # t /\ files["prompt"].at # t
OfFolder(t) == 0 < t /\ t <= clock /\ files["md"].at # t

MadeOfLegacy(s) ==
  OfLegacy(s.mtime) /\ (s.mtime = files["md"].at => s.prompt = files["md"])
MadeOfFolder(s) ==
  /\ OfFolder(s.mtime)
  /\ s.mtime = files["toml"].at =>
       \/ s.torn
       \/ s.toml = files["toml"]
            /\ (s.prompt = files["prompt"] \/ files["prompt"].at > files["toml"].at)

CachedIsMade == cached.mtime > 0 => MadeOfLegacy(cached) \/ MadeOfFolder(cached)

(* What a thread holds while nothing has been written since it began.      *)
SoFar(q) ==
  LET still == q.begun = clock
  IN /\ q.begun <= clock
     /\ q.at = "check" => q.loader \in {"legacy", "manifest"}
     /\ q.at \in {"manifest", "prompt", "store"} => q.loader = "manifest"
     /\ q.at = "legacy" => q.loader = "legacy"
     /\ q.at \in {"check", "legacy"} /\ q.loader = "legacy" =>
          OfLegacy(q.mtime) /\ (still => q.mtime = files["md"].at)
     /\ q.loader = "manifest" /\ q.at # "done" => files["toml"].at > 0
     /\ q.at = "check" /\ q.loader = "manifest" /\ still => q.mtime = files["toml"].at
     /\ q.at \in {"prompt", "store"} /\ still => q.toml = files["toml"]
     /\ q.at = "store" /\ still => q.prompt = files["prompt"]

(* What it returns is what StaleOnlyByPrompt says.                         *)
Served(q) ==
  q.at = "done" /\ q.begun = clock =>
    /\ q.loader = "manifest" =>
         \/ q.got.toml = files["toml"] /\ q.got.prompt = files["prompt"]
         \/ files["prompt"].at > files["toml"].at \/ q.got.torn
    /\ q.loader = "legacy" => q.got.prompt = files["md"]

ReadSoFar == \A r \in Readers : SoFar(reading[r]) /\ Served(reading[r])

SkillInv == SkillTypes /\ TimesDiffer /\ CachedIsMade /\ ReadSoFar

(* The types the steps below need.                                         *)
LEMMA FilesTyped ==
  ASSUME SkillTypes
  PROVE  /\ "toml" \in Names /\ "prompt" \in Names /\ "md" \in Names
         /\ \A f \in Names : files[f] \in FileWritten /\ files[f].at \in Nat
         /\ NoFile \in FileWritten /\ NoSkill \in Skill
  BY DEF SkillTypes, Names, FileWritten, NoFile, NoSkill, Skill

(* Before there is a skill.                                                *)
LEMMA SkillInvInit == SkillsInit => SkillInv
<1> SUFFICES ASSUME SkillsInit PROVE SkillInv
  OBVIOUS
<1> USE DEF SkillsInit
<1>1. Idle \in Reading /\ NoFile \in FileWritten /\ NoSkill \in Skill
  BY DEF Idle, Reading, NoFile, FileWritten, NoSkill, Skill
<1>2. SkillTypes
  BY <1>1 DEF SkillTypes
<1>3. TimesDiffer /\ CachedIsMade
  BY DEF TimesDiffer, CachedIsMade, NoFile, NoSkill
<1>4. \A r \in Readers : SoFar(reading[r]) /\ Served(reading[r])
  BY DEF SoFar, Served, Idle
<1> QED
  BY <1>2, <1>3, <1>4 DEF SkillInv, ReadSoFar

(* A write is newer than every time that was read: what is cached is no    *)
(* longer of that file, and no get() is quiet.                             *)
LEMMA WriteKeeps ==
  ASSUME SkillInv, NEW f \in Names, NEW who \in Installers \cup {User},
         WriteFile(f, who), UNCHANGED <<cached, reading>>
  PROVE  SkillInv'
<1> USE DEF SkillInv
<1>1. /\ clock \in Nat /\ clock' = clock + 1
      /\ files' = [files EXCEPT ![f] = [at |-> clock + 1, by |-> who]]
  BY DEF WriteFile, SkillTypes
<1>2. files'[f] = [at |-> clock + 1, by |-> who] /\ \A g \in Names \ {f} : files'[g] = files[g]
  BY <1>1 DEF SkillTypes
<1>3. \A g \in Names : /\ files[g].at \in Nat /\ files[g].at <= clock
                       /\ files'[g].at = IF g = f THEN clock + 1 ELSE files[g].at
  BY <1>2, FilesTyped DEF TimesDiffer
<1>4. "toml" \in Names /\ "prompt" \in Names /\ "md" \in Names
  BY DEF Names
<1>5. SkillTypes'
  BY <1>1 DEF SkillTypes, FileWritten
<1>6. TimesDiffer'
  BY <1>1, <1>3 DEF TimesDiffer
<1>7. \A t \in Nat : /\ OfLegacy(t) => OfLegacy(t)'
                     /\ OfFolder(t) => OfFolder(t)'
  BY <1>1, <1>3, <1>4 DEF OfLegacy, OfFolder
<1>8. CachedIsMade'
  <2> SUFFICES ASSUME cached.mtime > 0
               PROVE  MadeOfLegacy(cached)' \/ MadeOfFolder(cached)'
    BY DEF CachedIsMade
  <2>1. cached.mtime \in Nat
    BY DEF SkillTypes, Skill
  <2>2. CASE MadeOfLegacy(cached)
    <3>1. OfLegacy(cached.mtime) /\ OfLegacy(cached.mtime)'
      BY <1>7, <2>1, <2>2 DEF MadeOfLegacy
    <3>2. cached.mtime = files'["md"].at => f # "md"
      BY <1>1, <1>3, <1>4, <2>1, <3>1 DEF OfLegacy
    <3>3. cached.mtime = files'["md"].at => cached.prompt = files'["md"]
      BY <1>2, <1>4, <2>2, <3>2 DEF MadeOfLegacy
    <3> QED
      BY <3>1, <3>3 DEF MadeOfLegacy
  <2>3. CASE MadeOfFolder(cached)
    <3>1. OfFolder(cached.mtime) /\ OfFolder(cached.mtime)'
      BY <1>7, <2>1, <2>3 DEF MadeOfFolder
    <3>2. ASSUME cached.mtime = files'["toml"].at
          PROVE  \/ cached.torn
                 \/ /\ cached.toml = files'["toml"]
                    /\ \/ cached.prompt = files'["prompt"]
                       \/ files'["prompt"].at > files'["toml"].at
      <4>1. f # "toml" /\ files'["toml"] = files["toml"]
        BY <1>1, <1>2, <1>3, <1>4, <2>1, <3>1, <3>2 DEF OfFolder
      <4>2. CASE f = "prompt"
        BY <1>1, <1>3, <1>4, <2>3, <3>2, <4>1, <4>2 DEF MadeOfFolder
      <4>3. CASE f # "prompt"
        BY <1>2, <1>4, <2>3, <3>2, <4>1, <4>3 DEF MadeOfFolder
      <4> QED
        BY <4>2, <4>3
    <3> QED
      BY <3>1, <3>2 DEF MadeOfFolder
  <2> QED
    BY <2>2, <2>3 DEF CachedIsMade
<1>9. \A r \in Readers : SoFar(reading[r])' /\ Served(reading[r])'
  <2> SUFFICES ASSUME NEW r \in Readers PROVE SoFar(reading[r])' /\ Served(reading[r])'
    OBVIOUS
  <2>1. PICK q \in Reading : q = reading[r]
    BY DEF SkillTypes
  <2>2. q.begun \in Nat /\ q.mtime \in Nat
    BY DEF Reading
  <2>3. SoFar(q) /\ q.begun <= clock /\ q.begun # clock'
    BY <1>1, <2>1, <2>2 DEF ReadSoFar, SoFar
  <2>4. SoFar(q)'
    <3>1. OfLegacy(q.mtime) => OfLegacy(q.mtime)'
      BY <1>7, <2>2
    <3>2. files["toml"].at > 0 => files'["toml"].at > 0
      BY <1>1, <1>3, <1>4
    <3>3. q.begun <= clock'
      BY <1>1, <2>2, <2>3
    <3> QED
      BY <2>3, <3>1, <3>2, <3>3 DEF SoFar
  <2>5. Served(q)'
    BY <2>3 DEF Served
  <2> QED
    BY <2>1, <2>4, <2>5
<1> QED
  BY <1>5, <1>6, <1>8, <1>9 DEF ReadSoFar

(* What one thread may do without breaking the others' reading.            *)
LEMMA ReaderMoves ==
  ASSUME SkillInv, NEW r \in Readers, NEW q \in Reading,
         reading' = [reading EXCEPT ![r] = q], UNCHANGED <<files, clock>>,
         cached' \in Skill, CachedIsMade', SoFar(q), Served(q)
  PROVE  SkillInv'
<1> USE DEF SkillInv
<1>1. reading'[r] = q /\ \A x \in Readers \ {r} : reading'[x] = reading[x]
  BY DEF SkillTypes
<1>2. SkillTypes' /\ TimesDiffer'
  BY DEF SkillTypes, TimesDiffer
<1>3. SoFar(q)' /\ Served(q)'
  BY DEF SoFar, Served, OfLegacy
<1>4. \A x \in Readers : SoFar(reading[x])' /\ Served(reading[x])'
  <2> SUFFICES ASSUME NEW x \in Readers PROVE SoFar(reading[x])' /\ Served(reading[x])'
    OBVIOUS
  <2>1. CASE x = r
    BY <1>1, <1>3, <2>1 DEF SoFar, Served, OfLegacy
  <2>2. CASE x # r
    BY <1>1, <2>2 DEF ReadSoFar, SoFar, Served, OfLegacy
  <2> QED
    BY <2>1, <2>2
<1> QED
  BY <1>2, <1>4 DEF ReadSoFar

(* get() looks at the folder's file, or at the legacy one.                 *)
LEMMA LookKeeps == ASSUME SkillInv, NEW r \in Readers, Look(r) PROVE SkillInv'
<1> USE DEF SkillInv
<1>1. UNCHANGED <<files, clock, cached>> /\ clock \in Nat
  BY DEF Look, SkillTypes
<1>2. cached' \in Skill /\ CachedIsMade'
  BY <1>1 DEF SkillTypes, CachedIsMade, MadeOfLegacy, MadeOfFolder, OfLegacy, OfFolder
<1>3. Idle \in Reading /\ Idle = [at |-> "idle", loader |-> "none", mtime |-> 0,
        toml |-> NoFile, prompt |-> NoFile, begun |-> 0, got |-> NoSkill]
  BY FilesTyped DEF Idle, Reading
<1>4. /\ files["toml"].at \in Nat /\ files["prompt"].at \in Nat /\ files["md"].at \in Nat
      /\ files["md"].at <= clock
      /\ files["md"].at > 0 =>
           files["toml"].at # files["md"].at /\ files["prompt"].at # files["md"].at
  BY FilesTyped DEF TimesDiffer
<1>5. CASE Has("toml")
  <2>1. PICK q \in Reading :
          q = [Idle EXCEPT !.at = "check", !.loader = "manifest",
                 !.mtime = files["toml"].at, !.begun = clock]
    BY <1>1, <1>3, <1>4 DEF Reading
  <2>2. /\ q.at = "check" /\ q.loader = "manifest" /\ q.begun = clock
        /\ q.mtime = files["toml"].at
    BY <1>3, <2>1
  <2>3. SoFar(q) /\ Served(q)
    BY <1>1, <1>5, <2>2 DEF SoFar, Served, Has
  <2>4. reading' = [reading EXCEPT ![r] = q]
    BY <1>5, <2>1 DEF Look, Reads
  <2> QED
    BY <1>1, <1>2, <2>3, <2>4, ReaderMoves
<1>6. CASE ~Has("toml") /\ Has("md")
  <2>1. PICK q \in Reading :
          q = [Idle EXCEPT !.at = "check", !.loader = "legacy",
                 !.mtime = files["md"].at, !.begun = clock]
    BY <1>1, <1>3, <1>4 DEF Reading
  <2>2. /\ q.at = "check" /\ q.loader = "legacy" /\ q.begun = clock
        /\ q.mtime = files["md"].at
    BY <1>3, <2>1
  <2>3. SoFar(q) /\ Served(q)
    BY <1>1, <1>4, <1>6, <2>2 DEF SoFar, Served, Has, OfLegacy
  <2>4. reading' = [reading EXCEPT ![r] = q]
    BY <1>6, <2>1 DEF Look, Reads
  <2> QED
    BY <1>1, <1>2, <2>3, <2>4, ReaderMoves
<1>7. CASE ~Has("toml") /\ ~Has("md")
  <2>1. PICK q \in Reading : q = [Idle EXCEPT !.at = "done", !.begun = clock]
    BY <1>1, <1>3 DEF Reading
  <2>2. q.at = "done" /\ q.loader = "none" /\ q.begun = clock
    BY <1>3, <2>1
  <2>3. SoFar(q) /\ Served(q)
    BY <1>1, <2>2 DEF SoFar, Served
  <2>4. reading' = [reading EXCEPT ![r] = q]
    BY <1>7, <2>1 DEF Look, Reads
  <2> QED
    BY <1>1, <1>2, <2>3, <2>4, ReaderMoves
<1> QED
  BY <1>5, <1>6, <1>7

(* What a thread returns.                                                  *)
LEMMA ReturnKeeps ==
  ASSUME SkillInv, NEW r \in Readers, NEW s \in Skill, Returns(r, s),
         UNCHANGED <<files, clock>>, cached' \in Skill, CachedIsMade',
         reading[r].begun = clock =>
           /\ reading[r].loader = "manifest" =>
                \/ s.toml = files["toml"] /\ s.prompt = files["prompt"]
                \/ files["prompt"].at > files["toml"].at \/ s.torn
           /\ reading[r].loader = "legacy" => s.prompt = files["md"]
  PROVE  SkillInv'
<1> USE DEF SkillInv
<1>1. reading[r] \in Reading /\ SoFar(reading[r]) /\ clock \in Nat
  BY DEF SkillTypes, ReadSoFar
<1>2. Idle \in Reading /\ Idle = [at |-> "idle", loader |-> "none", mtime |-> 0,
        toml |-> NoFile, prompt |-> NoFile, begun |-> 0, got |-> NoSkill]
  BY FilesTyped DEF Idle, Reading
<1>3. PICK q \in Reading :
        q = [Idle EXCEPT !.at = "done", !.got = s, !.loader = reading[r].loader,
                         !.begun = reading[r].begun]
  BY <1>1, <1>2 DEF Reading
<1>4. q.at = "done" /\ q.got = s /\ q.loader = reading[r].loader /\ q.begun = reading[r].begun
  BY <1>2, <1>3
<1>5. SoFar(q) /\ Served(q)
  BY <1>1, <1>4 DEF SoFar, Served
<1>6. reading' = [reading EXCEPT ![r] = q]
  BY <1>3 DEF Returns, Reads
<1> QED
  BY <1>5, <1>6, ReaderMoves

(* The cached skill is served when its mtime is that of the file, which is *)
(* of the other format's file never.                                       *)
LEMMA CheckKeeps == ASSUME SkillInv, NEW r \in Readers, Check(r) PROVE SkillInv'
<1> USE DEF SkillInv
<1>1. UNCHANGED <<files, clock, cached>> /\ clock \in Nat /\ cached \in Skill
  BY DEF Check, SkillTypes
<1>2. cached' \in Skill /\ CachedIsMade'
  BY <1>1 DEF CachedIsMade, MadeOfLegacy, MadeOfFolder, OfLegacy, OfFolder
<1>3. /\ reading[r] \in Reading /\ SoFar(reading[r]) /\ reading[r].at = "check"
      /\ reading[r].loader \in {"legacy", "manifest"}
  BY DEF SkillTypes, ReadSoFar, Check, At, SoFar
<1>4. CASE Hit(r)
  <2>1. Returns(r, cached)
    BY <1>4 DEF Check
  <2>2. PICK s \in Skill : s = cached
    BY <1>1
  <2>3. cached.mtime > 0 /\ cached.mtime = reading[r].mtime
    BY <1>4 DEF Hit
  <2>4. MadeOfLegacy(cached) \/ MadeOfFolder(cached)
    BY <2>3 DEF CachedIsMade
  <2>5. ASSUME reading[r].begun = clock
        PROVE  /\ reading[r].loader = "manifest" =>
                    \/ s.toml = files["toml"] /\ s.prompt = files["prompt"]
                    \/ files["prompt"].at > files["toml"].at \/ s.torn
               /\ reading[r].loader = "legacy" => s.prompt = files["md"]
    <3>1. CASE reading[r].loader = "manifest"
      <4>1. cached.mtime = files["toml"].at
        BY <1>3, <2>3, <2>5, <3>1 DEF SoFar
      <4>2. MadeOfFolder(cached)
        BY <2>4, <4>1 DEF MadeOfLegacy, OfLegacy
      <4> QED
        BY <2>2, <3>1, <4>1, <4>2 DEF MadeOfFolder
    <3>2. CASE reading[r].loader = "legacy"
      <4>1. cached.mtime = files["md"].at
        BY <1>3, <2>3, <2>5, <3>2 DEF SoFar
      <4>2. MadeOfLegacy(cached)
        BY <2>4, <4>1 DEF MadeOfFolder, OfFolder
      <4> QED
        BY <2>2, <3>2, <4>1, <4>2 DEF MadeOfLegacy
    <3> QED
      BY <1>3, <3>1, <3>2
  <2>6. Returns(r, s)
    BY <2>1, <2>2
  <2> QED
    BY <1>1, <1>2, <2>5, <2>6, ReturnKeeps
<1>5. CASE ~Hit(r)
  <2>1. PICK q \in Reading : q = [reading[r] EXCEPT !.at = reading[r].loader]
    BY <1>3 DEF Reading
  <2>2. /\ q.at = reading[r].loader /\ q.loader = reading[r].loader
        /\ q.begun = reading[r].begun /\ q.mtime = reading[r].mtime
    BY <1>3, <2>1 DEF Reading
  <2>3. SoFar(q) /\ Served(q)
    BY <1>3, <2>2 DEF SoFar, Served
  <2>4. reading' = [reading EXCEPT ![r] = q]
    BY <1>5, <2>1 DEF Check, Reads
  <2> QED
    BY <1>1, <1>2, <2>3, <2>4, ReaderMoves
<1> QED
  BY <1>4, <1>5

(* The legacy file is read whole, with the time it had before.             *)
LEMMA LoadLegacyKeeps == ASSUME SkillInv, NEW r \in Readers, LoadLegacy(r) PROVE SkillInv'
<1> USE DEF SkillInv
<1>1. /\ UNCHANGED <<files, clock>> /\ reading[r] \in Reading /\ SoFar(reading[r])
      /\ reading[r].at = "legacy" /\ reading[r].loader = "legacy"
  BY DEF LoadLegacy, SkillTypes, ReadSoFar, At, SoFar
<1>2. PICK s \in Skill : s = [NoSkill EXCEPT !.prompt = files["md"], !.mtime = reading[r].mtime]
  BY <1>1, FilesTyped DEF Skill, Reading
<1>3. s.prompt = files["md"] /\ s.mtime = reading[r].mtime
  BY <1>2 DEF NoSkill
<1>4. cached' = s /\ Returns(r, s)
  BY <1>2 DEF LoadLegacy
<1>5. CachedIsMade'
  <2>1. OfLegacy(s.mtime)
    BY <1>1, <1>3 DEF SoFar
  <2>2. MadeOfLegacy(cached)'
    BY <1>1, <1>3, <1>4, <2>1 DEF MadeOfLegacy, OfLegacy
  <2> QED
    BY <2>2 DEF CachedIsMade
<1> QED
  BY <1>1, <1>3, <1>4, <1>5, ReturnKeeps

(* skill.toml is read, then the prompt.                                    *)
LEMMA LoadFolderKeeps ==
  ASSUME SkillInv, NEW r \in Readers, LoadManifest(r) \/ LoadPrompt(r)
  PROVE  SkillInv'
<1> USE DEF SkillInv
<1>1. /\ UNCHANGED <<files, clock, cached>> /\ reading[r] \in Reading /\ SoFar(reading[r])
  BY DEF LoadManifest, LoadPrompt, SkillTypes, ReadSoFar
<1>2. cached' \in Skill /\ CachedIsMade'
  BY <1>1 DEF SkillTypes, CachedIsMade, MadeOfLegacy, MadeOfFolder, OfLegacy, OfFolder
<1>3. CASE LoadManifest(r)
  <2>1. PICK q \in Reading : q = [reading[r] EXCEPT !.at = "prompt", !.toml = files["toml"]]
    BY <1>1, FilesTyped DEF Reading
  <2>2. /\ q.at = "prompt" /\ q.loader = reading[r].loader /\ q.toml = files["toml"]
        /\ q.begun = reading[r].begun /\ reading[r].at = "manifest"
    BY <1>1, <1>3, <2>1 DEF Reading, LoadManifest, At
  <2>3. SoFar(q) /\ Served(q)
    BY <1>1, <2>2 DEF SoFar, Served
  <2>4. reading' = [reading EXCEPT ![r] = q]
    BY <1>3, <2>1 DEF LoadManifest, Reads
  <2> QED
    BY <1>1, <1>2, <2>3, <2>4, ReaderMoves
<1>4. CASE LoadPrompt(r)
  <2>1. PICK q \in Reading : q = [reading[r] EXCEPT !.at = "store", !.prompt = files["prompt"]]
    BY <1>1, FilesTyped DEF Reading
  <2>2. /\ q.at = "store" /\ q.loader = reading[r].loader /\ q.toml = reading[r].toml
        /\ q.prompt = files["prompt"] /\ q.begun = reading[r].begun /\ reading[r].at = "prompt"
    BY <1>1, <1>4, <2>1 DEF Reading, LoadPrompt, At
  <2>3. SoFar(q) /\ Served(q)
    BY <1>1, <2>2 DEF SoFar, Served
  <2>4. reading' = [reading EXCEPT ![r] = q]
    BY <1>4, <2>1 DEF LoadPrompt, Reads
  <2> QED
    BY <1>1, <1>2, <2>3, <2>4, ReaderMoves
<1> QED
  BY <1>3, <1>4

(* What is stored has the newer of the two times; when that is the time of *)
(* skill.toml, the prompt is the one of the moment.                        *)
LEMMA StoreKeeps == ASSUME SkillInv, NEW r \in Readers, Store(r) PROVE SkillInv'
<1> USE DEF SkillInv
<1> DEFINE isTorn == reading[r].toml # files["toml"] \/ reading[r].prompt # files["prompt"]
<1>1. /\ UNCHANGED <<files, clock>> /\ reading[r] \in Reading /\ SoFar(reading[r])
      /\ reading[r].at = "store" /\ reading[r].loader = "manifest" /\ files["toml"].at > 0
  BY DEF Store, SkillTypes, ReadSoFar, At, SoFar
<1>2. /\ files["toml"].at \in Nat /\ files["prompt"].at \in Nat /\ files["md"].at \in Nat
      /\ files["toml"].at <= clock /\ files["prompt"].at <= clock
      /\ files["md"].at > 0 =>
           files["toml"].at # files["md"].at /\ files["prompt"].at # files["md"].at
  BY FilesTyped DEF TimesDiffer
<1>3. Newest \in Nat /\ OfFolder(Newest)
  BY <1>1, <1>2 DEF Newest, OfFolder
<1>4. PICK torn \in BOOLEAN : torn = isTorn
  OBVIOUS
<1>5. PICK n \in Nat : n = Newest
  BY <1>3
<1>6. PICK s \in Skill : s = [toml |-> reading[r].toml, prompt |-> reading[r].prompt,
                              mtime |-> n, torn |-> torn]
  BY <1>1 DEF Skill, Reading
<1>7. cached' = s /\ Returns(r, s)
  BY <1>4, <1>5, <1>6 DEF Store
<1>8. CachedIsMade'
  <2>1. s.mtime = n /\ OfFolder(s.mtime)
    BY <1>3, <1>5, <1>6
  <2>2. s.torn \/ (s.toml = files["toml"] /\ s.prompt = files["prompt"])
    BY <1>4, <1>6
  <2>3. MadeOfFolder(cached)'
    BY <1>1, <1>7, <2>1, <2>2 DEF MadeOfFolder, OfFolder
  <2> QED
    BY <2>3 DEF CachedIsMade
<1>9. s.torn \/ (s.toml = files["toml"] /\ s.prompt = files["prompt"])
  BY <1>4, <1>6
<1> QED
  BY <1>1, <1>7, <1>8, <1>9, ReturnKeeps

(* Every step of readers, installers and the user keeps the invariant.     *)
LEMMA SkillInvNext == SkillInv /\ [SkillsNext]_skillVars => SkillInv'
<1> SUFFICES ASSUME SkillInv, [SkillsNext]_skillVars PROVE SkillInv'
  OBVIOUS
<1>1. ASSUME UNCHANGED <<files, clock, cached, reading>> PROVE SkillInv'
  BY <1>1 DEF SkillInv, SkillTypes, TimesDiffer, CachedIsMade, MadeOfLegacy, MadeOfFolder,
              OfLegacy, OfFolder, ReadSoFar, SoFar, Served
<1>2. ASSUME NEW r \in Readers, Get(r) PROVE SkillInv'
  BY <1>2, LookKeeps, CheckKeeps, LoadLegacyKeeps, LoadFolderKeeps, StoreKeeps DEF Get
<1>3. ASSUME NEW i \in Installers, Install(i) PROVE SkillInv'
  <2>1. CASE CheckFolder(i) \/ MakeSkillFolder(i) \/ InstallDies(i)
    BY <1>1, <2>1 DEF CheckFolder, MakeSkillFolder, InstallDies
  <2>2. CASE WriteManifest(i)
    BY <2>2, WriteKeeps DEF WriteManifest, Names
  <2>3. CASE WritePrompt(i)
    BY <2>3, WriteKeeps DEF WritePrompt, Names
  <2> QED
    BY <1>3, <2>1, <2>2, <2>3 DEF Install
<1>4. ASSUME NEW f \in Names, Edit(f) PROVE SkillInv'
  BY <1>4, WriteKeeps DEF Edit
<1> QED
  BY <1>1, <1>2, <1>3, <1>4 DEF SkillsNext, skillVars

(* skills.py:182-200: whatever threads load and store over each other and  *)
(* however the formats change, a get() during which nothing is written     *)
(* returns the skill of the moment, unless the prompt was edited after     *)
(* skill.toml or the cached skill was loaded while its files were written. *)
THEOREM SkillsAreCurrent == SkillsSpec => []StaleOnlyByPrompt
<1>1. SkillInv => StaleOnlyByPrompt
  BY DEF SkillInv, ReadSoFar, Served, StaleOnlyByPrompt, Quiet, Current, At, SkillTypes, Reading
<1> QED
  BY <1>1, SkillInvInit, SkillInvNext, PTL DEF SkillsSpec

---------------------------------------------------------------------------
(* SignIn.  While no command has begun to write beside another writer,     *)
(* there is one writer at most, what it will put in place is what it read  *)
(* with one password changed, and auth.toml holds still until it does.     *)
Boots(b)  == request[b].at \in {"draft", "replace", "print"}
Sets(c)   == command[c].at \in {"draft", "replace", "print"}

SignPoints  == {"idle", "boot", "draft", "replace", "print", "verify", "create"}
SignRequest == [at : SignPoints, user : Users, typed : Nat, next : [Users -> Nat]]
SignCommand == [at : SignPoints, user : Users, next : [Users -> Nat]]

SignTypes ==
  /\ request \in [Browsers -> SignRequest] /\ command \in [Commands -> SignCommand]
  /\ accounts \in [Users -> Nat] /\ draft \in [Users -> Nat]
  /\ announced \in [Users -> Nat] /\ passwords \in Nat

OneWriter ==
  /\ \A b, d \in Browsers : Boots(b) /\ Boots(d) => b = d
  /\ \A c, d \in Commands : Sets(c) /\ Sets(d) => c = d
  /\ \A b \in Browsers, c \in Commands : ~(Boots(b) /\ Sets(c))

BootHolds ==
  \A b \in Browsers :
    /\ request[b].at \in {"draft", "replace"} => accounts = Nobody
    /\ request[b].at = "replace" => draft = request[b].next
    /\ request[b].at = "print" => accounts = request[b].next
    /\ Boots(b) => \A u \in Others : request[b].next[u] = 0

SetHolds ==
  \A c \in Commands :
    /\ Sets(c) => \A u \in Users \ {command[c].user} : command[c].next[u] = accounts[u]
    /\ command[c].at = "replace" => draft = command[c].next

Opens == \A u \in Users : announced[u] # 0 => accounts[u] = announced[u]

SignHolds == OneWriter /\ BootHolds /\ SetHolds /\ Opens
SignInv   == SignTypes /\ (raced \/ SignHolds)

(* The empty file of accounts. *)
LEMMA NobodyTyped == Nobody \in [Users -> Nat] /\ \A u \in Users : Nobody[u] = 0
  BY DEF Nobody

(* A new server: no account, nothing announced. *)
LEMMA SignInvInit == SignInit => SignInv
<1> SUFFICES ASSUME SignInit PROVE SignInv
  OBVIOUS
<1>1. /\ NoRequest \in SignRequest /\ NoRequest.at = "idle"
      /\ NoCommand \in SignCommand /\ NoCommand.at = "idle"
  BY NobodyTyped DEF NoRequest, SignRequest, NoCommand, SignCommand, Users, SignPoints
<1>2. /\ \A b \in Browsers : request[b] = NoRequest
      /\ \A c \in Commands : command[c] = NoCommand
      /\ accounts = Nobody /\ draft = Nobody /\ announced = Nobody /\ passwords = 0
  BY DEF SignInit, NoDraft
<1>3. SignTypes
  BY <1>1, <1>2, NobodyTyped DEF SignTypes, SignInit
<1>4. OneWriter /\ BootHolds /\ SetHolds
  BY <1>1, <1>2 DEF OneWriter, BootHolds, SetHolds, Boots, Sets
<1>5. Opens
  BY <1>2, NobodyTyped DEF Opens
<1> QED
  BY <1>3, <1>4, <1>5 DEF SignInv, SignHolds

(* One request moves, the others stay.                                     *)
LEMMA RequestMoves ==
  ASSUME SignTypes, NEW b \in Browsers, NEW r \in SignRequest,
         request' = [request EXCEPT ![b] = r]
  PROVE  /\ request' \in [Browsers -> SignRequest] /\ request'[b] = r
         /\ \A d \in Browsers \ {b} : request'[d] = request[d]
  BY DEF SignTypes

(* A login that goes to its next point keeps what it is about to write. *)
LEMMA RequestSteps ==
  ASSUME SignTypes, NEW b \in Browsers, NEW point \in SignPoints, ToRequest(b, point)
  PROVE  /\ request' \in [Browsers -> SignRequest]
         /\ request'[b].at = point
         /\ point # "idle" => request'[b].next = request[b].next
         /\ \A d \in Browsers \ {b} : request'[d] = request[d]
<1> DEFINE r == IF point = "idle" THEN NoRequest ELSE [request[b] EXCEPT !.at = point]
<1>1. request[b] \in SignRequest
  BY DEF SignTypes
<1>2. NoRequest \in SignRequest /\ NoRequest.at = "idle"
  BY NobodyTyped DEF NoRequest, SignRequest, Users, SignPoints
<1>3. r \in SignRequest /\ r.at = point /\ (point # "idle" => r.next = request[b].next)
  BY <1>1, <1>2 DEF SignRequest
<1>4. request' = [request EXCEPT ![b] = r]
  BY DEF ToRequest
<1> HIDE DEF r
<1> QED
  BY <1>3, <1>4, RequestMoves

(* A change of one command leaves the others where they were. *)
LEMMA CommandMoves ==
  ASSUME SignTypes, NEW c \in Commands, NEW r \in SignCommand,
         command' = [command EXCEPT ![c] = r]
  PROVE  /\ command' \in [Commands -> SignCommand] /\ command'[c] = r
         /\ \A d \in Commands \ {c} : command'[d] = command[d]
  BY DEF SignTypes

(* A command that goes to its next point keeps whose password it sets. *)
LEMMA CommandSteps ==
  ASSUME SignTypes, NEW c \in Commands, NEW point \in SignPoints, ToCommand(c, point)
  PROVE  /\ command' \in [Commands -> SignCommand]
         /\ command'[c].at = point
         /\ point # "idle" => /\ command'[c].next = command[c].next
                              /\ command'[c].user = command[c].user
         /\ \A d \in Commands \ {c} : command'[d] = command[d]
<1> DEFINE r == IF point = "idle" THEN NoCommand ELSE [command[c] EXCEPT !.at = point]
<1>1. command[c] \in SignCommand
  BY DEF SignTypes
<1>2. NoCommand \in SignCommand /\ NoCommand.at = "idle"
  BY NobodyTyped DEF NoCommand, SignCommand, Users, SignPoints
<1>3. /\ r \in SignCommand /\ r.at = point
      /\ point # "idle" => r.next = command[c].next /\ r.user = command[c].user
  BY <1>1, <1>2 DEF SignCommand
<1>4. command' = [command EXCEPT ![c] = r]
  BY DEF ToCommand
<1> HIDE DEF r
<1> QED
  BY <1>3, <1>4, CommandMoves

(* A step in which nobody starts to write and no file changes.             *)
LEMMA QuietRequest ==
  ASSUME SignInv, NEW b \in Browsers, request' \in [Browsers -> SignRequest],
         ~Boots(b), ~Boots(b)', \A d \in Browsers \ {b} : request'[d] = request[d],
         UNCHANGED <<accounts, draft, command, passwords, announced, raced>>
  PROVE  SignInv'
<1>1. SignTypes'
  BY DEF SignInv, SignTypes
<1>2. ASSUME SignHolds PROVE SignHolds'
  <2>1. OneWriter'
    BY <1>2 DEF SignHolds, OneWriter, Boots, Sets
  <2>2. BootHolds'
    BY <1>2 DEF SignHolds, BootHolds, Boots
  <2>3. SetHolds' /\ Opens'
    BY <1>2 DEF SignHolds, SetHolds, Sets, Opens
  <2> QED
    BY <2>1, <2>2, <2>3 DEF SignHolds
<1> QED
  BY <1>1, <1>2 DEF SignInv
(* The two files change in the hands of one writer.                        *)
LEMMA BootstrapKeeps ==
  ASSUME SignInv, NEW b \in Browsers, Bootstrap(b)
  PROVE  SignInv'
<1>0. SignTypes /\ request[b].at = "boot" /\ request[b] \in SignRequest
      /\ UNCHANGED <<accounts, draft, command, announced>>
  BY DEF SignInv, Bootstrap, SignTypes
<1>1. CASE ToRequest(b, "verify") /\ UNCHANGED <<passwords, raced>>
  <2>1. /\ request' \in [Browsers -> SignRequest] /\ request'[b].at = "verify"
        /\ \A d \in Browsers \ {b} : request'[d] = request[d]
    BY <1>0, <1>1, RequestSteps DEF SignPoints
  <2> QED
    BY <1>0, <1>1, <2>1, QuietRequest DEF Boots
<1>2. CASE /\ accounts = Nobody /\ passwords' = passwords + 1
           /\ raced' = (raced \/ SomeWriter)
           /\ request' = [request EXCEPT ![b].at = "draft",
                ![b].next = [Nobody EXCEPT ![Admin] = passwords + 1]]
  <2> DEFINE n == [Nobody EXCEPT ![Admin] = passwords + 1]
             r == [request[b] EXCEPT !.at = "draft", !.next = n]
  <2>1. passwords' \in Nat /\ passwords + 1 \in Nat
    BY <1>0, <1>2 DEF SignTypes
  <2>2. n \in [Users -> Nat] /\ \A u \in Others : n[u] = 0
    BY <2>1, NobodyTyped, SignInAssumption DEF Users
  <2> HIDE DEF n
  <2>3. r \in SignRequest /\ r.at = "draft" /\ r.next = n
    BY <1>0, <2>2 DEF SignRequest, SignPoints
  <2>4. request' = [request EXCEPT ![b] = r]
    BY <1>2 DEF n
  <2> HIDE DEF r
  <2>5. /\ request' \in [Browsers -> SignRequest] /\ request'[b] = r
        /\ \A d \in Browsers \ {b} : request'[d] = request[d]
    BY <1>0, <2>3, <2>4, RequestMoves
  <2>6. SignTypes'
    BY <1>0, <2>1, <2>5 DEF SignTypes
  <2>7. ASSUME ~raced' PROVE SignHolds'
    <3>1. /\ \A d \in Browsers : ~Boots(d)
          /\ \A c \in Commands : ~Sets(c)
      BY <1>2, <2>7 DEF SomeWriter, WritingAccounts, Boots, Sets
    <3>2. SignHolds
      BY <1>2, <2>7 DEF SignInv
    <3>3. \A d \in Browsers \ {b} : ~Boots(d)'
      BY <2>5, <3>1 DEF Boots
    <3>4. \A c \in Commands : ~Sets(c)'
      BY <1>0, <3>1 DEF Sets
    <3>5. OneWriter'
      BY <3>3, <3>4 DEF OneWriter
    <3>6. BootHolds'
      <4> SUFFICES ASSUME NEW d \in Browsers
                   PROVE  /\ request'[d].at \in {"draft", "replace"} => accounts' = Nobody
                          /\ request'[d].at = "replace" => draft' = request'[d].next
                          /\ request'[d].at = "print" => accounts' = request'[d].next
                          /\ Boots(d)' => \A u \in Others : request'[d].next[u] = 0
        BY DEF BootHolds
      <4>1. CASE d = b
        BY <1>0, <1>2, <2>2, <2>3, <2>5, <4>1
      <4>2. CASE d # b
        BY <3>3, <4>2 DEF Boots
      <4> QED
        BY <4>1, <4>2
    <3>7. SetHolds'
      BY <3>4 DEF SetHolds, Sets
    <3>8. Opens'
      BY <1>0, <3>2 DEF SignHolds, Opens
    <3> QED
      BY <3>5, <3>6, <3>7, <3>8 DEF SignHolds
  <2> QED
    BY <2>6, <2>7 DEF SignInv
<1> QED
  BY <1>1, <1>2 DEF Bootstrap

(* What a request leaves when it alone writes.                             *)
LEMMA BootStepKeeps ==
  ASSUME SignInv, NEW b \in Browsers, Boots(b), NEW point \in SignPoints,
         ToRequest(b, point), UNCHANGED <<command, passwords, raced>>,
         accounts' \in [Users -> Nat], draft' \in [Users -> Nat],
         announced' \in [Users -> Nat],
         SignHolds =>
           /\ Opens'
           /\ point \in {"draft", "replace"} => accounts' = Nobody
           /\ point = "replace" => draft' = request[b].next
           /\ point = "print" => accounts' = request[b].next
  PROVE  SignInv'
<1>0. SignTypes
  BY DEF SignInv
<1>1. /\ request' \in [Browsers -> SignRequest] /\ request'[b].at = point
      /\ point # "idle" => request'[b].next = request[b].next
      /\ \A d \in Browsers \ {b} : request'[d] = request[d]
  BY <1>0, RequestSteps
<1>2. SignTypes'
  BY <1>0, <1>1 DEF SignTypes
<1>3. ASSUME SignHolds PROVE SignHolds'
  <2>1. /\ \A d \in Browsers \ {b} : ~Boots(d)
        /\ \A c \in Commands : ~Sets(c)
    BY <1>3 DEF SignHolds, OneWriter
  <2>2. /\ \A d \in Browsers \ {b} : ~Boots(d)'
        /\ \A c \in Commands : ~Sets(c)'
    BY <1>1, <2>1 DEF Boots, Sets
  <2>3. OneWriter' /\ SetHolds'
    BY <2>2 DEF OneWriter, SetHolds, Sets
  <2>4. BootHolds'
    <3>1. \A u \in Others : request[b].next[u] = 0
      BY <1>3 DEF SignHolds, BootHolds
    <3> QED
      BY <1>1, <1>3, <2>2, <3>1 DEF BootHolds, Boots
  <2> QED
    BY <1>3, <2>3, <2>4 DEF SignHolds
<1> QED
  BY <1>2, <1>3 DEF SignInv

(* The bootstrap writes, renames and prints: the password announced is the one in the file. *)
LEMMA BootstrapWrites ==
  ASSUME SignInv, NEW b \in Browsers,
         BootstrapDraft(b) \/ BootstrapReplace(b) \/ BootstrapPrint(b)
  PROVE  SignInv'
<1>0. SignTypes /\ request[b] \in SignRequest /\ request[b].next \in [Users -> Nat]
  BY DEF SignInv, SignTypes, SignRequest
<1>1. CASE BootstrapDraft(b)
  <2>1. /\ Boots(b) /\ ToRequest(b, "replace") /\ draft' = request[b].next
        /\ UNCHANGED <<accounts, command, passwords, announced, raced>>
    BY <1>1 DEF BootstrapDraft, WriteDraft, Boots
  <2>2. SignHolds => accounts' = Nobody /\ Opens'
    BY <1>1, <2>1 DEF SignHolds, BootHolds, Opens, BootstrapDraft
  <2> QED
    BY <1>0, <2>1, <2>2, BootStepKeeps DEF SignTypes, SignPoints
<1>2. CASE BootstrapReplace(b) /\ Replaceable
  <2>1. /\ Boots(b) /\ ToRequest(b, "print") /\ accounts' = draft /\ draft' = Nobody
        /\ UNCHANGED <<command, passwords, announced, raced>>
    BY <1>2 DEF BootstrapReplace, ReplaceFile, NoDraft, Boots
  <2>2. SignHolds => accounts' = request[b].next
    BY <1>2, <2>1 DEF SignHolds, BootHolds, BootstrapReplace
  <2>3. SignHolds => \A u \in Users : announced[u] = 0
    BY <1>2, NobodyTyped DEF SignHolds, BootHolds, Opens, BootstrapReplace
  <2>4. SignHolds => Opens'
    BY <2>1, <2>3 DEF Opens
  <2> QED
    BY <1>0, <2>1, <2>2, <2>4, NobodyTyped, BootStepKeeps DEF SignTypes, SignPoints
<1>3. CASE BootstrapReplace(b) /\ ~Replaceable
  <2>1. /\ Boots(b) /\ ToRequest(b, "idle")
        /\ UNCHANGED <<accounts, draft, command, passwords, announced, raced>>
    BY <1>3 DEF BootstrapReplace, Boots
  <2>2. SignHolds => Opens'
    BY <2>1 DEF SignHolds, Opens
  <2> QED
    BY <1>0, <2>1, <2>2, BootStepKeeps DEF SignTypes, SignPoints
<1>4. CASE BootstrapPrint(b)
  <2>1. /\ Boots(b) /\ ToRequest(b, "idle")
        /\ announced' = [announced EXCEPT ![Admin] = request[b].next[Admin]]
        /\ UNCHANGED <<accounts, draft, command, passwords, raced>>
    BY <1>4 DEF BootstrapPrint, Boots
  <2>2. Admin \in Users /\ request[b].next[Admin] \in Nat
    BY <1>0 DEF Users
  <2>3. announced' \in [Users -> Nat]
    BY <1>0, <2>1, <2>2 DEF SignTypes
  <2>4. SignHolds => Opens'
    <3>1. SignHolds => accounts = request[b].next
      BY <1>4 DEF SignHolds, BootHolds, BootstrapPrint
    <3> QED
      BY <1>0, <2>1, <3>1 DEF SignHolds, Opens, SignTypes
  <2> QED
    BY <1>0, <2>1, <2>3, <2>4, BootStepKeeps DEF SignTypes, SignPoints
<1> QED
  BY <1>1, <1>2, <1>3, <1>4

(* A command that begins reads the file, and another writer makes it a race. *)
LEMMA SetPasswordKeeps ==
  ASSUME SignInv, NEW c \in Commands, NEW u \in Users, SetPassword(c, u)
  PROVE  SignInv'
<1> DEFINE n == [accounts EXCEPT ![u] = passwords + 1]
           r == [at |-> "draft", user |-> u, next |-> n]
<1>0. /\ SignTypes /\ passwords' = passwords + 1 /\ raced' = (raced \/ SomeWriter)
      /\ command' = [command EXCEPT ![c] = r]
      /\ UNCHANGED <<accounts, draft, request, announced>>
  BY DEF SignInv, SetPassword
<1>1. passwords + 1 \in Nat
  BY <1>0 DEF SignTypes
<1>2. n \in [Users -> Nat] /\ \A x \in Users \ {u} : n[x] = accounts[x]
  BY <1>0, <1>1 DEF SignTypes
<1> HIDE DEF n
<1>3. r \in SignCommand /\ r.at = "draft" /\ r.user = u /\ r.next = n
  BY <1>2 DEF SignCommand, SignPoints
<1> HIDE DEF r
<1>4. /\ command' \in [Commands -> SignCommand] /\ command'[c] = r
      /\ \A d \in Commands \ {c} : command'[d] = command[d]
  BY <1>0, <1>3, CommandMoves
<1>5. SignTypes'
  BY <1>0, <1>1, <1>4 DEF SignTypes
<1>6. ASSUME ~raced' PROVE SignHolds'
  <2>1. /\ \A b \in Browsers : ~Boots(b)
        /\ \A d \in Commands : ~Sets(d)
    BY <1>0, <1>6 DEF SomeWriter, WritingAccounts, Boots, Sets
  <2>2. SignHolds
    BY <1>0, <1>6 DEF SignInv
  <2>3. /\ \A b \in Browsers : ~Boots(b)'
        /\ \A d \in Commands \ {c} : ~Sets(d)'
    BY <1>0, <1>4, <2>1 DEF Boots, Sets
  <2>4. OneWriter' /\ BootHolds'
    BY <2>3 DEF OneWriter, BootHolds, Boots
  <2>5. SetHolds'
    BY <1>0, <1>2, <1>3, <1>4, <2>3 DEF SetHolds, Sets
  <2>6. Opens'
    BY <1>0, <2>2 DEF SignHolds, Opens
  <2> QED
    BY <2>4, <2>5, <2>6 DEF SignHolds
<1> QED
  BY <1>5, <1>6 DEF SignInv

(* The command writes its draft and renames it. *)
LEMMA SetWrites ==
  ASSUME SignInv, NEW c \in Commands, SetDraft(c) \/ SetReplace(c)
  PROVE  SignInv'
<1>0. /\ SignTypes /\ command[c] \in SignCommand /\ command[c].next \in [Users -> Nat]
      /\ command[c].user \in Users /\ Sets(c)
      /\ UNCHANGED <<request, passwords, raced>>
  BY DEF SignInv, SignTypes, SignCommand, SetDraft, SetReplace, Sets
<1> DEFINE Alone == /\ \A b \in Browsers : ~Boots(b) /\ ~Boots(b)'
                    /\ \A d \in Commands \ {c} : ~Sets(d) /\ command'[d] = command[d]
<1>1. CASE SetDraft(c)
  <2>1. /\ ToCommand(c, "replace") /\ draft' = command[c].next
        /\ UNCHANGED <<accounts, announced>>
    BY <1>1 DEF SetDraft, WriteDraft
  <2>2. /\ command' \in [Commands -> SignCommand] /\ command'[c].at = "replace"
        /\ command'[c].next = command[c].next /\ command'[c].user = command[c].user
        /\ \A d \in Commands \ {c} : command'[d] = command[d]
    BY <1>0, <2>1, CommandSteps DEF SignPoints
  <2>3. SignTypes'
    BY <1>0, <2>1, <2>2 DEF SignTypes
  <2>4. ASSUME SignHolds PROVE SignHolds'
    <3>1. Alone
      BY <1>0, <2>2, <2>4 DEF SignHolds, OneWriter, Boots
    <3>2. OneWriter' /\ BootHolds'
      BY <3>1 DEF OneWriter, BootHolds, Boots, Sets
    <3>3. SetHolds' /\ Opens'
      BY <1>0, <2>1, <2>2, <2>4, <3>1 DEF SignHolds, SetHolds, Sets, Opens
    <3> QED
      BY <3>2, <3>3 DEF SignHolds
  <2> QED
    BY <1>0, <2>3, <2>4 DEF SignInv
<1>2. CASE SetReplace(c)
  <2>1. ToCommand(c, "idle") /\ command[c].at = "replace"
    BY <1>2 DEF SetReplace
  <2>2. /\ command' \in [Commands -> SignCommand] /\ command'[c].at = "idle"
        /\ \A d \in Commands \ {c} : command'[d] = command[d]
    BY <1>0, <2>1, CommandSteps DEF SignPoints
  <2>3. accounts' \in [Users -> Nat] /\ draft' \in [Users -> Nat]
        /\ announced' \in [Users -> Nat]
    <3>1. command[c].next[command[c].user] \in Nat
      BY <1>0
    <3> QED
      BY <1>0, <1>2, <3>1, NobodyTyped DEF SetReplace, ReplaceFile, NoDraft, SignTypes
  <2>4. SignTypes'
    BY <1>0, <2>2, <2>3 DEF SignTypes
  <2>5. ASSUME SignHolds PROVE SignHolds'
    <3>1. Alone
      BY <1>0, <2>2, <2>5 DEF SignHolds, OneWriter, Boots
    <3>2. OneWriter' /\ BootHolds' /\ SetHolds'
      BY <2>2, <3>1 DEF OneWriter, BootHolds, SetHolds, Boots, Sets
    <3>3. Opens'
      <4>1. CASE Replaceable
        <5>1. /\ accounts' = command[c].next
              /\ announced' = [announced EXCEPT ![command[c].user] =
                                 command[c].next[command[c].user]]
          BY <1>2, <2>1, <2>5, <4>1 DEF SetReplace, ReplaceFile, SignHolds, SetHolds
        <5>2. \A x \in Users \ {command[c].user} : command[c].next[x] = accounts[x]
          BY <1>0, <2>5 DEF SignHolds, SetHolds
        <5> QED
          BY <1>0, <2>5, <5>1, <5>2 DEF SignHolds, Opens, SignTypes
      <4>2. CASE ~Replaceable
        BY <1>2, <2>5, <4>2 DEF SetReplace, SignHolds, Opens
      <4> QED
        BY <4>1, <4>2
    <3> QED
      BY <3>2, <3>3 DEF SignHolds
  <2> QED
    BY <1>0, <2>4, <2>5 DEF SignInv
<1> QED
  BY <1>1, <1>2

(* Every step of the server and its commands keeps the invariant. *)
LEMMA SignInvStep == SignInv /\ [SignNext]_signVars => SignInv'
<1> SUFFICES ASSUME SignInv, [SignNext]_signVars PROVE SignInv'
  OBVIOUS
<1>0. SignTypes
  BY DEF SignInv
<1>1. ASSUME NEW b \in Browsers, NEW u \in Users, NEW p \in 1 .. passwords + 1,
             Login(b, u, p)
      PROVE  SignInv'
  <2> DEFINE r == [NoRequest EXCEPT !.at = "boot", !.user = u, !.typed = p]
  <2>1. p \in Nat
    BY <1>0 DEF SignTypes
  <2>2. r \in SignRequest /\ r.at = "boot"
    BY <2>1, NobodyTyped DEF NoRequest, SignRequest, SignPoints, Users
  <2>3. request' = [request EXCEPT ![b] = r]
    BY <1>1 DEF Login
  <2> HIDE DEF r
  <2>4. /\ request' \in [Browsers -> SignRequest] /\ request'[b] = r
        /\ \A d \in Browsers \ {b} : request'[d] = request[d]
    BY <1>0, <2>2, <2>3, RequestMoves
  <2> QED
    BY <1>1, <2>2, <2>4, QuietRequest DEF Login, Boots
<1>2. ASSUME NEW b \in Browsers, Verify(b) \/ CreateSession(b) PROVE SignInv'
  <2>1. PICK point \in {"create", "idle"} : ToRequest(b, point)
    BY <1>2 DEF Verify, CreateSession
  <2>2. /\ request' \in [Browsers -> SignRequest] /\ request'[b].at = point
        /\ \A d \in Browsers \ {b} : request'[d] = request[d]
    BY <1>0, <2>1, RequestSteps DEF SignPoints
  <2>3. /\ request[b].at \in {"verify", "create"}
        /\ UNCHANGED <<accounts, draft, command, passwords, announced, raced>>
    BY <1>2 DEF Verify, CreateSession
  <2> QED
    BY <2>2, <2>3, QuietRequest DEF Boots
<1>3. CASE \/ \E b \in Browsers : RequireSession(b) \/ Logout(b)
           \/ Passes \/ UNCHANGED signVars
  <2>1. UNCHANGED <<accounts, draft, request, command, passwords, announced, raced>>
    BY <1>3 DEF RequireSession, Logout, Passes, signVars
  <2> QED
    BY <2>1 DEF SignInv, SignTypes, SignHolds, OneWriter, BootHolds, SetHolds, Opens,
                Boots, Sets
<1>4. CASE Restart
  <2>1. /\ \A b \in Browsers : request'[b] = NoRequest
        /\ request' = [b \in Browsers |-> NoRequest]
        /\ UNCHANGED <<accounts, draft, command, passwords, announced, raced>>
    BY <1>4 DEF Restart
  <2>2. NoRequest \in SignRequest /\ NoRequest.at = "idle"
    BY NobodyTyped DEF NoRequest, SignRequest, SignPoints, Users
  <2>3. SignTypes'
    BY <1>0, <2>1, <2>2 DEF SignTypes
  <2>4. ASSUME SignHolds PROVE SignHolds'
    <3>1. OneWriter' /\ BootHolds'
      BY <2>1, <2>2, <2>4 DEF SignHolds, OneWriter, BootHolds, Boots, Sets
    <3>2. SetHolds' /\ Opens'
      BY <2>1, <2>4 DEF SignHolds, SetHolds, Sets, Opens
    <3> QED
      BY <3>1, <3>2 DEF SignHolds
  <2> QED
    BY <2>1, <2>3, <2>4 DEF SignInv
<1> QED
  BY <1>1, <1>2, <1>3, <1>4, BootstrapKeeps, BootstrapWrites, SetPasswordKeeps, SetWrites
  DEF SignNext

(* auth.py: the password that was announced last opens the account, unless *)
(* a command began beside another writer, for any number of browsers,      *)
(* commands, users and restarts.                                           *)
THEOREM AnnouncedPasswordsOpen == SignSpec => []AnnouncedPasswordOpens
<1>1. SignInv => AnnouncedPasswordOpens
  BY DEF SignInv, SignHolds, Opens, AnnouncedPasswordOpens
<1> QED
  BY <1>1, SignInvInit, SignInvStep, PTL DEF SignSpec
---------------------------------------------------------------------------
(* ModelCalls.  A tool may be named to an endpoint that this caller has    *)
(* not been refused by: a refusal is remembered before the next call is    *)
(* entered.  What a call comes back with tells what the server can do.     *)
Speaks(e) ==  \* a call of a tool can come back from it
  /\ server[e].lists # "denied" /\ server[e].served
  /\ \/ setup.native # "off" /\ server[e].tools
     \/ setup.native # "on" /\ server[e].shim

Replies == Errors \cup {"none", "text", "call"}
CallRecord ==
  [at : {"idle", "post", "ended"}, ep : Endpoints \cup {"none", "offline"},
   tools : BOOLEAN, named : BOOLEAN, via : {"plain", "native", "shim"},
   forced : BOOLEAN, tries : Nat, begun : Nat, clock : Nat,
   troubled : BOOLEAN, result : Replies]

CallTypes ==
  /\ setup \in Setup /\ server \in [Endpoints -> Server]
  /\ noForced \subseteq Endpoints
  /\ call \in [Callers -> CallRecord]
  /\ refusals \in [Callers -> [Endpoints -> Nat]]

(* What a call under way, or ended, says of its endpoint.  One that may    *)
(* use native tools is in the shim for want of them, or by a refusal of a  *)
(* named tool that was not foreseen.                                       *)
CallSays(r) ==
  /\ r.at = "post" =>
       /\ r.ep \in Endpoints
       /\ r.via = "shim" => /\ setup.native # "on"
                            /\ setup.native = "off" \/ ~server[r.ep].tools \/ Unforeseen(r)
       /\ r.via = "native" => setup.native # "off"
       /\ r.forced => r.named /\ r.via = "native"
  /\ r.at = "ended" /\ r.ep \in Endpoints =>
       /\ r.result = "call" => Speaks(r.ep)
       /\ ~r.troubled /\ r.result \in Errors =>
            Unforeseen(r) \/ ~(Speaks(r.ep) /\ server[r.ep].schema)

CallsSay == \A c \in Callers : CallSays(call[c])

Remembered ==
  \A c \in Callers :
    /\ \A e \in Endpoints : /\ refusals[c][e] \in {0, 1}
                            /\ refusals[c][e] = 1 => e \in noForced
    /\ call[c].at = "post" /\ call[c].forced => refusals[c][call[c].ep] = 0

(* How far the doctor is, and what the checks that passed have shown.      *)
DoctorSays ==
  LET d == call[Doctor] IN
  /\ stage \in {"health", "context", "over"} => d.at = "idle"
  /\ stage \in {"context", "tools", "json"} => d.ep \in Endpoints
  /\ stage = "json" =>
       /\ "tool calling" \notin checks => Speaks(d.ep)
       /\ d.at = "post" => d.via = "plain"
       /\ d.at = "ended" /\ d.result = "text" => server[d.ep].schema
  /\ stage = "over" /\ checks = {} /\ setup.probe /\ d.ep \in Endpoints =>
       Speaks(d.ep) /\ server[d.ep].schema

CallInv == CallTypes /\ CallsSay /\ Remembered /\ DoctorSays

(* No call has begun and nothing is remembered. *)
LEMMA CallInvInit == CallsInit => CallInv
<1> SUFFICES ASSUME CallsInit PROVE CallInv
  OBVIOUS
<1>1. NoCall \in CallRecord /\ NoCall.at = "idle"
  BY DEF NoCall, CallRecord, Replies
<1>2. \A c \in Callers : call[c] = NoCall
  BY DEF CallsInit
<1>3. CallTypes
  BY <1>1, ModelCallsAssumption DEF CallsInit, CallTypes
<1>4. CallsSay /\ Remembered
  BY <1>1, <1>2 DEF CallsInit, CallsSay, CallSays, Remembered
<1>5. DoctorSays
  BY <1>1, <1>2 DEF CallsInit, DoctorSays, Callers
<1> QED
  BY <1>3, <1>4, <1>5 DEF CallInv

(* The record of a call that ended. *)
LEMMA EndedIs ==
  ASSUME NEW r \in CallRecord, NEW x \in Replies
  PROVE  /\ Ended(r, x) \in CallRecord
         /\ Ended(r, x).at = "ended" /\ Ended(r, x).ep = r.ep
         /\ Ended(r, x).troubled = r.troubled /\ Ended(r, x).result = x
         /\ Ended(r, x).named = r.named
  BY DEF Ended, NoCall, CallRecord, Replies

(* The record of a call that enters one of its ways to the server. *)
LEMMA EnteredIs ==
  ASSUME NEW r \in CallRecord, r.ep \in Endpoints, NEW via \in {"plain", "native", "shim"}
  PROVE  LET q == Entered(r, via) IN
         /\ q \in CallRecord /\ q.at = "post" /\ q.ep = r.ep /\ q.via = via
         /\ q.named = r.named
         /\ q.forced => q.named /\ q.via = "native" /\ q.ep \notin noForced
<1> DEFINE o == OllamaEntered(r, via)
           f == via = "native" /\ r.named /\ r.ep \notin noForced
           a == [o EXCEPT !.forced = f]
<1>1. /\ o \in CallRecord /\ o.at = "post" /\ o.ep = r.ep /\ o.via = via /\ ~o.forced
      /\ o.named = r.named
  BY DEF OllamaEntered, CallRecord
<1>2. f \in BOOLEAN
  OBVIOUS
<1> HIDE DEF o, f
<1>3. /\ a \in CallRecord /\ a.at = "post" /\ a.ep = r.ep /\ a.via = via /\ a.forced = f
      /\ a.named = r.named
  BY <1>1, <1>2 DEF CallRecord
<1>4. Entered(r, via) = o \/ Entered(r, via) = a
  BY DEF Entered, OpenAIEntered, o, f
<1> HIDE DEF a
<1>5. CASE Entered(r, via) = o
  BY <1>1, <1>5
<1>6. CASE Entered(r, via) = a
  BY <1>3, <1>6 DEF f
<1> QED
  BY <1>4, <1>5, <1>6

(* What a server answers, seen from the answer.                            *)
LEMMA AnswersMean ==
  ASSUME NEW r \in CallRecord, server[r.ep] \in Server, r.forced => r.via = "native",
         NEW h, h \in Answers(r)
  PROVE  /\ h = "denied" => server[r.ep].lists = "denied"
         /\ h # "denied" => server[r.ep].lists # "denied"
         /\ h = "absent" => ~server[r.ep].served
         /\ h \notin {"denied", "absent"} => server[r.ep].served
         /\ h = "no tools" =>
              /\ r.via = "native"
              /\ ~server[r.ep].tools \/ (r.forced /\ server[r.ep].named = "marker")
         /\ h = "no choice" => r.forced
         /\ h = "refused" => r.forced /\ server[r.ep].named = "other"
         /\ h = "no schema" => \/ r.via = "shim" /\ ~server[r.ep].shim
                               \/ r.via = "plain" /\ ~server[r.ep].schema
         /\ h = "call" => /\ r.via # "plain"
                          /\ r.via = "native" => server[r.ep].tools
                          /\ r.via = "shim" => server[r.ep].shim
         /\ h = "text" /\ r.via = "plain" => server[r.ep].schema
<1>1. server[r.ep].named \in {"yes", "choice", "marker", "other"}
  BY DEF Server
<1>2. r.via \in {"plain", "native", "shim"}
  BY DEF CallRecord
<1> DEFINE s        == server[r.ep]
           unnative == r.via = "native" /\ ~s.tools
           unnamed  == r.forced /\ s.named # "yes"
           unshaped == (r.via = "shim" /\ ~s.shim) \/ (r.via = "plain" /\ ~s.schema)
<1>3. CASE s.lists = "denied"
  <2>1. h = "denied"
    BY <1>3 DEF Answers
  <2> QED
    BY <1>3, <2>1
<1>4. CASE s.lists # "denied" /\ ~s.served
  <2>1. h = "absent"
    BY <1>4 DEF Answers
  <2> QED
    BY <1>4, <2>1
<1>5. CASE s.lists # "denied" /\ s.served /\ unnative
  <2>1. h = "no tools" \/ (h = "no choice" /\ r.forced)
    BY <1>5 DEF Answers
  <2> QED
    BY <1>5, <2>1
<1>6. CASE s.lists # "denied" /\ s.served /\ ~unnative /\ unnamed
  <2>1. \/ s.named = "choice" /\ h = "no choice"
        \/ s.named = "marker" /\ h = "no tools"
        \/ s.named = "other" /\ h = "refused"
    BY <1>1, <1>6 DEF Answers
  <2> QED
    BY <1>6, <2>1
<1>7. CASE s.lists # "denied" /\ s.served /\ ~unnative /\ ~unnamed /\ unshaped
  <2>1. h = "no schema"
    BY <1>7 DEF Answers
  <2> QED
    BY <1>7, <2>1
<1>8. CASE s.lists # "denied" /\ s.served /\ ~unnative /\ ~unnamed /\ ~unshaped
  <2>1. h = "text" \/ (h = "call" /\ r.via # "plain")
    BY <1>8 DEF Answers
  <2> QED
    BY <1>8, <2>1
<1> QED
  BY <1>3, <1>4, <1>5, <1>6, <1>7, <1>8

(* A call that begins: at an endpoint it posts, elsewhere it ends at once. *)
LEMMA BeginIs ==
  ASSUME CallTypes, NEW c \in Callers, NEW e \in Endpoints \cup {"none", "offline"},
         NEW tools \in BOOLEAN, NEW named \in BOOLEAN, Begin(c, e, tools, named)
  PROVE  \E q \in CallRecord :
           /\ call' = [call EXCEPT ![c] = q] /\ CallSays(q) /\ q.ep = e
           /\ q.at = "post" \/ (q.at = "ended" /\ e \notin Endpoints)
           /\ ~tools /\ q.at = "post" => q.via = "plain"
           /\ q.at = "post" /\ q.forced => q.ep \notin noForced
<1> DEFINE r == [NoCall EXCEPT !.ep = e, !.tools = tools, !.named = named]
<1>1. r \in CallRecord /\ r.ep = e /\ r.tools = tools
  BY DEF NoCall, CallRecord, Replies
<1>2. CASE e = "none"
  <2>1. call' = [call EXCEPT ![c] = Ended(r, "none configured")]
    BY <1>2 DEF Begin
  <2>2. "none configured" \in Replies
    BY DEF Replies, Errors
  <2> HIDE DEF r
  <2> DEFINE q == Ended(r, "none configured")
  <2>3. q \in CallRecord /\ q.at = "ended" /\ q.ep = "none"
    BY <1>1, <1>2, <2>2, EndedIs
  <2> HIDE DEF q
  <2>4. CallSays(q)
    BY <2>3 DEF CallSays, Endpoints
  <2>5. call' = [call EXCEPT ![c] = q] /\ e \notin Endpoints
    BY <1>2, <2>1 DEF q, Endpoints
  <2> QED
    BY <1>2, <2>3, <2>4, <2>5
<1>3. CASE e = "offline"
  <2>1. PICK s \in StubReplies(r) : call' = [call EXCEPT ![c] = Ended(r, s)]
    BY <1>3 DEF Begin
  <2>2. s \in Replies
    BY DEF StubReplies, Replies
  <2> HIDE DEF r
  <2> DEFINE q == Ended(r, s)
  <2>3. q \in CallRecord /\ q.at = "ended" /\ q.ep = "offline"
    BY <1>1, <1>3, <2>2, EndedIs
  <2> HIDE DEF q
  <2>4. CallSays(q)
    BY <2>3 DEF CallSays, Endpoints
  <2>5. call' = [call EXCEPT ![c] = q] /\ e \notin Endpoints
    BY <1>3, <2>1 DEF q, Endpoints
  <2> QED
    BY <1>3, <2>3, <2>4, <2>5
<1>4. CASE e \in Endpoints
  <2> DEFINE via == Mode(r)
             q == Entered(r, via)
  <2>1. call' = [call EXCEPT ![c] = q]
    BY <1>4 DEF Begin, Endpoints
  <2>2. /\ via \in {"plain", "native", "shim"}
        /\ ~tools => via = "plain"
        /\ via = "shim" => setup.native = "off"
        /\ via = "native" => setup.native # "off"
    BY <1>1 DEF Mode, CallTypes, Setup
  <2> HIDE DEF r, via
  <2>3. /\ q \in CallRecord /\ q.at = "post" /\ q.ep = e /\ q.via = via
        /\ q.forced => q.named /\ q.via = "native" /\ q.ep \notin noForced
    BY <1>1, <1>4, <2>2, EnteredIs
  <2> HIDE DEF q
  <2> QED
    BY <1>4, <2>1, <2>2, <2>3 DEF CallSays
<1> QED
  BY <1>2, <1>3, <1>4

(* The profile resolves to an endpoint, to none or to the offline client. *)
LEMMA ResolvedIs == CallTypes => Resolved \in Endpoints \cup {"none", "offline"}
<1> SUFFICES ASSUME CallTypes PROVE Resolved \in Endpoints \cup {"none", "offline"}
  OBVIOUS
<1>1. setup.force \in {"auto", "local", "cloud", "offline"}
  BY DEF CallTypes, Setup
<1> QED
  BY <1>1 DEF Resolved, cloud_profile, Endpoints
(* One call moves: to another post, or to its end.                         *)
Goes(r, q) ==
  /\ q.ep = r.ep /\ q.at \in {"post", "ended"} /\ CallSays(q)
  /\ r.via = "plain" => /\ q.at = "post" => q.via = "plain"
                        /\ q.at = "ended" /\ q.result = "text" => server[q.ep].schema
  /\ q.at = "post" /\ q.forced => r.forced \/ q.ep \notin noForced

(* A post may end its call with any reply that its server can give. *)
LEMMA EndGoes ==
  ASSUME NEW r \in CallRecord, r.ep \in Endpoints, NEW x \in Replies \ {"text", "call"},
         \/ x \notin Errors \/ r.troubled \/ Unforeseen(r)
         \/ ~(Speaks(r.ep) /\ server[r.ep].schema)
  PROVE  Goes(r, Ended(r, x)) /\ Ended(r, x) \in CallRecord
  BY EndedIs DEF Goes, CallSays, Unforeseen

(* A post may be followed by another of the same kind. *)
LEMMA SameGoes ==
  ASSUME NEW r \in CallRecord, NEW q \in CallRecord, CallSays(r),
         r.at = "post", q.at = "post", q.ep = r.ep, q.via = r.via, q.named = r.named,
         q.forced => r.forced
  PROVE  Goes(r, q)
  BY DEF Goes, CallSays, Unforeseen

(* Time that passes changes nothing else of a call. *)
LEMMA AfterIs ==
  ASSUME NEW r \in CallRecord, NEW d \in Nat
  PROVE  LET q == After(r, d) IN
         /\ q \in CallRecord /\ q.at = r.at /\ q.ep = r.ep /\ q.via = r.via
         /\ q.forced = r.forced /\ q.troubled = r.troubled /\ q.named = r.named
<1>1. r.clock + d \in Nat
  BY DEF CallRecord
<1> QED
  BY <1>1 DEF After, CallRecord

(* The answers that end a call, and those that make it post again.         *)
LEMMA ChatGoes ==
  ASSUME CallInv, NEW c \in Callers, Chats(c), call[c].at = "post"
  PROVE  \E q \in CallRecord :
           /\ call' = [call EXCEPT ![c] = q] /\ Goes(call[c], q)
           /\ RetryUnforced(c) \/ UNCHANGED <<refusals, noForced>>
           /\ RetryUnforced(c) => ~q.forced
<1> DEFINE r == call[c]
           Carried(q) == /\ q \in CallRecord /\ call' = [call EXCEPT ![c] = q] /\ Goes(r, q)
<1>0. /\ r \in CallRecord /\ CallSays(r) /\ r.at = "post" /\ r.ep \in Endpoints
      /\ setup \in Setup /\ server \in [Endpoints -> Server]
      /\ r.forced => r.via = "native"
  BY DEF CallInv, CallTypes, CallsSay, CallSays
<1>1. /\ Durations \subseteq Nat /\ \A i \in 1 .. Len(Delays) : Delays[i] \in Nat
      /\ Len(Delays) \in Nat
  BY ModelCallsAssumption
<1>2. ASSUME Unreachable(c) \/ TimesOut(c) \/ OllamaBusy(c)
      PROVE  \E q : Carried(q)
  <2> DEFINE t == [r EXCEPT !.troubled = TRUE]
  <2>1. t \in CallRecord /\ t.ep = r.ep /\ t.troubled
    BY <1>0 DEF CallRecord
  <2>2. PICK x \in {"unavailable", "timeout", "bad response"} :
          call' = [call EXCEPT ![c] = Ended(t, x)]
    BY <1>2 DEF Unreachable, TimesOut, OllamaBusy, Becomes
  <2>3. x \in Replies \ {"text", "call"}
    BY DEF Replies, Errors
  <2> HIDE DEF t, r
  <2> DEFINE q == Ended(t, x)
  <2>4. q \in CallRecord /\ q.at = "ended" /\ q.ep = r.ep /\ q.troubled /\ q.result = x
    BY <2>1, <2>3, EndedIs
  <2>5. call' = [call EXCEPT ![c] = q]
    BY <2>2
  <2> HIDE DEF q
  <2>6. Goes(r, q)
    BY <2>3, <2>4 DEF Goes, CallSays
  <2> QED
    BY <2>4, <2>5, <2>6
<1>3. ASSUME Busy(c)
      PROVE  \E q : Carried(q)
  <2>1. PICK d \in Durations :
          LET t == [After(r, d) EXCEPT !.troubled = TRUE] IN
          IF MayRetry(t)
          THEN Becomes(c, [After(t, Delays[t.tries + 1]) EXCEPT !.tries = @ + 1])
          ELSE Becomes(c, Ended(t, "bad response"))
    BY <1>3 DEF Busy
  <2> DEFINE t == [After(r, d) EXCEPT !.troubled = TRUE]
             w == After(t, Delays[t.tries + 1])
             q == [w EXCEPT !.tries = @ + 1]
             x == Ended(t, "bad response")
  <2>2. d \in Nat
    BY <1>1
  <2> HIDE DEF r
  <2>3. /\ After(r, d) \in CallRecord /\ After(r, d).at = r.at /\ After(r, d).ep = r.ep
        /\ After(r, d).via = r.via /\ After(r, d).forced = r.forced
        /\ After(r, d).named = r.named
    BY <1>0, <2>2, AfterIs
  <2>4. /\ t \in CallRecord /\ t.at = r.at /\ t.ep = r.ep /\ t.via = r.via
        /\ t.forced = r.forced /\ t.named = r.named /\ t.troubled
    BY <2>3 DEF CallRecord
  <2>5. \/ MayRetry(t) /\ call' = [call EXCEPT ![c] = q]
        \/ call' = [call EXCEPT ![c] = x]
    BY <2>1 DEF Becomes
  <2> HIDE DEF t
  <2>6. CASE MayRetry(t) /\ call' = [call EXCEPT ![c] = q]
    <3>1. t.tries \in Nat /\ t.tries + 1 \in 1 .. Len(Delays)
      BY <1>1, <2>4, <2>6 DEF MayRetry, CallRecord
    <3>2. Delays[t.tries + 1] \in Nat
      BY <1>1, <3>1
    <3>3. /\ w \in CallRecord /\ w.at = r.at /\ w.ep = r.ep /\ w.via = r.via
          /\ w.forced = r.forced /\ w.named = r.named
      BY <2>4, <3>2, AfterIs
    <3> HIDE DEF w
    <3>4. w.tries + 1 \in Nat
      BY <3>3 DEF CallRecord
    <3>5. /\ q \in CallRecord /\ q.at = r.at /\ q.ep = r.ep /\ q.via = r.via
          /\ q.forced = r.forced /\ q.named = r.named
      BY <3>3, <3>4 DEF CallRecord
    <3> HIDE DEF q
    <3>6. Goes(r, q)
      BY <1>0, <3>5, SameGoes
    <3> QED
      BY <2>6, <3>5, <3>6
  <2>7. CASE call' = [call EXCEPT ![c] = x]
    <3>1. "bad response" \in Replies
      BY DEF Replies, Errors
    <3>2. /\ x \in CallRecord /\ x.at = "ended" /\ x.ep = r.ep /\ x.troubled
          /\ x.result = "bad response"
      BY <2>4, <3>1, EndedIs
    <3> HIDE DEF x
    <3>3. Goes(r, x)
      BY <3>2 DEF Goes, CallSays
    <3> QED
      BY <2>7, <3>2, <3>3
  <2> QED
    BY <2>5, <2>6, <2>7
<1>4. ASSUME RetryUnforced(c)
      PROVE  \E q : Carried(q) /\ ~q.forced
  <2>1. PICK d \in Durations :
          call' = [call EXCEPT ![c] = [After(r, d) EXCEPT !.forced = FALSE,
                                                          !.tries = Len(Delays)]]
    BY <1>4 DEF RetryUnforced, Becomes
  <2> DEFINE w == After(r, d)
             q == [w EXCEPT !.forced = FALSE, !.tries = Len(Delays)]
  <2>2. call' = [call EXCEPT ![c] = q]
    BY <2>1
  <2> HIDE DEF r
  <2>3. /\ w \in CallRecord /\ w.at = r.at /\ w.ep = r.ep /\ w.via = r.via
        /\ w.named = r.named
    BY <1>0, <1>1, AfterIs
  <2> HIDE DEF w
  <2>4. /\ q \in CallRecord /\ q.at = r.at /\ q.ep = r.ep /\ q.via = r.via
        /\ q.named = r.named /\ ~q.forced
    BY <1>1, <2>3 DEF CallRecord
  <2> HIDE DEF q
  <2>5. Goes(r, q)
    BY <1>0, <2>4, SameGoes
  <2> QED
    BY <2>2, <2>4, <2>5
<1>5. ASSUME FallBack(c)
      PROVE  \E q : Carried(q)
  <2>1. PICK d \in Durations :
          call' = [call EXCEPT ![c] = IF setup.native = "auto"
                                      THEN Entered(After(r, d), "shim")
                                      ELSE Ended(r, "unsupported")]
    BY <1>5 DEF FallBack, Becomes
  <2>2. "no tools" \in Answers(r)
    BY <1>5 DEF FallBack, Answered
  <2> HIDE DEF r
  <2>3. r.via = "native" /\ (~server[r.ep].tools \/ Unforeseen(r))
    <3>1. /\ r.via = "native"
          /\ ~server[r.ep].tools \/ (r.forced /\ server[r.ep].named = "marker")
      BY <1>0, <2>2, AnswersMean
    <3>2. r.forced => r.named
      BY <1>0 DEF CallSays
    <3> QED
      BY <3>1, <3>2 DEF Unforeseen
  <2>4. setup.native # "off" /\ setup.native \in {"auto", "on", "off"}
    BY <1>0, <2>3 DEF CallSays, Setup
  <2>5. CASE setup.native = "auto"
    <3> DEFINE w == After(r, d)
               q == Entered(w, "shim")
    <3>1. w \in CallRecord /\ w.ep = r.ep /\ w.named = r.named
      BY <1>0, <1>1, AfterIs
    <3> HIDE DEF w
    <3>2. /\ q \in CallRecord /\ q.at = "post" /\ q.ep = r.ep /\ q.via = "shim"
          /\ q.named = r.named
          /\ q.forced => q.named /\ q.via = "native" /\ q.ep \notin noForced
      BY <1>0, <3>1, EnteredIs
    <3>3. call' = [call EXCEPT ![c] = q]
      BY <2>1, <2>5 DEF w
    <3> HIDE DEF q
    <3>4. Goes(r, q)
      BY <1>0, <2>3, <2>5, <3>2 DEF Goes, CallSays, Unforeseen
    <3> QED
      BY <3>2, <3>3, <3>4
  <2>6. CASE setup.native # "auto"
    <3> DEFINE q == Ended(r, "unsupported")
    <3>1. "unsupported" \in Replies \ {"text", "call"}
      BY DEF Replies, Errors
    <3>2. Unforeseen(r) \/ ~Speaks(r.ep)
      BY <2>3, <2>4, <2>6 DEF Speaks
    <3>3. Goes(r, q) /\ q \in CallRecord
      BY <1>0, <3>1, <3>2, EndGoes
    <3>4. call' = [call EXCEPT ![c] = q]
      BY <2>1, <2>6
    <3> HIDE DEF q
    <3> QED
      BY <3>3, <3>4
  <2> QED
    BY <2>5, <2>6
<1>6. ASSUME Refused(c)
      PROVE  \E q : Carried(q)
  <2>1. PICK h \in {"absent", "denied", "no schema", "refused"}, x \in {"not pulled", "bad response"} :
          h \in Answers(r) /\ call' = [call EXCEPT ![c] = Ended(r, x)]
    BY <1>6 DEF Refused, Becomes, Answered
  <2> HIDE DEF r
  <2> DEFINE q == Ended(r, x)
  <2>2. Unforeseen(r) \/ ~(Speaks(r.ep) /\ server[r.ep].schema)
    <3>1. /\ h = "denied" => server[r.ep].lists = "denied"
          /\ h = "absent" => ~server[r.ep].served
          /\ h = "refused" => r.forced /\ server[r.ep].named = "other"
          /\ h = "no schema" => \/ r.via = "shim" /\ ~server[r.ep].shim
                                \/ r.via = "plain" /\ ~server[r.ep].schema
      BY <1>0, <2>1, AnswersMean
    <3>2. /\ r.forced => r.named
          /\ r.via = "shim" => setup.native = "off" \/ ~server[r.ep].tools \/ Unforeseen(r)
      BY <1>0 DEF CallSays
    <3> QED
      BY <2>1, <3>1, <3>2 DEF Speaks, Unforeseen
  <2>3. x \in Replies \ {"text", "call"}
    BY DEF Replies, Errors
  <2>4. Goes(r, q) /\ q \in CallRecord
    BY <1>0, <2>2, <2>3, EndGoes
  <2>5. call' = [call EXCEPT ![c] = q]
    BY <2>1
  <2> HIDE DEF q
  <2> QED
    BY <2>4, <2>5
<1>7. ASSUME Replied(c) \/ ShimReplied(c)
      PROVE  \E q : Carried(q)
  <2>1. PICK h \in {"text", "call"} :
          h \in Answers(r) /\ call' = [call EXCEPT ![c] = Ended(r, h)]
    BY <1>7 DEF Replied, ShimReplied, Becomes, Answered
  <2> HIDE DEF r
  <2> DEFINE q == Ended(r, h)
  <2>2. /\ h = "call" => Speaks(r.ep)
        /\ h = "text" /\ r.via = "plain" => server[r.ep].schema
        /\ h = "call" => r.via # "plain"
    <3>1. /\ server[r.ep].lists # "denied" /\ server[r.ep].served
          /\ h = "call" => /\ r.via # "plain"
                           /\ r.via = "native" => server[r.ep].tools
                           /\ r.via = "shim" => server[r.ep].shim
          /\ h = "text" /\ r.via = "plain" => server[r.ep].schema
      BY <1>0, <2>1, AnswersMean
    <3>2. /\ r.via \in {"plain", "native", "shim"}
          /\ r.via = "shim" => setup.native # "on"
          /\ r.via = "native" => setup.native # "off"
      BY <1>0 DEF CallSays, CallRecord
    <3> QED
      BY <3>1, <3>2 DEF Speaks
  <2>3. h \in Replies /\ h \notin Errors
    BY DEF Replies, Errors
  <2>4. q \in CallRecord /\ q.at = "ended" /\ q.ep = r.ep /\ q.result = h
    BY <1>0, <2>3, EndedIs
  <2>5. call' = [call EXCEPT ![c] = q]
    BY <2>1
  <2> HIDE DEF q
  <2>6. Goes(r, q)
    BY <2>2, <2>3, <2>4 DEF Goes, CallSays
  <2> QED
    BY <2>4, <2>5, <2>6
<1>8. RetryUnforced(c) \/ UNCHANGED <<refusals, noForced>>
  BY DEF Chats, Unreachable, TimesOut, Busy, OllamaBusy, FallBack, Refused, Replied,
         ShimReplied
<1>9. CASE RetryUnforced(c)
  BY <1>4, <1>9
<1>10. CASE ~RetryUnforced(c)
  BY <1>2, <1>3, <1>5, <1>6, <1>7, <1>8, <1>10 DEF Chats
<1> QED
  BY <1>9, <1>10

(* A change of one call leaves the others as they were. *)
LEMMA CallMoves ==
  ASSUME CallTypes, NEW c \in Callers, NEW q \in CallRecord,
         call' = [call EXCEPT ![c] = q]
  PROVE  /\ call' \in [Callers -> CallRecord] /\ call'[c] = q
         /\ \A d \in Callers \ {c} : call'[d] = call[d]
  BY DEF CallTypes

(* What holds of every call once one has moved.                            *)
LEMMA OneCallKeeps ==
  ASSUME CallInv, NEW c \in Callers, NEW q \in CallRecord,
         call' = [call EXCEPT ![c] = q], CallSays(q),
         q.at = "post" /\ q.forced => refusals[c][q.ep] = 0,
         UNCHANGED <<setup, server, noForced, refusals>>
  PROVE  CallTypes' /\ CallsSay' /\ Remembered'
<1>1. /\ call' \in [Callers -> CallRecord] /\ call'[c] = q
      /\ \A d \in Callers \ {c} : call'[d] = call[d]
  BY CallMoves DEF CallInv
<1>2. CallTypes'
  BY <1>1 DEF CallInv, CallTypes
<1>3. CallsSay'
  BY <1>1 DEF CallInv, CallsSay, CallSays, Speaks, Unforeseen
<1>4. Remembered'
  BY <1>1 DEF CallInv, Remembered
<1> QED
  BY <1>2, <1>3, <1>4

(* An endpoint that has not refused anybody has not refused this caller.   *)
LEMMA NotRefused ==
  ASSUME CallInv, NEW c \in Callers, NEW e \in Endpoints, e \notin noForced
  PROVE  refusals[c][e] = 0
  BY DEF CallInv, Remembered

(* Every step of a call keeps the invariant, whoever made it. *)
LEMMA ChatKeeps ==
  ASSUME CallInv, NEW c \in Callers, Chats(c)
  PROVE  CallInv'
<1> DEFINE r == call[c]
<1>0. /\ r \in CallRecord /\ CallSays(r) /\ r.at = "post" /\ r.ep \in Endpoints
  <2>1. r.at = "post"
    BY DEF Chats, Unreachable, TimesOut, Busy, RetryUnforced, OllamaBusy, FallBack,
           Refused, Replied, ShimReplied, Answered
  <2> QED
    BY <2>1 DEF CallInv, CallTypes, CallsSay, CallSays
<1>1. PICK q \in CallRecord :
         /\ call' = [call EXCEPT ![c] = q] /\ Goes(r, q)
         /\ RetryUnforced(c) \/ UNCHANGED <<refusals, noForced>>
         /\ RetryUnforced(c) => ~q.forced
  BY <1>0, ChatGoes
<1>2. UNCHANGED <<setup, server, stage, checks>>
  BY DEF Chats, Unreachable, TimesOut, Busy, RetryUnforced, OllamaBusy, FallBack,
         Refused, Replied, ShimReplied
<1>3. /\ call' \in [Callers -> CallRecord] /\ call'[c] = q
      /\ \A d \in Callers \ {c} : call'[d] = call[d]
  BY <1>1, CallMoves DEF CallInv
<1>4. DoctorSays'
  <2>1. CASE c = Doctor
    <3>1. stage \notin {"health", "context", "over"}
      BY <1>0, <2>1 DEF CallInv, DoctorSays
    <3>2. Goes(r, q) /\ call'[Doctor] = q /\ r = call[Doctor]
      BY <1>1, <1>3, <2>1
    <3> HIDE DEF r
    <3>3. /\ q.ep = r.ep /\ q.at \in {"post", "ended"}
          /\ r.via = "plain" => /\ q.at = "post" => q.via = "plain"
                                /\ q.at = "ended" /\ q.result = "text" => server[q.ep].schema
      BY <3>2 DEF Goes
    <3>4. /\ stage \in {"context", "tools", "json"} => q.ep \in Endpoints
          /\ stage = "json" => r.via = "plain" /\ ("tool calling" \notin checks => Speaks(q.ep))
      BY <1>0, <3>2, <3>3 DEF CallInv, DoctorSays
    <3> QED
      BY <1>2, <3>1, <3>2, <3>3, <3>4 DEF DoctorSays, Speaks
  <2>2. CASE c # Doctor
    <3>1. call'[Doctor] = call[Doctor]
      BY <1>3, <2>2 DEF Callers
    <3> QED
      BY <1>2, <3>1 DEF CallInv, DoctorSays, Speaks
  <2> QED
    BY <2>1, <2>2
<1>5. CASE UNCHANGED <<refusals, noForced>>
  <2>1. q.at = "post" /\ q.forced => refusals[c][q.ep] = 0
    <3> SUFFICES ASSUME q.at = "post", q.forced PROVE refusals[c][q.ep] = 0
      OBVIOUS
    <3>1. q.ep = r.ep /\ (r.forced \/ q.ep \notin noForced)
      BY <1>1 DEF Goes
    <3>2. CASE r.forced
      BY <1>0, <3>1, <3>2 DEF CallInv, Remembered
    <3>3. CASE q.ep \notin noForced
      BY <1>0, <3>1, <3>3, NotRefused
    <3> QED
      BY <3>1, <3>2, <3>3
  <2>2. CallSays(q)
    BY <1>1 DEF Goes
  <2>3. CallTypes' /\ CallsSay' /\ Remembered'
    BY <1>1, <1>2, <1>5, <2>1, <2>2, OneCallKeeps
  <2> QED
    BY <1>4, <2>3 DEF CallInv
<1>6. CASE RetryUnforced(c)
  <2>1. /\ noForced' = noForced \cup {r.ep}
        /\ refusals' = [refusals EXCEPT ![c][r.ep] = @ + 1]
        /\ "no choice" \in Answers(r)
    BY <1>6 DEF RetryUnforced, Answered
  <2> HIDE DEF r
  <2>2. r.forced
    <3>1. server[r.ep] \in Server /\ (r.forced => r.via = "native")
      BY <1>0 DEF CallInv, CallTypes, CallSays
    <3> QED
      BY <1>0, <2>1, <3>1, AnswersMean
  <2>3. refusals[c][r.ep] = 0
    BY <1>0, <2>2 DEF CallInv, Remembered, r
  <2>4. refusals \in [Callers -> [Endpoints -> Nat]]
    BY DEF CallInv, CallTypes
  <2>5. /\ refusals' \in [Callers -> [Endpoints -> Nat]]
        /\ refusals'[c][r.ep] = 1
        /\ \A d \in Callers, e \in Endpoints :
             ~(d = c /\ e = r.ep) => refusals'[d][e] = refusals[d][e]
    <3> DEFINE k == [refusals[c] EXCEPT ![r.ep] = @ + 1]
    <3>1. refusals' = [refusals EXCEPT ![c] = k]
      BY <2>1
    <3>2. /\ k \in [Endpoints -> Nat] /\ k[r.ep] = 1
          /\ \A e \in Endpoints \ {r.ep} : k[e] = refusals[c][e]
      BY <1>0, <2>3, <2>4
    <3> HIDE DEF k
    <3> QED
      BY <1>0, <2>4, <3>1, <3>2
  <2>6. CallTypes'
    BY <1>0, <1>2, <1>3, <2>1, <2>5 DEF CallInv, CallTypes
  <2>7. CallsSay'
    BY <1>1, <1>2, <1>3 DEF CallInv, CallsSay, CallSays, Speaks, Goes, Unforeseen
  <2>8. Remembered'
    <3>1. ~q.forced
      BY <1>1, <1>6
    <3>2. ASSUME NEW d \in Callers
          PROVE  /\ \A e \in Endpoints : /\ refusals'[d][e] \in {0, 1}
                                         /\ refusals'[d][e] = 1 => e \in noForced'
      <4>1. \A e \in Endpoints : /\ refusals[d][e] \in {0, 1}
                                 /\ refusals[d][e] = 1 => e \in noForced
        BY DEF CallInv, Remembered
      <4> QED
        BY <2>1, <2>5, <4>1
    <3>3. ASSUME NEW d \in Callers, call'[d].at = "post", call'[d].forced
          PROVE  refusals'[d][call'[d].ep] = 0
      <4>1. d # c /\ call'[d] = call[d]
        BY <1>3, <3>1, <3>3
      <4>2. call[d].ep \in Endpoints
        BY <3>3, <4>1 DEF CallInv, CallsSay, CallSays
      <4> QED
        BY <2>5, <3>3, <4>1, <4>2 DEF CallInv, Remembered
    <3> QED
      BY <3>2, <3>3 DEF Remembered
  <2> QED
    BY <1>4, <2>6, <2>7, <2>8 DEF CallInv
<1> QED
  BY <1>1, <1>5, <1>6

(* An agent that begins a call meets what the process remembers by then. *)
LEMMA AgentCallsKeeps ==
  ASSUME CallInv, NEW a \in Agents, AgentCalls(a)
  PROVE  CallInv'
<1>1. PICK named \in BOOLEAN : Begin(a, Resolved, TRUE, named)
  BY DEF AgentCalls
<1>2. a \in Callers /\ a # Doctor /\ CallTypes
      /\ UNCHANGED <<setup, server, noForced, refusals, stage, checks>>
  BY ModelCallsAssumption DEF Callers, CallInv, AgentCalls
<1>3. PICK q \in CallRecord :
         /\ call' = [call EXCEPT ![a] = q] /\ CallSays(q)
         /\ q.at = "post" /\ q.forced => q.ep \notin noForced
  <2>1. PICK e \in Endpoints \cup {"none", "offline"} : e = Resolved
    BY <1>2, ResolvedIs
  <2>2. PICK tools \in BOOLEAN : tools
    OBVIOUS
  <2>3. Begin(a, e, tools, named)
    BY <1>1, <2>1, <2>2 DEF Begin
  <2> QED
    BY <1>2, <2>3, BeginIs
<1>4. q.at = "post" /\ q.forced => refusals[a][q.ep] = 0
  BY <1>2, <1>3, NotRefused DEF CallSays
<1>5. CallTypes' /\ CallsSay' /\ Remembered'
  BY <1>2, <1>3, <1>4, OneCallKeeps
<1>6. call'[Doctor] = call[Doctor]
  BY <1>2, <1>3, CallMoves DEF Callers
<1>7. DoctorSays'
  BY <1>2, <1>6 DEF CallInv, DoctorSays, Speaks
<1> QED
  BY <1>5, <1>7 DEF CallInv

(* The doctor's probes and what it makes of them. *)
LEMMA DiagnoseKeeps ==
  ASSUME CallInv, Diagnose
  PROVE  CallInv'
<1> DEFINE d == call[Doctor]
<1>0. /\ Doctor \in Callers /\ d \in CallRecord /\ CallSays(d) /\ CallTypes /\ DoctorSays
      /\ UNCHANGED <<setup, server, noForced, refusals>>
  BY DEF Callers, CallInv, CallTypes, CallsSay, Diagnose, CheckHealth, CheckContext,
         StartToolProbe, StartJsonProbe, JudgeJsonProbe, JudgeToolProbe, Diagnosed
<1>1. CASE CheckHealth
  <2> DEFINE q == [d EXCEPT !.ep = Resolved]
  <2>1. /\ stage = "health" /\ call' = [call EXCEPT ![Doctor] = q]
        /\ \/ stage' = "over" /\ (Resolved \in Endpoints => checks' # {})
           \/ stage' = "context" /\ Resolved \in Endpoints
    BY <1>1 DEF CheckHealth, Diagnosed
  <2>2. d.at = "idle"
    BY <1>0, <2>1 DEF DoctorSays
  <2> HIDE DEF d
  <2>3. q \in CallRecord /\ q.at = "idle" /\ q.ep = Resolved
    BY <1>0, <2>2, ResolvedIs DEF CallRecord
  <2> HIDE DEF q
  <2>4. CallTypes' /\ CallsSay' /\ Remembered'
    BY <1>0, <2>1, <2>3, OneCallKeeps DEF CallSays
  <2>5. call'[Doctor] = q
    BY <1>0, <2>1, <2>3, CallMoves
  <2>6. DoctorSays'
    BY <2>1, <2>3, <2>5 DEF DoctorSays
  <2> QED
    BY <2>4, <2>6 DEF CallInv
<1>2. CASE StartToolProbe \/ StartJsonProbe
  <2>1. PICK tools \in BOOLEAN :
          /\ Begin(Doctor, d.ep, tools, FALSE) /\ stage' = stage
          /\ stage = IF tools THEN "tools" ELSE "json"
          /\ checks \subseteq checks'
          /\ ~tools => checks' = checks
    BY <1>2 DEF StartToolProbe, StartJsonProbe, Diagnosed
  <2>2. d.ep \in Endpoints
    BY <1>0, <2>1 DEF DoctorSays
  <2>3. PICK q \in CallRecord :
         /\ call' = [call EXCEPT ![Doctor] = q] /\ CallSays(q) /\ q.ep = d.ep
         /\ q.at = "post"
         /\ ~tools => q.via = "plain"
         /\ q.forced => q.ep \notin noForced
    <3>1. PICK e \in Endpoints : e = d.ep
      BY <2>2
    <3>2. PICK named \in BOOLEAN : ~named
      OBVIOUS
    <3>3. Begin(Doctor, e, tools, named)
      BY <2>1, <3>1, <3>2 DEF Begin
    <3> QED
      BY <1>0, <3>1, <3>3, BeginIs
  <2>4. q.at = "post" /\ q.forced => refusals[Doctor][q.ep] = 0
    BY <1>0, <2>2, <2>3, NotRefused
  <2>5. CallTypes' /\ CallsSay' /\ Remembered'
    BY <1>0, <2>3, <2>4, OneCallKeeps
  <2>6. call'[Doctor] = q
    BY <1>0, <2>3, CallMoves
  <2>7. DoctorSays'
    BY <1>0, <2>1, <2>2, <2>3, <2>6 DEF DoctorSays, Speaks
  <2> QED
    BY <2>5, <2>7 DEF CallInv
<1>3. CASE JudgeToolProbe
  <2> DEFINE q == [d EXCEPT !.at = "idle"]
  <2>1. /\ stage = "tools" /\ d.at = "ended" /\ call' = [call EXCEPT ![Doctor] = q]
        /\ stage' = "json"
        /\ d.result = "call" \/ "tool calling" \in checks'
    BY <1>3 DEF JudgeToolProbe, Diagnosed
  <2>2. d.ep \in Endpoints
    BY <1>0, <2>1 DEF DoctorSays
  <2>3. d.result = "call" => Speaks(d.ep)
    BY <1>0, <2>1, <2>2 DEF CallSays
  <2> HIDE DEF d
  <2>4. q \in CallRecord /\ q.at = "idle" /\ q.ep = d.ep
    BY <1>0 DEF CallRecord
  <2> HIDE DEF q
  <2>5. CallTypes' /\ CallsSay' /\ Remembered'
    BY <1>0, <2>1, <2>4, OneCallKeeps DEF CallSays
  <2>6. call'[Doctor] = q
    BY <1>0, <2>1, <2>4, CallMoves
  <2>7. DoctorSays'
    BY <1>0, <2>1, <2>2, <2>3, <2>4, <2>6 DEF DoctorSays, Speaks
  <2> QED
    BY <2>5, <2>7 DEF CallInv
<1>4. CASE JudgeJsonProbe
  <2> DEFINE q == [NoCall EXCEPT !.ep = d.ep]
  <2>1. /\ stage = "json" /\ d.at = "ended" /\ call' = [call EXCEPT ![Doctor] = q]
        /\ stage' = "over" /\ checks \subseteq checks'
        /\ d.result = "text" \/ checks' # {}
    BY <1>4 DEF JudgeJsonProbe, Diagnosed
  <2>2. /\ d.ep \in Endpoints
        /\ checks' = {} => Speaks(d.ep) /\ server[d.ep].schema
    BY <1>0, <2>1 DEF DoctorSays
  <2> HIDE DEF d
  <2>3. q \in CallRecord /\ q.at = "idle" /\ q.ep = d.ep
    BY <1>0 DEF CallRecord, NoCall, Replies
  <2> HIDE DEF q
  <2>4. CallTypes' /\ CallsSay' /\ Remembered'
    BY <1>0, <2>1, <2>3, OneCallKeeps DEF CallSays
  <2>5. call'[Doctor] = q
    BY <1>0, <2>1, <2>3, CallMoves
  <2>6. DoctorSays'
    BY <1>0, <2>1, <2>2, <2>3, <2>5 DEF DoctorSays, Speaks
  <2> QED
    BY <2>4, <2>6 DEF CallInv
<1>5. CASE CheckContext
  <2>1. /\ stage = "context" /\ call' = call /\ stage' = IF setup.probe THEN "tools" ELSE "over"
    BY <1>5 DEF CheckContext, Diagnosed
  <2>2. CallTypes' /\ CallsSay' /\ Remembered'
    BY <1>0, <2>1
       DEF CallInv, CallTypes, CallsSay, CallSays, Remembered, Speaks, Unforeseen
  <2>3. DoctorSays'
    BY <1>0, <2>1 DEF DoctorSays
  <2> QED
    BY <2>2, <2>3 DEF CallInv
<1> QED
  BY <1>1, <1>2, <1>3, <1>4, <1>5 DEF Diagnose

(* Every step of the callers, the doctor and the servers keeps the invariant. *)
LEMMA CallInvStep == CallInv /\ [CallsNext]_callVars => CallInv'
<1> SUFFICES ASSUME CallInv, [CallsNext]_callVars PROVE CallInv'
  OBVIOUS
<1>1. CASE (\E e \in Endpoints : Switch(e)) \/ UNCHANGED callVars
  <2>1. UNCHANGED <<setup, server, noForced, call, refusals, stage, checks>>
    BY <1>1 DEF Switch, callVars
  <2> QED
    BY <2>1 DEF CallInv, CallTypes, CallsSay, CallSays, Remembered, DoctorSays, Speaks, Unforeseen
<1> QED
  BY <1>1, ChatKeeps, AgentCallsKeeps, DiagnoseKeeps DEF CallsNext

(* openai_compat.py: a caller meets the refusal of a named tool once per   *)
(* server at most, for any number of threads, calls and troubles.          *)
THEOREM RefusedOnceEach == CallsSpec => []RefusedOnce
<1>1. CallInv => RefusedOnce
  <2> SUFFICES ASSUME CallInv, NEW c \in Callers, NEW e \in Endpoints
               PROVE  refusals[c][e] <= 1
    BY DEF RefusedOnce
  <2>1. refusals[c][e] \in {0, 1}
    BY DEF CallInv, Remembered
  <2> QED
    BY <2>1
<1> QED
  BY <1>1, CallInvInit, CallInvStep, PTL DEF CallsSpec

(* doctor.py: after a clean report that rests on the probes, no call to    *)
(* that endpoint fails unless the server was down, busy or late, or the    *)
(* refusal of a named tool was one the client does not know; whatever else *)
(* the servers can do.                                                     *)
THEOREM CleanBillsHold == CallsSpec => []CleanBillHolds
<1>1. CallInv => CleanBillHolds
  <2> SUFFICES ASSUME CallInv, NEW a \in Agents,
                      stage = "over", checks = {}, setup.probe,
                      call[Doctor].ep = call[a].ep, call[a].ep \in Endpoints,
                      call[a].at = "ended", ~call[a].troubled, ~Unforeseen(call[a])
               PROVE  call[a].result \notin Errors
    BY DEF CleanBillHolds
  <2>1. Speaks(call[a].ep) /\ server[call[a].ep].schema
    BY DEF CallInv, DoctorSays
  <2>2. CallSays(call[a])
    BY DEF CallInv, CallsSay, Callers
  <2> QED
    BY <2>1, <2>2 DEF CallSays
<1> QED
  BY <1>1, CallInvInit, CallInvStep, PTL DEF CallsSpec
---------------------------------------------------------------------------
(* Dialogue.  An answer whose words speak of no folder names the one that  *)
(* was worked in, and none when nothing was; and a folder once worked in   *)
(* stays on disk, so the project found there is one that can be used.      *)
TurnRecord ==
  [path : Paths \cup {None}, asks : BOOLEAN, spoke : BOOLEAN,
   dir : Folders \cup {NoFolder}, worked : Folders \cup {NoFolder},
   source : {"swarm", "triage", "clarify", "error"}]

TalkTypes ==
  /\ disk \in [Folders -> States]
  /\ history \in Seq(TurnRecord)
  /\ talk.at # "idle" => talk.message \in Sayings /\ Len(history) < MaxTurns

(* What an answer names, and where the swarm was.                          *)
SaysWhere(e, there) ==
  /\ e.source = "swarm" => /\ e.worked \in Folders /\ there[e.worked] # "absent"
                           /\ ~e.spoke => e.dir = e.worked
  /\ e.source # "swarm" => (~e.spoke => e.dir = NoFolder)

AnswersSayWhere == \A i \in 1 .. Len(history) : SaysWhere(history[i], disk)

TalkPlaced ==
  talk.at = "work" =>
    /\ talk.dir \in Folders /\ disk[talk.dir] # "absent"
    /\ /\ ~talk.message.create
       /\ PriorProject \in Folders
       /\ disk[PriorProject] # "absent"
       => talk.dir = PriorProject

TalkInv == TalkTypes /\ AnswersSayWhere /\ TalkPlaced

(* The mark for no folder is none of them. *)
LEMMA NoFolderIsNone == NoFolder \notin Folders
<1>1. -2 \notin -1 .. MaxTurns /\ -2 \notin 1 .. MaxTurns
  BY DialogueAssumption
<1> QED
  BY <1>1 DEF NoFolder, Folders

(* The last project is the folder of the latest answer that has one.       *)
LEMMA PriorIsLatest ==
  ASSUME TalkTypes, NEW i \in 1 .. Len(history), history[i].dir # NoFolder,
         \A j \in i + 1 .. Len(history) : history[j].dir = NoFolder
  PROVE  PriorProject = history[i].dir
<1> DEFINE at == {k \in DOMAIN history : history[k].dir # NoFolder}
<1>2. DOMAIN history = 1 .. Len(history) /\ Len(history) \in Nat
  BY DEF TalkTypes
<1>3. i \in at /\ at # {} /\ at \subseteq 1 .. Len(history)
  BY <1>2
<1>4. \A k \in at : i >= k
  <2> SUFFICES ASSUME NEW k \in at, ~(i >= k) PROVE FALSE
    OBVIOUS
  <2>1. k \in i + 1 .. Len(history)
    BY <1>2
  <2> QED
    BY <2>1
<1> DEFINE Top(m) == \A k \in at : m >= k
<1>5. \A m \in at : Top(m) => m = i
  <2> SUFFICES ASSUME NEW m \in at, Top(m) PROVE m = i
    OBVIOUS
  <2>1. m >= i /\ i >= m /\ m \in Nat /\ i \in Nat
    BY <1>2, <1>3, <1>4
  <2> QED
    BY <2>1
<1>6. (CHOOSE m \in at : Top(m)) = i
  BY <1>3, <1>4, <1>5
<1>7. PriorProject = IF at = {} THEN NoFolder ELSE history[CHOOSE m \in at : Top(m)].dir
  BY DEF PriorProject
<1> HIDE DEF at, Top
<1> QED
  BY <1>3, <1>6, <1>7

(* The project found in the history is a folder, if there is one. *)
LEMMA PriorIsFolder ==
  ASSUME TalkTypes, PriorProject # NoFolder
  PROVE  PriorProject \in Folders
<1> DEFINE at == {k \in DOMAIN history : history[k].dir # NoFolder}
<1>1. DOMAIN history = 1 .. Len(history) /\ Len(history) \in Nat
  BY DEF TalkTypes
<1>2. at \subseteq 1 .. Len(history)
  BY <1>1
<1>3. PriorProject = IF at = {} THEN NoFolder
                     ELSE history[CHOOSE m \in at : \A k \in at : m >= k].dir
  BY DEF PriorProject
<1>4. at # {}
  BY <1>3
<1>5. PICK m \in at : PriorProject = history[m].dir
  <2> DEFINE Top(m) == \A k \in at : m >= k
  <2>1. \E m \in at : Top(m)
    <3> HIDE DEF at
    <3> QED
      BY <1>1, <1>2, <1>4, GreatestMember
  <2> HIDE DEF at, Top
  <2>2. (CHOOSE m \in at : Top(m)) \in at
    BY <2>1
  <2> USE DEF Top
  <2> QED
    BY <1>3, <1>4, <2>2
<1>6. m \in 1 .. Len(history) /\ history[m].dir # NoFolder
  BY <1>1
<1>7. history[m] \in TurnRecord
  BY <1>6 DEF TalkTypes
<1> QED
  BY <1>5, <1>6, <1>7 DEF TurnRecord

(* What is harvested from the messages is a path, if anything is.          *)
LEMMA HarvestedIsPath ==
  ASSUME TalkTypes, NEW m \in Sayings, Harvested(m) # None
  PROVE  Harvested(m) \in Paths
<1> DEFINE at == {k \in DOMAIN history : k > Len(history) - 6 /\ history[k].path # None}
           Low(k) == \A j \in at : k <= j
<1>1. DOMAIN history = 1 .. Len(history) /\ Len(history) \in Nat
  BY DEF TalkTypes
<1>2. at \subseteq Nat /\ at \subseteq 1 .. Len(history)
  BY <1>1
<1>3. Harvested(m) = IF m.path # None THEN m.path
                     ELSE IF at = {} THEN None
                     ELSE history[CHOOSE k \in at : Low(k)].path
  BY DEF Harvested
<1>4. CASE m.path # None
  BY <1>3, <1>4 DEF Sayings
<1>5. CASE m.path = None
  <2>1. at # {}
    BY <1>3, <1>5
  <2>2. \E k \in at : Low(k)
    <3> HIDE DEF at
    <3> QED
      BY <1>2, <2>1, LeastMember
  <2>3. PICK k \in at : Harvested(m) = history[k].path
    <3> HIDE DEF at, Low
    <3>1. (CHOOSE k \in at : Low(k)) \in at
      BY <2>2
    <3> QED
      BY <1>3, <1>5, <2>1, <3>1
  <2>4. history[k] \in TurnRecord
    BY <1>2 DEF TalkTypes
  <2> QED
    BY <2>3, <2>4 DEF TurnRecord
<1> QED
  BY <1>4, <1>5

(* With no turn there is nothing to find.                                  *)
LEMMA TalkInvInit == TalkInit => TalkInv
<1> SUFFICES ASSUME TalkInit PROVE TalkInv
  OBVIOUS
<1>1. history = <<>> /\ talk.at = "idle"
  BY DEF TalkInit, NoTurn
<1>2. history \in Seq(TurnRecord) /\ Len(history) = 0
  BY <1>1
<1>3. PICK d \in [Paths -> States] :
         disk = [f \in Folders |-> IF f[2] = 0 THEN d[f[1]] ELSE "absent"]
  BY DEF TalkInit
<1>4. ASSUME NEW f \in Folders PROVE disk[f] \in States
  <2>1. CASE f[2] = 0
    <3>1. f \in Paths \X (-1 .. MaxTurns) \/ f \in {"runs"} \X (1 .. MaxTurns)
      BY DEF Folders
    <3>2. f[1] \in Paths
      BY <2>1, <3>1
    <3> QED
      BY <1>3, <2>1, <3>2
  <2>2. CASE f[2] # 0
    BY <1>3, <2>2 DEF States
  <2> QED
    BY <2>1, <2>2
<1>5. disk \in [Folders -> States]
  BY <1>3, <1>4
<1> QED
  BY <1>1, <1>2, <1>5 DEF TalkInv, TalkTypes, AnswersSayWhere, TalkPlaced

(* An answer that names what it should keeps the invariant, if no folder   *)
(* is removed meanwhile.                                                   *)
LEMMA AnswerKeeps ==
  ASSUME TalkInv, talk.at # "idle",
         NEW asks \in BOOLEAN, NEW spoke \in BOOLEAN,
         NEW dir \in Folders \cup {NoFolder}, NEW worked \in Folders \cup {NoFolder},
         NEW source \in {"swarm", "triage", "clarify", "error"},
         Answer(asks, spoke, dir, worked, source),
         disk' \in [Folders -> States],
         \A f \in Folders : disk[f] # "absent" => disk'[f] # "absent",
         source = "swarm" => /\ worked \in Folders /\ disk[worked] # "absent"
                             /\ ~spoke => dir = worked,
         source # "swarm" => (~spoke => dir = NoFolder)
  PROVE  TalkInv'
<1> DEFINE e == [path |-> talk.message.path, asks |-> asks, spoke |-> spoke, dir |-> dir,
                 worked |-> worked, source |-> source]
<1>1. history' = Append(history, e) /\ talk'.at = "idle"
  BY DEF Answer, NoTurn
<1>2. /\ e \in TurnRecord
      /\ SaysWhere(e, disk')
  <2>1. talk.message.path \in Paths \cup {None}
    BY DEF TalkInv, TalkTypes, Sayings
  <2>2. e \in TurnRecord
    BY <2>1 DEF TurnRecord
  <2>3. /\ e.source = source /\ e.spoke = spoke /\ e.dir = dir /\ e.worked = worked
    OBVIOUS
  <2> HIDE DEF e
  <2> QED
    BY <2>2, <2>3 DEF SaysWhere
<1> HIDE DEF e
<1>3. history \in Seq(TurnRecord)
  BY DEF TalkInv, TalkTypes
<1>4. /\ history' \in Seq(TurnRecord) /\ Len(history') = Len(history) + 1
      /\ \A i \in 1 .. Len(history) : history'[i] = history[i]
      /\ history'[Len(history) + 1] = e /\ Len(history) \in Nat
  BY <1>1, <1>2, <1>3
<1>5. TalkTypes'
  BY <1>1, <1>4 DEF TalkTypes
<1>6. AnswersSayWhere'
  <2> SUFFICES ASSUME NEW i \in 1 .. Len(history') PROVE SaysWhere(history'[i], disk')
    BY DEF AnswersSayWhere
  <2>1. CASE i = Len(history) + 1
    BY <1>2, <1>4, <2>1
  <2>2. CASE i \in 1 .. Len(history)
    <3>1. SaysWhere(history[i], disk) /\ history'[i] = history[i]
      BY <1>4, <2>2 DEF TalkInv, AnswersSayWhere
    <3> QED
      BY <3>1 DEF SaysWhere
  <2> QED
    BY <1>4, <2>1, <2>2
<1> QED
  BY <1>1, <1>5, <1>6 DEF TalkInv, TalkPlaced

(* An answer as somebody wrote it is one.                                  *)
LEMMA AsIsKeeps ==
  ASSUME TalkInv, talk.at # "idle", NEW asks \in BOOLEAN,
         NEW source \in {"triage", "clarify", "error"},
         AnswerAsIs(asks, source), UNCHANGED disk
  PROVE  TalkInv'
<1>1. PICK f \in Nameable \cup {NoFolder} : Answer(asks, f # NoFolder, f, NoFolder, source)
  BY DEF AnswerAsIs
<1>2. PICK spoke \in BOOLEAN : spoke <=> f # NoFolder
  OBVIOUS
<1>3. Answer(asks, spoke, f, NoFolder, source)
  <2>1. spoke = (f # NoFolder)
    BY <1>2
  <2> QED
    BY <1>1, <2>1
<1>4. f \in Folders \cup {NoFolder}
  BY <1>1, DialogueAssumption DEF Nameable
<1>5. disk' \in [Folders -> States] /\ disk' = disk
  BY DEF TalkInv, TalkTypes
<1> QED
  BY <1>2, <1>3, <1>4, <1>5, AnswerKeeps

(* The folders the orchestrator picks are folders.                         *)
LEMMA FoldersAreFolders ==
  ASSUME TalkTypes, talk.at # "idle"
  PROVE  /\ RunDir(Len(history) + 1) \in Folders
         /\ \A p \in Paths, create \in BOOLEAN : FolderFor(p, create) \in Folders
<1>1. Len(history) \in Nat /\ Len(history) + 1 \in 1 .. MaxTurns /\ MaxTurns \in Nat
  BY DialogueAssumption DEF TalkTypes
<1>2. /\ 0 \in -1 .. MaxTurns /\ -1 \in -1 .. MaxTurns
      /\ Len(history) + 1 \in -1 .. MaxTurns
  BY <1>1
<1>3. RunDir(Len(history) + 1) \in Folders
  BY <1>1 DEF RunDir, Folders
<1>4. ASSUME NEW p \in Paths, NEW create \in BOOLEAN
      PROVE  FolderFor(p, create) \in Folders
  <2>1. Named(p) \in Folders /\ Slug(p) \in Folders /\ Suffixed(p, Len(history) + 1) \in Folders
    BY <1>2 DEF Named, Slug, Suffixed, Folders
  <2> QED
    BY <2>1 DEF FolderFor
<1> QED
  BY <1>3, <1>4

(* Every step of a turn keeps the invariant of the conversation. *)
LEMMA TalkInvStep == TalkInv /\ [TalkNext]_talkVars => TalkInv'
<1> SUFFICES ASSUME TalkInv, [TalkNext]_talkVars PROVE TalkInv'
  OBVIOUS
<1>0. UNCHANGED history => PriorProject' = PriorProject
  BY DEF PriorProject
<1>1. ASSUME NEW m \in Sayings, Say(m) PROVE TalkInv'
  BY <1>1 DEF Say, TalkInv, TalkTypes, AnswersSayWhere, TalkPlaced
<1>2. CASE Chat \/ AskTriaged \/ AskForInputs \/ Crash
  <2>1. /\ UNCHANGED disk /\ talk.at # "idle"
        /\ \E asks \in BOOLEAN, source \in {"triage", "clarify", "error"} :
             AnswerAsIs(asks, source)
    BY <1>2 DEF Chat, AskTriaged, AskForInputs, Crash
  <2> QED
    BY <2>1, AsIsKeeps
<1>3. CASE Plan
  <2>1. /\ talk.at = "triage" /\ talk' = [talk EXCEPT !.at = "resolve"]
        /\ UNCHANGED <<disk, history>>
    BY <1>3 DEF Plan
  <2>2. (talk'.at = "resolve" /\ talk'.message = talk.message) \/ talk' = talk
    BY <2>1
  <2> QED
    BY <1>0, <2>1, <2>2 DEF TalkInv, TalkTypes, AnswersSayWhere, TalkPlaced
<1>4. CASE Resolve
  <2> DEFINE m == talk.message
             path == Harvested(m)
  <2>0. /\ talk.at = "resolve" /\ TalkTypes /\ m \in Sayings /\ m.create \in BOOLEAN
        /\ disk \in [Folders -> States]
    BY <1>4 DEF Resolve, TalkInv, TalkTypes, Sayings
  <2>1. \/ PriorProject # NoFolder /\ ~m.create /\ Work(PriorProject)
        \/ /\ ~(PriorProject # NoFolder /\ ~m.create /\ Usable(PriorProject))
           /\ \/ path # None /\ Work(FolderFor(path, m.create))
              \/ Work(RunDir(Len(history) + 1))
    BY <1>4 DEF Resolve
  <2> HIDE DEF m, path
  <2>2. path # None => path \in Paths
    BY <2>0, HarvestedIsPath DEF path
  <2>3. PICK f \in Folders :
          /\ Work(f)
          /\ /\ ~m.create /\ PriorProject \in Folders /\ disk[PriorProject] # "absent"
             => f = PriorProject
    <3>1. CASE PriorProject # NoFolder /\ ~m.create /\ Work(PriorProject)
      BY <2>0, <3>1, PriorIsFolder
    <3>2. ASSUME ~(PriorProject # NoFolder /\ ~m.create /\ Usable(PriorProject)),
                 NEW f \in Folders, Work(f)
          PROVE  /\ ~m.create /\ PriorProject \in Folders /\ disk[PriorProject] # "absent"
                 => f = PriorProject
      BY <3>2, NoFolderIsNone DEF Usable
    <3>3. RunDir(Len(history) + 1) \in Folders
      BY <2>0, FoldersAreFolders
    <3>4. path # None => FolderFor(path, m.create) \in Folders
      BY <2>0, <2>2, FoldersAreFolders
    <3> QED
      BY <2>1, <3>1, <3>2, <3>3, <3>4
  <2>4. /\ UNCHANGED history /\ talk'.at = "work" /\ talk'.dir = f /\ talk'.message = m
    BY <2>3 DEF Work, m
  <2>5. /\ disk' \in [Folders -> States] /\ disk'[f] # "absent"
        /\ \A g \in Folders \ {f} : disk'[g] = disk[g]
        /\ disk[f] # "absent" => disk'[f] = disk[f]
    BY <2>0, <2>3 DEF Work, States
  <2>6. TalkTypes'
    BY <2>0, <2>4, <2>5 DEF TalkTypes
  <2>7. AnswersSayWhere'
    <3> SUFFICES ASSUME NEW i \in 1 .. Len(history) PROVE SaysWhere(history[i], disk')
      BY <2>4 DEF AnswersSayWhere
    <3>1. SaysWhere(history[i], disk)
      BY DEF TalkInv, AnswersSayWhere
    <3> QED
      BY <2>5, <3>1 DEF SaysWhere
  <2>8. TalkPlaced'
    BY <1>0, <2>3, <2>4, <2>5 DEF TalkPlaced
  <2> QED
    BY <2>6, <2>7, <2>8 DEF TalkInv
<1>5. CASE Finish
  <2>1. PICK asks \in BOOLEAN, phrase \in BOOLEAN, own \in Nameable \cup {NoFolder} :
          Answer(asks, phrase \/ own # NoFolder, Footed(own, phrase), talk.dir, "swarm")
    BY <1>5 DEF Finish
  <2>2. PICK left \in {disk[talk.dir], "root", "holder"} :
          disk' = [disk EXCEPT ![talk.dir] = left]
    BY <1>5 DEF Finish
  <2>3. /\ talk.dir \in Folders /\ disk[talk.dir] # "absent" /\ disk \in [Folders -> States]
        /\ talk.at # "idle"
    BY <1>5 DEF Finish, TalkInv, TalkPlaced, TalkTypes
  <2>4. PICK d \in Folders : d = talk.dir
    BY <2>3
  <2>5. /\ disk' \in [Folders -> States]
        /\ \A f \in Folders : disk[f] # "absent" => disk'[f] # "absent"
    BY <2>2, <2>3 DEF States
  <2>6. PICK spoke \in BOOLEAN : spoke = (phrase \/ own # NoFolder)
    OBVIOUS
  <2>7. PICK dir \in Folders \cup {NoFolder} :
          dir = Footed(own, phrase) /\ (~spoke => dir = d)
    <3>1. Footed(own, phrase) \in Folders \cup {NoFolder}
      BY <2>3, DialogueAssumption DEF Footed, Nameable
    <3>2. ~spoke => Footed(own, phrase) = d
      BY <2>4, <2>6 DEF Footed
    <3> QED
      BY <3>1, <3>2
  <2>8. Answer(asks, spoke, dir, d, "swarm")
    BY <2>1, <2>4, <2>6, <2>7 DEF Answer
  <2> QED
    BY <2>3, <2>4, <2>5, <2>7, <2>8, AnswerKeeps
<1>6. CASE UNCHANGED talkVars
  BY <1>0, <1>6 DEF talkVars, TalkInv, TalkTypes, AnswersSayWhere, TalkPlaced
<1> QED
  BY <1>1, <1>2, <1>3, <1>4, <1>5, <1>6 DEF TalkNext

(* orchestrator.py: a planned turn that creates nothing works where the    *)
(* latest planned turn worked, for any conversation whose answers since    *)
(* then spoke of no folder in words of their own.                          *)
THEOREM FollowUpsStay == TalkSpec => []FollowUpStays
<1>1. TalkInv => FollowUpStays
  <2> SUFFICES ASSUME TalkInv, talk.at = "work", ~talk.message.create,
                      NEW i \in DOMAIN history, history[i].source = "swarm",
                      \A j \in i + 1 .. Len(history) : history[j].source # "swarm",
                      \A j \in i .. Len(history) : ~history[j].spoke
               PROVE  talk.dir = history[i].worked
    BY DEF FollowUpStays
  <2>1. DOMAIN history = 1 .. Len(history) /\ Len(history) \in Nat /\ TalkTypes
    BY DEF TalkInv, TalkTypes
  <2>2. \A j \in 1 .. Len(history) : SaysWhere(history[j], disk)
    BY DEF TalkInv, AnswersSayWhere
  <2>3. i \in 1 .. Len(history) /\ i \in i .. Len(history)
    BY <2>1
  <2>4. /\ history[i].dir = history[i].worked /\ history[i].worked \in Folders
        /\ disk[history[i].worked] # "absent"
    BY <2>2, <2>3 DEF SaysWhere
  <2>5. \A j \in i + 1 .. Len(history) : history[j].dir = NoFolder
    <3> SUFFICES ASSUME NEW j \in i + 1 .. Len(history) PROVE history[j].dir = NoFolder
      OBVIOUS
    <3>1. j \in 1 .. Len(history) /\ j \in i .. Len(history)
      BY <2>3
    <3> QED
      BY <2>2, <3>1 DEF SaysWhere
  <2>6. PriorProject = history[i].worked
    BY <2>1, <2>3, <2>4, <2>5, PriorIsLatest, NoFolderIsNone
  <2> QED
    BY <2>4, <2>6 DEF TalkInv, TalkPlaced
<1> QED
  BY <1>1, TalkInvInit, TalkInvStep, PTL DEF TalkSpec

---------------------------------------------------------------------------
(* RunEvents.  An open stream has sent, in order, what was begun in the    *)
(* part of the file it has read but for what it saw in part; a head whose  *)
(* rest it has not read is among those.  What a read parses is the list of *)
(* the lines that end in it, which is in the order of the file because the *)
(* lock keeps the two pieces of a long line together.                      *)

(* Induction over the natural numbers, for what a set can say.             *)
LEMMA SetInduction ==
  ASSUME NEW T, 0 \in T, \A n \in Nat : n \in T => n + 1 \in T
  PROVE  Nat \subseteq T
<1> DEFINE U == Nat \ T
<1>1. SUFFICES ASSUME U # {} PROVE FALSE
  OBVIOUS
<1>2. PICK x \in U : \A y \in U : x <= y
  BY <1>1, LeastMember
<1>3. x # 0 /\ x - 1 \in Nat
  BY <1>2
<1>4. x - 1 \in T
  BY <1>2, <1>3
<1>5. QED
  BY <1>3, <1>4

Increasing(s, n) == \A i, j \in 1 .. n : i < j => s[i] < s[j]

(* A set of numbers up to a bound can be listed in increasing order.       *)
LEMMA ListExists ==
  ASSUME NEW m \in Nat, NEW S \in SUBSET (1 .. m)
  PROVE  \E s \in [1 .. Cardinality(S) -> S] : Increasing(s, Cardinality(S))
<1> DEFINE HasList(R) == \E s \in [1 .. Cardinality(R) -> R] :
                          Increasing(s, Cardinality(R))
           T == {k \in Nat : \A R \in SUBSET (1 .. k) : HasList(R)}
<1>1. 0 \in T
  <2> SUFFICES ASSUME NEW R \in SUBSET (1 .. 0) PROVE HasList(R)
    OBVIOUS
  <2>1. R = {}
    OBVIOUS
  <2> HIDE DEF HasList
  <2>2. Cardinality(R) = 0
    BY <2>1, FS_EmptySet
  <2>3. <<>> \in [1 .. Cardinality(R) -> R] /\ Increasing(<<>>, Cardinality(R))
    BY <2>1, <2>2 DEF Increasing
  <2>4. QED
    BY <2>3 DEF HasList
<1>2. ASSUME NEW k \in Nat, k \in T PROVE k + 1 \in T
  <2> HIDE DEF HasList
  <2> SUFFICES ASSUME NEW R \in SUBSET (1 .. k + 1) PROVE HasList(R)
    OBVIOUS
  <2> DEFINE Q == R \ {k + 1}
  <2>1. Q \in SUBSET (1 .. k)
    OBVIOUS
  <2>2. PICK q \in [1 .. Cardinality(Q) -> Q] : Increasing(q, Cardinality(Q))
    BY <1>2, <2>1 DEF HasList
  <2>3. CASE k + 1 \notin R
    BY <2>2, <2>3 DEF HasList
  <2>4. CASE k + 1 \in R
    <3> DEFINE n == Cardinality(Q)
               s == [i \in 1 .. n + 1 |-> IF i <= n THEN q[i] ELSE k + 1]
    <3>1. IsFiniteSet(Q)
      <4>1. IsFiniteSet(1 .. k)
        BY FS_Interval
      <4>2. QED
        BY <2>1, <4>1, FS_Subset
    <3>2. n \in Nat
      BY <3>1, FS_CardinalityType
    <3>3. Cardinality(R) = n + 1
      <4>1. R = Q \cup {k + 1}
        BY <2>4
      <4>2. QED
        BY <3>1, <4>1, FS_AddElement
    <3> HIDE DEF n
    <3>4. \A i \in 1 .. n : q[i] \in Q
      BY <2>2 DEF n
    <3>5. s \in [1 .. n + 1 -> R]
      <4>1. k + 1 \in R /\ \A i \in 1 .. n : q[i] \in R
        BY <2>4, <3>4
      <4>2. \A i \in 1 .. n + 1 : i \notin 1 .. n => ~(i <= n)
        BY <3>2
      <4>3. \A i \in 1 .. n + 1 : s[i] \in R
        BY <3>2, <4>1, <4>2
      <4>4. QED
        BY <4>3
    <3>6. ASSUME NEW i \in 1 .. n + 1, NEW j \in 1 .. n + 1, i < j
          PROVE  s[i] < s[j]
      <4>1. i \in 1 .. n /\ i <= n
        BY <3>2, <3>6
      <4>2. CASE j \in 1 .. n
        <5>1. q[i] < q[j]
          BY <2>2, <3>6, <4>1, <4>2 DEF Increasing, n
        <5>2. s[i] = q[i] /\ s[j] = q[j]
          BY <3>2, <4>1, <4>2
        <5>3. QED
          BY <5>1, <5>2
      <4>3. CASE j \notin 1 .. n
        <5>1. s[i] = q[i] /\ s[j] = k + 1
          BY <3>2, <4>1, <4>3
        <5>2. q[i] \in 1 .. k
          BY <2>1, <3>4, <4>1
        <5>3. QED
          BY <5>1, <5>2
      <4>4. QED
        BY <4>2, <4>3
    <3>7. QED
      BY <3>3, <3>5, <3>6 DEF Increasing, HasList
  <2>5. QED
    BY <2>3, <2>4
<1> HIDE DEF HasList
<1>3. Nat \subseteq T
  BY <1>1, <1>2, SetInduction
<1>4. QED
  BY <1>3 DEF HasList

EventPiece == [of : Nat, part : {"whole", "head", "rest"}]
Streaming  == [at : {"closed", "open", "done"}, offset : Nat, got : Seq(Nat),
               missed : SUBSET Nat, opens : Nat]

EventTypes ==
  /\ lines \in Seq(Endings) /\ pieces \in Seq(EventPiece)
  /\ writer \in Writers \cup {"none"} /\ stream \in [Pages -> Streaming]

(* The pieces follow the lines; a head is followed by its rest, or by      *)
(* nothing yet.                                                            *)
PiecesFollowLines ==
  /\ \A i \in 1 .. Len(pieces) : pieces[i].of \in 1 .. Len(lines)
  /\ \A e \in 1 .. Len(lines) : \E i \in 1 .. Len(pieces) : pieces[i].of = e
  /\ \A i, j \in 1 .. Len(pieces) : i < j =>
       \/ pieces[i].of < pieces[j].of
       \/ j = i + 1 /\ pieces[i].of = pieces[j].of
            /\ pieces[i].part = "head" /\ pieces[j].part = "rest"
  /\ \A i \in 1 .. Len(pieces) :
       /\ pieces[i].part = "rest" =>
            i > 1 /\ pieces[i - 1] = [of |-> pieces[i].of, part |-> "head"]
       /\ pieces[i].part = "head" /\ i # Len(pieces) =>
            pieces[i + 1] = [of |-> pieces[i].of, part |-> "rest"]
  /\ writer # "none" <=> Len(pieces) > 0 /\ pieces[Len(pieces)].part = "head"

(* The events of which the first n pieces hold a part.                     *)
Begun(n) == {pieces[i].of : i \in 1 .. n}

Follows(s) ==
  /\ s.offset <= Len(pieces)
  /\ InOrder(s.got) /\ Members(s.got) = Begun(s.offset) \ s.missed
  /\ s.missed \subseteq Begun(s.offset)
  /\ s.offset > 0 /\ pieces[s.offset].part = "head" => pieces[s.offset].of \in s.missed
  /\ \A e \in Members(s.got) : lines[e] # "finished"

StreamEnded(s) ==
  /\ s.got # <<>> /\ s.got[Len(s.got)] \in 1 .. Len(lines)
  /\ lines[s.got[Len(s.got)]] = "finished"
  /\ InOrder(s.got) /\ Members(s.got) = (1 .. s.got[Len(s.got)]) \ s.missed

StreamsFollow ==
  \A p \in Pages : /\ stream[p].at = "open" => Follows(stream[p])
                   /\ stream[p].at = "done" => StreamEnded(stream[p])

EventInv == EventTypes /\ PiecesFollowLines /\ StreamsFollow

(* The list of a finite set of numbers.                                    *)
LEMMA OrderedList ==
  ASSUME NEW m \in Nat, NEW S \in SUBSET (1 .. m)
  PROVE  LET s == CHOOSE s \in [1 .. Cardinality(S) -> S] : InOrder(s)
         IN  /\ Cardinality(S) \in Nat /\ s \in [1 .. Cardinality(S) -> S]
             /\ InOrder(s) /\ \A x \in S : \E k \in 1 .. Cardinality(S) : s[k] = x
<1> DEFINE n == Cardinality(S)
           L == [1 .. n -> S]
           s == CHOOSE s \in L : InOrder(s)
<1>0. S \subseteq Nat /\ IsFiniteSet(1 .. m)
  BY FS_Interval
<1>1. IsFiniteSet(S) /\ n \in Nat
  <2>1. IsFiniteSet(S)
    BY <1>0, FS_Subset
  <2> QED
    BY <2>1, FS_CardinalityType
<1>2. \E t \in L : InOrder(t)
  BY ListExists DEF Increasing, InOrder
<1>3. s \in L /\ InOrder(s)
  <2> HIDE DEF L
  <2> QED
    BY <1>2
<1>4. n = Cardinality(1 .. n)
  BY <1>1, FS_Interval
<1>7. s \in [1 .. n -> S]
  BY <1>3
<1> HIDE DEF n, s, L
<1>5. s \in Injection(1 .. n, S)
  <2>1. ASSUME NEW a \in 1 .. n, NEW b \in 1 .. n, s[a] = s[b] PROVE a = b
    <3>1. s[a] \in S
      BY <1>7
    <3>3. s[a] \in Nat
      BY <1>0, <3>1
    <3>2. ~(a < b) /\ ~(b < a)
      BY <1>3, <1>7, <2>1, <3>3 DEF InOrder
    <3> QED
      BY <1>1, <3>2
  <2> QED
    BY <1>7, <2>1 DEF Injection, IsInjective
<1>6. s \in Surjection(1 .. n, S)
  <2>1. n = Cardinality(S)
    BY DEF n
  <2> QED
    BY <1>1, <1>4, <1>5, <2>1, FS_Injection
<1> QED
  BY <1>1, <1>3, <1>6, <1>7 DEF Surjection, n, s, L

(* An increasing list of 1 .. n is the identity.                           *)
LEMMA ListOfAll ==
  ASSUME NEW n \in Nat, NEW s \in Seq(Nat), InOrder(s), Members(s) = 1 .. n
  PROVE  s = [e \in 1 .. n |-> e]
<1> DEFINE m == Len(s)
           T == {k \in Nat : k <= m => \A i \in 1 .. k : s[i] = i}
<1>1. m \in Nat /\ s \in [1 .. m -> Nat] /\ DOMAIN s = 1 .. m
  BY LenProperties
<1> HIDE DEF m
<1>2. \A i \in 1 .. m : s[i] \in 1 .. n
  BY <1>1 DEF Members
<1>3. \A e \in 1 .. n : \E i \in 1 .. m : s[i] = e
  BY <1>1 DEF Members
<1>4. ASSUME NEW k \in Nat, k \in T, k + 1 <= m PROVE s[k + 1] = k + 1
  <2>1. k <= m /\ k + 1 \in 1 .. m /\ \A i \in 1 .. k : s[i] = i
    BY <1>1, <1>4
  <2>2. s[k + 1] \in Nat /\ s[k + 1] >= k + 1
    <3>1. CASE k = 0
      BY <1>2, <2>1, <3>1
    <3>2. CASE k # 0
      <4>1. k \in 1 .. m /\ k < k + 1 /\ s[k] = k
        BY <1>1, <2>1, <3>2
      <4>2. s[k] < s[k + 1]
        BY <1>1, <2>1, <4>1 DEF InOrder
      <4> QED
        BY <1>2, <2>1, <4>1, <4>2
    <3> QED
      BY <3>1, <3>2
  <2>3. k + 1 \in 1 .. n
    BY <1>2, <2>1, <2>2
  <2>4. PICK i \in 1 .. m : s[i] = k + 1
    BY <1>3, <2>3
  <2>5. i \notin 1 .. k
    BY <2>1, <2>4
  <2>6. i = k + 1 \/ k + 1 < i
    BY <1>1, <2>5
  <2>7. k + 1 < i => s[k + 1] < k + 1
    BY <1>1, <2>1, <2>4 DEF InOrder
  <2> QED
    BY <2>2, <2>4, <2>6, <2>7
<1>5. Nat \subseteq T
  <2>1. 0 \in T
    OBVIOUS
  <2>2. ASSUME NEW k \in Nat, k \in T PROVE k + 1 \in T
    <3> SUFFICES ASSUME k + 1 <= m PROVE \A i \in 1 .. k + 1 : s[i] = i
      OBVIOUS
    <3>1. \A i \in 1 .. k : s[i] = i
      BY <1>1, <2>2
    <3>2. s[k + 1] = k + 1
      BY <1>4, <2>2
    <3> QED
      BY <3>1, <3>2
  <2> HIDE DEF T
  <2> QED
    BY <2>1, <2>2, SetInduction
<1>6. \A i \in 1 .. m : s[i] = i
  BY <1>1, <1>5
<1>7. m = n
  <2>1. m <= n
    <3>1. CASE m = 0
      BY <3>1
    <3>2. CASE m # 0
      BY <1>1, <1>2, <1>6, <3>2
    <3> QED
      BY <3>1, <3>2
  <2>2. n <= m
    <3>1. CASE n # 0
      <4>1. PICK i \in 1 .. m : s[i] = n
        BY <1>3, <3>1
      <4> QED
        BY <1>1, <1>6, <4>1
    <3> QED
      BY <1>1, <3>1
  <2> QED
    BY <1>1, <2>1, <2>2
<1> QED
  BY <1>1, <1>6, <1>7

(* The pieces behind the first o, and those of them that end an event of   *)
(* which nothing was before: a rest needs its head.                        *)
Behind(o) == SubSeq(pieces, o + 1, Len(pieces))
Closing(o) ==
  {i \in o + 1 .. Len(pieces) : pieces[i].part = "whole" \/ (pieces[i].part = "rest" /\ i > o + 1)}

(* The pieces behind the first o, one by one.                              *)
LEMMA BehindIs ==
  ASSUME EventTypes, NEW o \in 0 .. Len(pieces)
  PROVE  /\ Behind(o) \in Seq(EventPiece) /\ Len(Behind(o)) = Len(pieces) - o
         /\ DOMAIN Behind(o) = 1 .. Len(pieces) - o
         /\ \A i \in 1 .. Len(pieces) - o : Behind(o)[i] = pieces[o + i]
<1>1. Len(pieces) \in Nat /\ \A i \in o + 1 .. Len(pieces) : pieces[i] \in EventPiece
  BY LenProperties DEF EventTypes
<1>2. /\ Behind(o) \in Seq(EventPiece)
      /\ Len(Behind(o)) = IF o + 1 <= Len(pieces) THEN Len(pieces) - (o + 1) + 1 ELSE 0
      /\ \A i \in 1 .. Len(pieces) - (o + 1) + 1 : Behind(o)[i] = pieces[(o + 1) + i - 1]
  BY <1>1, SubSeqProperties DEF Behind
<1>3. Len(Behind(o)) = Len(pieces) - o
  BY <1>1, <1>2
<1>4. \A i \in 1 .. Len(pieces) - o : Behind(o)[i] = pieces[o + i]
  BY <1>1, <1>2
<1> QED
  BY <1>2, <1>3, <1>4, LenProperties

(* What is parsed of them: the events that end there, in order.            *)
LEMMA ParsedIs ==
  ASSUME EventTypes, PiecesFollowLines, NEW o \in 0 .. Len(pieces)
  PROVE  /\ Parsed(Behind(o)) \in Seq(Nat) /\ InOrder(Parsed(Behind(o)))
         /\ Members(Parsed(Behind(o))) = {pieces[i].of : i \in Closing(o)}
<1> DEFINE m == Len(pieces) - o
           E == Ends(Behind(o))
           n == Cardinality(E)
           s == CHOOSE s \in [1 .. Cardinality(E) -> E] : InOrder(s)
<1>1. Len(pieces) \in Nat /\ m \in Nat /\ \A i \in 1 .. Len(pieces) : pieces[i] \in EventPiece
  BY LenProperties DEF EventTypes
<1>2. /\ DOMAIN Behind(o) = 1 .. m
      /\ \A i \in 1 .. m : Behind(o)[i] = pieces[o + i]
  BY BehindIs
<1>3. /\ E \in SUBSET (1 .. m)
      /\ \A i \in 1 .. m : i \in E <=> o + i \in Closing(o)
  <2>1. E \in SUBSET (1 .. m)
    BY <1>2 DEF Ends
  <2>2. ASSUME NEW i \in 1 .. m PROVE i \in E <=> o + i \in Closing(o)
    <3>1. o + i \in o + 1 .. Len(pieces) /\ o + i \in 1 .. Len(pieces)
      BY <1>1
    <3>2. i \in E <=> \/ pieces[o + i].part = "whole"
                      \/ pieces[o + i].part = "rest" /\ i > 1
                         /\ Behind(o)[i - 1] = Piece(pieces[o + i].of, "head")
      BY <1>2 DEF Ends
    <3>3. pieces[o + i].part = "rest" /\ i > 1 =>
            Behind(o)[i - 1] = Piece(pieces[o + i].of, "head")
      <4> SUFFICES ASSUME pieces[o + i].part = "rest", i > 1
                   PROVE  Behind(o)[i - 1] = Piece(pieces[o + i].of, "head")
        OBVIOUS
      <4>1. i - 1 \in 1 .. m /\ o + (i - 1) = (o + i) - 1
        BY <1>1
      <4>2. pieces[(o + i) - 1] = [of |-> pieces[o + i].of, part |-> "head"]
        BY <3>1 DEF PiecesFollowLines
      <4> QED
        BY <1>2, <4>1, <4>2 DEF Piece
    <3>4. i > 1 <=> o + i > o + 1
      BY <1>1
    <3> QED
      BY <3>1, <3>2, <3>3, <3>4 DEF Closing
  <2> QED
    BY <2>1, <2>2
<1> HIDE DEF E, m
<1>4. /\ n \in Nat /\ s \in [1 .. n -> E] /\ InOrder(s)
      /\ \A x \in E : \E k \in 1 .. n : s[k] = x
  BY <1>1, <1>3, OrderedList
<1>5. Parsed(Behind(o)) = [k \in DOMAIN s |-> Behind(o)[s[k]].of]
  BY DEF Parsed, E
<1> HIDE DEF n, s
<1>6. \A k \in 1 .. n : s[k] \in E /\ s[k] \in 1 .. m
  BY <1>3, <1>4
<1> DEFINE q == Parsed(Behind(o))
<1>7. /\ DOMAIN q = 1 .. n /\ \A k \in 1 .. n : q[k] = pieces[o + s[k]].of
      /\ \A k \in 1 .. n : o + s[k] \in Closing(o) /\ o + s[k] \in 1 .. Len(pieces)
  <2>1. \A k \in 1 .. n : q[k] = Behind(o)[s[k]].of
    BY <1>4, <1>5
  <2>2. DOMAIN q = 1 .. n
    BY <1>4, <1>5
  <2>3. \A k \in 1 .. n : q[k] = pieces[o + s[k]].of
    BY <1>2, <1>6, <2>1
  <2>4. \A k \in 1 .. n : o + s[k] \in Closing(o)
    BY <1>3, <1>6
  <2>5. \A k \in 1 .. n : o + s[k] \in 1 .. Len(pieces)
    BY <1>1, <1>6 DEF m
  <2> QED
    BY <2>2, <2>3, <2>4, <2>5
<1>8. q \in Seq(Nat)
  <2>1. \A k \in 1 .. n : q[k] \in Nat
    BY <1>1, <1>7 DEF EventPiece
  <2>2. q = [k \in 1 .. n |-> q[k]]
    BY <1>4, <1>5, <1>7
  <2>3. q \in [1 .. n -> Nat]
    BY <2>1, <2>2
  <2> QED
    BY <1>4, <2>3, SeqDef
<1>9. InOrder(q)
  <2> SUFFICES ASSUME NEW k \in 1 .. n, NEW l \in 1 .. n, k < l
               PROVE  q[k] < q[l]
    BY <1>7 DEF InOrder
  <2>1. s[k] < s[l]
    BY <1>4 DEF InOrder
  <2>2. o + s[k] < o + s[l]
    BY <1>6, <1>1, <2>1 DEF m
  <2>3. pieces[o + s[k]].part # "head"
    BY <1>7 DEF Closing
  <2> QED
    BY <1>7, <2>2, <2>3 DEF PiecesFollowLines
<1>10. Members(q) = {pieces[i].of : i \in Closing(o)}
  <2>1. ASSUME NEW e \in Members(q) PROVE e \in {pieces[i].of : i \in Closing(o)}
    BY <1>7, <2>1 DEF Members
  <2>2. ASSUME NEW i \in Closing(o) PROVE pieces[i].of \in Members(q)
    <3>1. i - o \in 1 .. m /\ o + (i - o) = i
      BY <1>1, <2>2 DEF Closing, m
    <3>2. i - o \in E
      BY <1>3, <3>1, <2>2
    <3>3. PICK k \in 1 .. n : s[k] = i - o
      BY <1>4, <3>2
    <3>4. q[k] = pieces[i].of
      BY <1>7, <3>1, <3>3
    <3> QED
      BY <1>7, <3>4 DEF Members
  <2> QED
    BY <2>1, <2>2
<1> QED
  BY <1>8, <1>9, <1>10

(* The whole file, while nobody writes: every event, in order.             *)
LEMMA WholeFile ==
  ASSUME EventTypes, PiecesFollowLines, writer = "none"
  PROVE  Parsed(pieces) = [e \in DOMAIN lines |-> e]
<1>1. /\ Len(pieces) \in Nat /\ Len(lines) \in Nat /\ DOMAIN lines = 1 .. Len(lines)
      /\ DOMAIN pieces = 1 .. Len(pieces) /\ pieces \in [1 .. Len(pieces) -> EventPiece]
  BY LenProperties DEF EventTypes
<1>2. Behind(0) = pieces
  <2>0. 0 \in 0 .. Len(pieces) /\ Len(pieces) - 0 = Len(pieces)
    BY <1>1
  <2>1. /\ Behind(0) \in Seq(EventPiece) /\ Len(Behind(0)) = Len(pieces)
        /\ \A i \in 1 .. Len(pieces) : Behind(0)[i] = pieces[i]
    <3>1. /\ Behind(0) \in Seq(EventPiece) /\ Len(Behind(0)) = Len(pieces)
          /\ \A i \in 1 .. Len(pieces) : Behind(0)[i] = pieces[0 + i]
      BY <2>0, BehindIs
    <3>2. \A i \in 1 .. Len(pieces) : 0 + i = i
      OBVIOUS
    <3> QED
      BY <3>1, <3>2
  <2>2. Behind(0) \in [1 .. Len(pieces) -> EventPiece]
    BY <2>1, LenProperties
  <2> QED
    BY <1>1, <2>1, <2>2
<1>6. 0 + 1 = 1
  OBVIOUS
<1>5. Closing(0) = {i \in 1 .. Len(pieces) :
                      pieces[i].part = "whole" \/ (pieces[i].part = "rest" /\ i > 1)}
  BY <1>6, Zenon DEF Closing
<1>3. {pieces[i].of : i \in Closing(0)} = 1 .. Len(lines)
  <2>1. ASSUME NEW i \in Closing(0) PROVE pieces[i].of \in 1 .. Len(lines)
    BY <1>5 DEF PiecesFollowLines
  <2>2. ASSUME NEW e \in 1 .. Len(lines) PROVE \E i \in Closing(0) : pieces[i].of = e
    <3>1. PICK i \in 1 .. Len(pieces) : pieces[i].of = e
      BY DEF PiecesFollowLines
    <3>2. pieces[i].part \in {"whole", "rest", "head"}
      BY <1>1 DEF EventPiece
    <3>3. CASE pieces[i].part = "whole"
      BY <3>1, <3>3, <1>5
    <3>4. CASE pieces[i].part = "rest"
      <4>1. i > 1
        BY <3>1, <3>4 DEF PiecesFollowLines
      <4>2. i \in Closing(0)
        BY <1>5, <3>1, <3>4, <4>1
      <4> QED
        BY <3>1, <4>2
    <3>5. CASE pieces[i].part = "head"
      <4>1. i # Len(pieces)
        BY <1>1, <3>5 DEF PiecesFollowLines
      <4>2. pieces[i + 1] = [of |-> pieces[i].of, part |-> "rest"]
        BY <3>5, <4>1 DEF PiecesFollowLines
      <4>3. i + 1 \in 1 .. Len(pieces) /\ i + 1 > 1
        <5>1. i \in 1 .. Len(pieces)
          BY <3>1
        <5>2. \A m \in Nat : \A j \in 1 .. m : j # m => j + 1 \in 1 .. m /\ j + 1 > 1
          OBVIOUS
        <5> QED
          BY <1>1, <4>1, <5>1, <5>2
      <4>4. i + 1 \in Closing(0) /\ pieces[i + 1].of = e
        BY <1>5, <3>1, <4>2, <4>3
      <4> QED
        BY <4>4
    <3> QED
      BY <3>2, <3>3, <3>4, <3>5
  <2> QED
    BY <2>1, <2>2
<1>4. /\ Parsed(pieces) \in Seq(Nat) /\ InOrder(Parsed(pieces))
      /\ Members(Parsed(pieces)) = 1 .. Len(lines)
  <2>1. 0 \in 0 .. Len(pieces)
    BY <1>1
  <2> QED
    BY <1>2, <1>3, <2>1, ParsedIs
<1> QED
  BY <1>1, <1>4, ListOfAll

(* A poll that finds something: what it parses is behind what the stream   *)
(* has, and what it does not parse it has missed.                          *)
LEMMA PollFinds ==
  ASSUME EventTypes, PiecesFollowLines, NEW s \in Streaming, Follows(s),
         s.offset < Len(pieces)
  PROVE  LET q == Parsed(Behind(s.offset))
             n == Len(pieces)
             missed == s.missed \cup Torn(Behind(s.offset))
         IN  /\ \A d \in Members(s.got), e \in Members(q) : d < e
             /\ Members(s.got) \cup Members(q) = Begun(n) \ missed
             /\ missed \subseteq Begun(n)
             /\ pieces[n].part = "head" => pieces[n].of \in missed
<1> DEFINE o == s.offset
           n == Len(pieces)
           Q == {pieces[i].of : i \in Closing(o)}
           New == {pieces[i].of : i \in o + 1 .. n}
<1>1. /\ n \in Nat /\ o \in Nat /\ o < n /\ o \in 0 .. n /\ s.missed \subseteq Nat
      /\ \A i \in 1 .. n : pieces[i] \in EventPiece /\ pieces[i].of \in Nat
  <2>1. n \in Nat /\ \A i \in 1 .. n : pieces[i] \in EventPiece
    BY LenProperties DEF EventTypes
  <2>2. o \in Nat /\ s.missed \subseteq Nat
    BY DEF Streaming
  <2>3. \A i \in 1 .. n : pieces[i].of \in Nat
    BY <2>1 DEF EventPiece
  <2> HIDE DEF n, o
  <2>4. o < n
    BY DEF n, o
  <2> QED
    BY <2>1, <2>2, <2>3, <2>4
<1>2. Members(Parsed(Behind(o))) = Q
  BY <1>1, ParsedIs
<1>3. Torn(Behind(o)) = New \ Q
  <2>1. {Behind(o)[i].of : i \in DOMAIN Behind(o)} = New
    <3>1. /\ DOMAIN Behind(o) = 1 .. n - o
          /\ \A i \in 1 .. n - o : Behind(o)[i] = pieces[o + i]
      BY <1>1, BehindIs
    <3>2. ASSUME NEW i \in 1 .. n - o PROVE Behind(o)[i].of \in New
      <4>1. o + i \in o + 1 .. n
        BY <1>1
      <4> QED
        BY <3>1, <4>1
    <3>3. ASSUME NEW i \in o + 1 .. n PROVE \E j \in 1 .. n - o : Behind(o)[j].of = pieces[i].of
      <4>1. i - o \in 1 .. n - o /\ o + (i - o) = i
        BY <1>1
      <4> QED
        BY <3>1, <4>1
    <3> HIDE DEF n
    <3> QED
      BY <3>1, <3>2, <3>3
  <2> QED
    BY <1>2, <2>1 DEF Torn
<1>4. Begun(n) = Begun(o) \cup New
  <2>1. 1 .. n = (1 .. o) \cup (o + 1 .. n)
    BY <1>1
  <2> HIDE DEF n, o
  <2> QED
    BY <2>1 DEF Begun
(* Nothing that ends behind o was begun before it. *)
<1>5. ASSUME NEW i \in 1 .. o, NEW j \in Closing(o) PROVE pieces[i].of < pieces[j].of
  <2>1. i \in 1 .. n /\ j \in 1 .. n /\ i < j
    BY <1>1, <1>5 DEF Closing
  <2>2. pieces[j].part = "rest" => j # i + 1
    BY <1>1, <1>5 DEF Closing
  <2>3. \/ pieces[i].of < pieces[j].of
        \/ j = i + 1 /\ pieces[j].part = "rest"
    BY <2>1 DEF PiecesFollowLines
  <2> QED
    BY <2>2, <2>3
<1>6. Members(s.got) \subseteq Begun(o) /\ Members(s.got) = Begun(o) \ s.missed
      /\ s.missed \subseteq Begun(o)
  BY DEF Follows
(* What ends behind o and was begun before it was missed before.           *)
<1>7. ASSUME NEW e \in Begun(o), e \in New PROVE e \in s.missed
  <2>1. PICK i \in 1 .. o, j \in o + 1 .. n : pieces[i].of = e /\ pieces[j].of = e
    BY <1>7 DEF Begun
  <2>2. i \in 1 .. n /\ j \in 1 .. n /\ i < j /\ pieces[i].of \in Nat
    BY <1>1, <2>1
  <2>3. j = i + 1 /\ pieces[i].part = "head"
    BY <2>1, <2>2 DEF PiecesFollowLines
  <2>4. i = o /\ o > 0
    BY <1>1, <2>1, <2>3
  <2> QED
    BY <2>1, <2>3, <2>4 DEF Follows
<1>8. Q \subseteq New
  BY DEF Closing
<1>9. ASSUME NEW d \in Begun(o), NEW e \in Q PROVE d < e
  BY <1>5 DEF Begun
<1>10. \A e \in Q : e \notin Begun(o)
  <2> SUFFICES ASSUME NEW e \in Q, e \in Begun(o) PROVE FALSE
    OBVIOUS
  <2>1. e < e
    BY <1>9
  <2>2. e \in Nat
    BY <1>1 DEF Begun
  <2> QED
    BY <2>1, <2>2
<1>11. ASSUME pieces[n].part = "head" PROVE pieces[n].of \in New /\ pieces[n].of \notin Q
  <2>1. n \in o + 1 .. n /\ n \in 1 .. n
    BY <1>1
  <2>2. ASSUME NEW j \in Closing(o), pieces[j].of = pieces[n].of PROVE FALSE
    <3>1. j \in 1 .. n /\ j # n /\ j < n
      BY <1>1, <1>11, <2>2 DEF Closing
    <3>2. pieces[j].part # "head"
      BY <2>2 DEF Closing
    <3>3. pieces[j].of < pieces[n].of
      BY <2>1, <3>1, <3>2 DEF PiecesFollowLines
    <3> QED
      BY <1>1, <2>1, <2>2, <3>3
  <2> QED
    BY <2>1, <2>2
<1> HIDE DEF o, n, Q, New
<1>12. Members(s.got) \cup Q = Begun(n) \ (s.missed \cup (New \ Q))
  BY <1>4, <1>6, <1>7, <1>8, <1>10
<1>13. s.missed \cup (New \ Q) \subseteq Begun(n)
  BY <1>4, <1>6
<1>14. \A d \in Members(s.got), e \in Q : d < e
  BY <1>6, <1>9
<1> QED
  BY <1>2, <1>3, <1>11, <1>12, <1>13, <1>14 DEF o, n
(* What is written is behind all there was.                                *)
LEMMA WrittenBehind ==
  ASSUME EventTypes, NEW x \in EventPiece, pieces' = Append(pieces, x)
  PROVE  /\ pieces' \in Seq(EventPiece) /\ Len(pieces') = Len(pieces) + 1
         /\ \A i \in 1 .. Len(pieces) : pieces'[i] = pieces[i]
         /\ pieces'[Len(pieces) + 1] = x
         /\ 1 .. Len(pieces') = (1 .. Len(pieces)) \cup {Len(pieces) + 1}
         /\ Len(pieces) \in Nat /\ Len(lines) \in Nat
         /\ \A i \in 1 .. Len(pieces) : pieces[i] \in EventPiece
<1>1. /\ Len(pieces) \in Nat /\ Len(lines) \in Nat
      /\ \A i \in 1 .. Len(pieces) : pieces[i] \in EventPiece
  BY LenProperties DEF EventTypes
<1>2. /\ pieces' \in Seq(EventPiece) /\ Len(pieces') = Len(pieces) + 1
      /\ \A i \in 1 .. Len(pieces) : pieces'[i] = pieces[i]
      /\ pieces'[Len(pieces) + 1] = x
  BY AppendProperties DEF EventTypes
<1>3. 1 .. Len(pieces) + 1 = (1 .. Len(pieces)) \cup {Len(pieces) + 1}
  BY <1>1
<1> QED
  BY <1>1, <1>2, <1>3

(* A new line, the first piece of it.                                      *)
LEMMA NewLine ==
  ASSUME EventTypes, PiecesFollowLines, writer = "none",
         NEW kind \in Endings, lines' = Append(lines, kind),
         NEW part \in {"whole", "head"},
         pieces' = Append(pieces, Piece(Len(lines) + 1, part)),
         writer' # "none" <=> part = "head"
  PROVE  PiecesFollowLines'
<1> DEFINE n == Len(pieces)
           m == Len(lines)
           x == Piece(Len(lines) + 1, part)
<1>1. m \in Nat
  BY LenProperties DEF EventTypes
<1>2. x \in EventPiece /\ x.of = m + 1 /\ x.part = part
  BY <1>1 DEF Piece, EventPiece
<1>3. /\ pieces' \in Seq(EventPiece) /\ Len(pieces') = n + 1
      /\ \A i \in 1 .. n : pieces'[i] = pieces[i]
      /\ pieces'[n + 1] = x
      /\ 1 .. Len(pieces') = (1 .. n) \cup {n + 1}
      /\ n \in Nat /\ \A i \in 1 .. n : pieces[i] \in EventPiece
  BY <1>2, WrittenBehind
<1>4. Len(lines') = m + 1 /\ 1 .. Len(lines') = (1 .. m) \cup {m + 1}
  <2>1. Len(lines') = m + 1
    BY AppendProperties DEF EventTypes
  <2> QED
    BY <1>1, <2>1
<1>12. \A i \in 1 .. n : pieces[i].of \in 1 .. m
  BY DEF PiecesFollowLines
<1>13. \A e \in 1 .. m : e < m + 1
  BY <1>1
<1>5. /\ \A i \in 1 .. n : pieces[i].of \in 1 .. m /\ pieces[i].of < m + 1
      /\ \A e \in 1 .. m : \E i \in 1 .. n : pieces[i].of = e
      /\ \A i, j \in 1 .. n : i < j =>
           \/ pieces[i].of < pieces[j].of
           \/ j = i + 1 /\ pieces[i].of = pieces[j].of
                /\ pieces[i].part = "head" /\ pieces[j].part = "rest"
  BY <1>12, <1>13 DEF PiecesFollowLines
<1>6. /\ \A i \in 1 .. n : pieces[i].part = "rest" =>
           i > 1 /\ pieces[i - 1] = [of |-> pieces[i].of, part |-> "head"]
      /\ \A i \in 1 .. n : pieces[i].part = "head" /\ i # n =>
           pieces[i + 1] = [of |-> pieces[i].of, part |-> "rest"]
      /\ ~(n > 0 /\ pieces[n].part = "head")
  BY DEF PiecesFollowLines
<1> HIDE DEF n, m, x
<1>7. \A i \in 1 .. Len(pieces') : pieces'[i].of \in 1 .. Len(lines')
  BY <1>1, <1>2, <1>3, <1>4, <1>5
<1>8. \A e \in 1 .. Len(lines') : \E i \in 1 .. Len(pieces') : pieces'[i].of = e
  BY <1>1, <1>2, <1>3, <1>4, <1>5
<1>9. ASSUME NEW i \in 1 .. Len(pieces'), NEW j \in 1 .. Len(pieces'), i < j
      PROVE \/ pieces'[i].of < pieces'[j].of
            \/ j = i + 1 /\ pieces'[i].of = pieces'[j].of
                 /\ pieces'[i].part = "head" /\ pieces'[j].part = "rest"
  <2>1. i \in 1 .. n
    BY <1>3, <1>9
  <2>2. CASE j \in 1 .. n
    BY <1>3, <1>5, <1>9, <2>1, <2>2
  <2>3. CASE j = n + 1
    BY <1>2, <1>3, <1>5, <2>1, <2>3
  <2> QED
    BY <1>3, <2>2, <2>3
<1>10. ASSUME NEW i \in 1 .. Len(pieces')
       PROVE /\ pieces'[i].part = "rest" =>
                  i > 1 /\ pieces'[i - 1] = [of |-> pieces'[i].of, part |-> "head"]
             /\ pieces'[i].part = "head" /\ i # Len(pieces') =>
                  pieces'[i + 1] = [of |-> pieces'[i].of, part |-> "rest"]
  <2>1. CASE i = n + 1
    BY <1>2, <1>3, <2>1
  <2>2. CASE i \in 1 .. n
    <3>1. ASSUME pieces[i].part = "rest"
          PROVE  i > 1 /\ pieces'[i - 1] = [of |-> pieces[i].of, part |-> "head"]
      <4>1. i > 1 /\ pieces[i - 1] = [of |-> pieces[i].of, part |-> "head"]
        BY <1>6, <2>2, <3>1
      <4>2. i - 1 \in 1 .. n
        BY <1>3, <2>2, <4>1
      <4> QED
        BY <1>3, <4>1, <4>2
    <3>2. ASSUME pieces[i].part = "head"
          PROVE  pieces'[i + 1] = [of |-> pieces[i].of, part |-> "rest"]
      <4>1. i # n
        BY <1>3, <1>6, <2>2, <3>2
      <4>2. pieces[i + 1] = [of |-> pieces[i].of, part |-> "rest"]
        BY <1>6, <2>2, <3>2, <4>1
      <4>3. i + 1 \in 1 .. n
        BY <1>3, <2>2, <4>1
      <4> QED
        BY <1>3, <4>2, <4>3
    <3>3. pieces'[i] = pieces[i]
      BY <1>3, <2>2
    <3> QED
      BY <3>1, <3>2, <3>3
  <2> QED
    BY <1>3, <2>1, <2>2
<1>11. writer' # "none" <=> Len(pieces') > 0 /\ pieces'[Len(pieces')].part = "head"
  BY <1>2, <1>3
<1> QED
  BY <1>7, <1>8, <1>9, <1>10, <1>11 DEF PiecesFollowLines

(* The rest of the line whose head is the last piece.                      *)
LEMMA RestOfLine ==
  ASSUME EventTypes, PiecesFollowLines, writer # "none", lines' = lines,
         pieces' = Append(pieces, Piece(Len(lines), "rest")), writer' = "none"
  PROVE  PiecesFollowLines'
<1> DEFINE n == Len(pieces)
           m == Len(lines)
           x == Piece(Len(lines), "rest")
<1>1. m \in Nat
  BY LenProperties DEF EventTypes
<1>2. x \in EventPiece /\ x.of = m /\ x.part = "rest" /\ x = [of |-> m, part |-> "rest"]
  BY <1>1 DEF Piece, EventPiece
<1>3. /\ pieces' \in Seq(EventPiece) /\ Len(pieces') = n + 1
      /\ \A i \in 1 .. n : pieces'[i] = pieces[i]
      /\ pieces'[n + 1] = x
      /\ 1 .. Len(pieces') = (1 .. n) \cup {n + 1}
      /\ n \in Nat /\ \A i \in 1 .. n : pieces[i] \in EventPiece
  BY <1>2, WrittenBehind
<1>4. /\ \A i \in 1 .. n : pieces[i].of \in 1 .. m
      /\ \A e \in 1 .. m : \E i \in 1 .. n : pieces[i].of = e
      /\ \A i, j \in 1 .. n : i < j =>
           \/ pieces[i].of < pieces[j].of
           \/ j = i + 1 /\ pieces[i].of = pieces[j].of
                /\ pieces[i].part = "head" /\ pieces[j].part = "rest"
      /\ n > 0 /\ pieces[n].part = "head"
  BY DEF PiecesFollowLines
<1>5. /\ \A i \in 1 .. n : pieces[i].part = "rest" =>
           i > 1 /\ pieces[i - 1] = [of |-> pieces[i].of, part |-> "head"]
      /\ \A i \in 1 .. n : pieces[i].part = "head" /\ i # n =>
           pieces[i + 1] = [of |-> pieces[i].of, part |-> "rest"]
  BY DEF PiecesFollowLines
<1> HIDE DEF n, m, x
<1>6. n \in 1 .. n
  BY <1>3, <1>4
<1>7. pieces[n].of = m /\ \A i \in 1 .. n : i # n => pieces[i].of < m
  <2>1. pieces[n].of \in 1 .. m /\ m \in 1 .. m
    BY <1>1, <1>4, <1>6
  <2>2. PICK k \in 1 .. n : pieces[k].of = m
    BY <1>4, <2>1
  <2>3. ASSUME NEW i \in 1 .. n, i # n PROVE pieces[i].of < pieces[n].of
    <3>1. i < n
      BY <1>3, <2>3
    <3> QED
      BY <1>4, <1>6, <3>1
  <2>4. pieces[n].of = m
    BY <1>1, <2>1, <2>2, <2>3
  <2> QED
    BY <2>3, <2>4
<1>8. pieces[n] = [of |-> m, part |-> "head"]
  BY <1>3, <1>4, <1>6, <1>7 DEF EventPiece
<1>9. \A i \in 1 .. Len(pieces') : pieces'[i].of \in 1 .. Len(lines')
  BY <1>2, <1>3, <1>4, <1>6, <1>7 DEF m
<1>10. \A e \in 1 .. Len(lines') : \E i \in 1 .. Len(pieces') : pieces'[i].of = e
  BY <1>3, <1>4 DEF m
<1>11. ASSUME NEW i \in 1 .. Len(pieces'), NEW j \in 1 .. Len(pieces'), i < j
      PROVE \/ pieces'[i].of < pieces'[j].of
            \/ j = i + 1 /\ pieces'[i].of = pieces'[j].of
                 /\ pieces'[i].part = "head" /\ pieces'[j].part = "rest"
  <2>1. i \in 1 .. n
    BY <1>3, <1>11
  <2>2. CASE j \in 1 .. n
    BY <1>3, <1>4, <1>11, <2>1, <2>2
  <2>3. CASE j = n + 1 /\ i = n
    BY <1>2, <1>3, <1>8, <2>1, <2>3
  <2>4. CASE j = n + 1 /\ i # n
    BY <1>2, <1>3, <1>7, <2>1, <2>4
  <2> QED
    BY <1>3, <2>2, <2>3, <2>4
<1>12. ASSUME NEW i \in 1 .. Len(pieces')
       PROVE /\ pieces'[i].part = "rest" =>
                  i > 1 /\ pieces'[i - 1] = [of |-> pieces'[i].of, part |-> "head"]
             /\ pieces'[i].part = "head" /\ i # Len(pieces') =>
                  pieces'[i + 1] = [of |-> pieces'[i].of, part |-> "rest"]
  <2>1. CASE i = n + 1
    <3>1. i > 1 /\ i - 1 = n
      BY <1>3, <1>4, <2>1
    <3> QED
      BY <1>2, <1>3, <1>6, <1>8, <2>1, <3>1
  <2>2. CASE i \in 1 .. n
    <3>1. ASSUME pieces[i].part = "rest"
          PROVE  i > 1 /\ pieces'[i - 1] = [of |-> pieces[i].of, part |-> "head"]
      <4>1. i > 1 /\ pieces[i - 1] = [of |-> pieces[i].of, part |-> "head"]
        BY <1>5, <2>2, <3>1
      <4>2. i - 1 \in 1 .. n
        BY <1>3, <2>2, <4>1
      <4> QED
        BY <1>3, <4>1, <4>2
    <3>2. ASSUME pieces[i].part = "head"
          PROVE  pieces'[i + 1] = [of |-> pieces[i].of, part |-> "rest"]
      <4>1. CASE i = n
        BY <1>2, <1>3, <1>7, <4>1
      <4>2. CASE i # n
        <5>1. pieces[i + 1] = [of |-> pieces[i].of, part |-> "rest"]
          BY <1>5, <2>2, <3>2, <4>2
        <5>2. i + 1 \in 1 .. n
          BY <1>3, <2>2, <4>2
        <5> QED
          BY <1>3, <5>1, <5>2
      <4> QED
        BY <4>1, <4>2
    <3>3. pieces'[i] = pieces[i]
      BY <1>3, <2>2
    <3> QED
      BY <3>1, <3>2, <3>3
  <2> QED
    BY <1>3, <2>1, <2>2
<1>13. writer' # "none" <=> Len(pieces') > 0 /\ pieces'[Len(pieces')].part = "head"
  BY <1>2, <1>3
<1> QED
  BY <1>9, <1>10, <1>11, <1>12, <1>13 DEF PiecesFollowLines

(* Two ordered lists, the second behind the first, are one.                *)
LEMMA JoinedInOrder ==
  ASSUME NEW a \in Seq(Nat), NEW b \in Seq(Nat), InOrder(a), InOrder(b),
         \A d \in Members(a), e \in Members(b) : d < e
  PROVE  /\ a \o b \in Seq(Nat) /\ InOrder(a \o b)
         /\ Members(a \o b) = Members(a) \cup Members(b)
         /\ Len(a \o b) = Len(a) + Len(b)
         /\ \A j \in 1 .. Len(b) : (a \o b)[Len(a) + j] = b[j]
<1> DEFINE c == a \o b
           k == Len(a)
           n == Len(b)
<1>1. /\ k \in Nat /\ n \in Nat /\ DOMAIN a = 1 .. k /\ DOMAIN b = 1 .. n
      /\ a \in [1 .. k -> Nat] /\ b \in [1 .. n -> Nat]
  BY LenProperties
<1>2. /\ c \in Seq(Nat) /\ Len(c) = k + n
      /\ \A i \in 1 .. k + n : c[i] = IF i <= k THEN a[i] ELSE b[i - k]
  BY ConcatProperties
<1>3. DOMAIN c = 1 .. k + n
  BY <1>2, LenProperties
<1> HIDE DEF c, k, n
<1>4. \A i \in 1 .. k : i \in 1 .. k + n /\ c[i] = a[i]
  BY <1>1, <1>2
<1>5. \A i \in 1 .. n : k + i \in 1 .. k + n /\ c[k + i] = b[i]
  <2>1. ASSUME NEW i \in 1 .. n PROVE k + i \in 1 .. k + n /\ c[k + i] = b[i]
    <3>1. k + i \in 1 .. k + n /\ ~(k + i <= k) /\ (k + i) - k = i
      BY <1>1
    <3> QED
      BY <1>2, <3>1
  <2> QED
    BY <2>1
<1>6. \A i \in 1 .. k + n : i \in 1 .. k \/ (i - k \in 1 .. n /\ k + (i - k) = i)
  BY <1>1
<1>7. Members(c) = Members(a) \cup Members(b)
  <2>1. ASSUME NEW i \in 1 .. k + n PROVE c[i] \in Members(a) \cup Members(b)
    <3>1. CASE i \in 1 .. k
      BY <1>1, <1>4, <3>1 DEF Members
    <3>2. CASE i - k \in 1 .. n /\ k + (i - k) = i
      <4>1. c[i] = b[i - k]
        BY <1>5, <3>2
      <4> QED
        BY <1>1, <3>2, <4>1 DEF Members
    <3> QED
      BY <1>6, <3>1, <3>2
  <2>2. ASSUME NEW x \in Members(a) \cup Members(b) PROVE \E i \in 1 .. k + n : c[i] = x
    <3>1. CASE x \in Members(a)
      BY <1>1, <1>4, <3>1 DEF Members
    <3>2. CASE x \in Members(b)
      BY <1>1, <1>5, <3>2 DEF Members
    <3> QED
      BY <2>2, <3>1, <3>2
  <2>3. Members(c) = {c[i] : i \in 1 .. k + n}
    BY <1>3 DEF Members
  <2> QED
    BY <2>1, <2>2, <2>3
<1>8. ASSUME NEW i \in 1 .. k + n, NEW j \in 1 .. k + n, i < j PROVE c[i] < c[j]
  <2>1. CASE i \in 1 .. k /\ j \in 1 .. k
    BY <1>1, <1>4, <1>8, <2>1 DEF InOrder
  <2>2. CASE i \in 1 .. k /\ j - k \in 1 .. n /\ k + (j - k) = j
    <3>1. c[i] = a[i] /\ c[j] = b[j - k]
      BY <1>4, <1>5, <2>2
    <3>2. a[i] \in Members(a) /\ b[j - k] \in Members(b)
      BY <1>1, <2>2 DEF Members
    <3> QED
      BY <3>1, <3>2
  <2>3. CASE /\ i - k \in 1 .. n /\ k + (i - k) = i
             /\ j - k \in 1 .. n /\ k + (j - k) = j
    <3>1. c[i] = b[i - k] /\ c[j] = b[j - k]
      BY <1>5, <2>3
    <3>2. i - k < j - k
      BY <1>1, <1>8
    <3> QED
      BY <1>1, <2>3, <3>1, <3>2 DEF InOrder
  <2>4. ~(i - k \in 1 .. n /\ k + (i - k) = i /\ j \in 1 .. k)
    BY <1>1, <1>8
  <2> QED
    BY <1>6, <2>1, <2>2, <2>3, <2>4
<1>9. InOrder(c)
  BY <1>3, <1>8 DEF InOrder
<1> QED
  BY <1>2, <1>5, <1>7, <1>9 DEF c, k, n

(* An ordered list cut behind one of its members.                          *)
LEMMA CutInOrder ==
  ASSUME NEW q \in Seq(Nat), InOrder(q), NEW k \in 1 .. Len(q)
  PROVE  LET c == SubSeq(q, 1, k)
         IN  /\ c \in Seq(Nat) /\ InOrder(c) /\ Len(c) = k /\ c[k] = q[k]
             /\ Members(c) = {x \in Members(q) : x <= q[k]}
<1> DEFINE c == SubSeq(q, 1, k)
           n == Len(q)
<1>1. n \in Nat /\ DOMAIN q = 1 .. n /\ q \in [1 .. n -> Nat] /\ k \in 1 .. n
  BY LenProperties
<1>2. c \in Seq(Nat) /\ Len(c) = k /\ \A i \in 1 .. k : c[i] = q[i]
  <2>1. /\ c \in Seq(Nat) /\ Len(c) = IF 1 <= k THEN k - 1 + 1 ELSE 0
        /\ \A i \in 1 .. k - 1 + 1 : c[i] = q[1 + i - 1]
    <3>1. \A i \in 1 .. k : q[i] \in Nat
      BY <1>1
    <3> QED
      BY <1>1, <3>1, SubSeqProperties
  <2>2. k - 1 + 1 = k /\ 1 <= k /\ \A i \in 1 .. k : 1 + i - 1 = i
    BY <1>1
  <2> HIDE DEF c
  <2> QED
    BY <2>1, <2>2
<1>3. DOMAIN c = 1 .. k
  BY <1>2, LenProperties
<1> HIDE DEF c, n
<1>4. \A i \in 1 .. k : i \in 1 .. n
  BY <1>1
<1>5. \A i \in 1 .. n : i \in 1 .. k <=> q[i] <= q[k]
  <2>1. ASSUME NEW i \in 1 .. n PROVE i \in 1 .. k <=> q[i] <= q[k]
    <3>1. i < k => q[i] < q[k]
      BY <1>1 DEF InOrder
    <3>2. k < i => q[k] < q[i]
      BY <1>1 DEF InOrder
    <3>3. q[i] \in Nat /\ q[k] \in Nat /\ i \in Nat /\ k \in Nat /\ i >= 1
      BY <1>1
    <3>4. i < k \/ i = k \/ k < i
      BY <3>3
    <3> QED
      BY <3>1, <3>2, <3>3, <3>4
  <2> QED
    BY <2>1
<1>6. InOrder(c)
  BY <1>1, <1>2, <1>3, <1>4 DEF InOrder
<1>7. Members(c) = {x \in Members(q) : x <= q[k]}
  BY <1>1, <1>2, <1>3, <1>4, <1>5 DEF Members
<1>8. c[k] = q[k]
  BY <1>1, <1>2
<1> QED
  BY <1>2, <1>6, <1>7, <1>8 DEF c

(* Writing leaves what the streams have as it was.                         *)
LEMMA WritingKeepsStreams ==
  ASSUME EventInv, stream' = stream,
         Len(pieces') \in Nat, Len(pieces) <= Len(pieces'),
         \A i \in 1 .. Len(pieces) : pieces'[i] = pieces[i],
         Len(lines') \in Nat, Len(lines) <= Len(lines'),
         \A e \in 1 .. Len(lines) : lines'[e] = lines[e]
  PROVE  StreamsFollow'
<1>1. /\ Len(pieces) \in Nat /\ Len(lines) \in Nat
      /\ \A p \in Pages : stream[p] \in Streaming
  BY LenProperties DEF EventInv, EventTypes
<1>2. SUFFICES ASSUME NEW p \in Pages
               PROVE  /\ stream[p].at = "open" => Follows(stream[p])'
                      /\ stream[p].at = "done" => StreamEnded(stream[p])'
  BY DEF StreamsFollow
<1> DEFINE s == stream[p]
<1>3. s \in Streaming /\ s.offset \in Nat /\ stream'[p] = s
  BY <1>1, <1>2 DEF Streaming
<1>4. ASSUME s.at = "open" PROVE Follows(s)'
  <2>1. Follows(s)
    BY <1>4, <1>2 DEF EventInv, StreamsFollow
  <2>2. s.offset <= Len(pieces) /\ s.offset <= Len(pieces')
    BY <1>1, <1>3, <2>1 DEF Follows
  <2>3. 1 .. s.offset \subseteq 1 .. Len(pieces)
    BY <1>1, <1>3, <2>2
  <2>4. Begun(s.offset)' = Begun(s.offset)
    BY <1>3, <2>3 DEF Begun
  <2>5. s.offset > 0 => pieces'[s.offset] = pieces[s.offset]
    BY <1>1, <1>3, <2>2
  <2>6. Members(s.got) \subseteq 1 .. Len(lines)
    BY <2>1, <2>3 DEF Follows, Begun, EventInv, PiecesFollowLines
  <2>7. \A e \in Members(s.got) : lines'[e] # "finished"
    BY <2>1, <2>6 DEF Follows
  <2> QED
    BY <1>3, <2>1, <2>2, <2>4, <2>5, <2>7 DEF Follows
<1>5. ASSUME s.at = "done" PROVE StreamEnded(s)'
  <2>1. StreamEnded(s)
    BY <1>5, <1>2 DEF EventInv, StreamsFollow
  <2>2. s.got[Len(s.got)] \in 1 .. Len(lines')
    BY <1>1, <2>1 DEF StreamEnded
  <2> QED
    BY <1>3, <2>1, <2>2 DEF StreamEnded
<1> QED
  BY <1>4, <1>5

(* The file alone decides on its pieces.                                   *)
LEMMA SamePieces ==
  ASSUME PiecesFollowLines, UNCHANGED <<lines, pieces, writer>>
  PROVE  PiecesFollowLines'
BY DEF PiecesFollowLines

(* A round of the generator.                                               *)
LEMMA PollKeeps ==
  ASSUME EventInv, NEW p \in Pages, Poll(p)
  PROVE  EventInv'
<1> DEFINE s == stream[p]
           n == Len(pieces)
           q == Parsed(Behind(s.offset))
           missed == s.missed \cup Torn(Behind(s.offset))
           end == {i \in DOMAIN q : EndsStream(q[i])}
           k == CHOOSE i \in end : \A j \in end : i <= j
           sent == IF end = {} THEN q ELSE SubSeq(q, 1, k)
           t == [s EXCEPT !.at = IF end = {} THEN "open" ELSE "done",
                          !.offset = n, !.got = s.got \o sent, !.missed = missed]
<1>1. /\ s.at = "open" /\ Behind(s.offset) # <<>>
      /\ stream' = [stream EXCEPT ![p] = t]
      /\ UNCHANGED <<lines, pieces, writer>>
  BY DEF Poll, Behind
<1>2. /\ EventTypes /\ PiecesFollowLines /\ StreamsFollow
      /\ s \in Streaming /\ Follows(s)
  BY <1>1 DEF EventInv, EventTypes, StreamsFollow
<1>3. n \in Nat /\ Len(lines) \in Nat
  BY <1>2, LenProperties DEF EventTypes
<1>4. /\ s.at \in {"closed", "open", "done"} /\ s.offset \in Nat /\ s.got \in Seq(Nat)
      /\ s.missed \in SUBSET Nat /\ s.opens \in Nat
      /\ s = [at |-> s.at, offset |-> s.offset, got |-> s.got, missed |-> s.missed,
              opens |-> s.opens]
  BY <1>2 DEF Streaming
<1>5. s.offset < n /\ s.offset \in 0 .. n
  <2>1. s.offset <= n /\ s.offset \in 0 .. n
    BY <1>2, <1>3, <1>4 DEF Follows
  <2>2. Behind(s.offset) \in Seq(EventPiece) /\ Len(Behind(s.offset)) = n - s.offset
    BY <1>2, <2>1, BehindIs
  <2>3. Len(Behind(s.offset)) # 0
    BY <1>1, <2>2, EmptySeq
  <2> QED
    BY <1>3, <1>4, <2>1, <2>2, <2>3
<1>6. q \in Seq(Nat) /\ InOrder(q)
  BY <1>2, <1>5, ParsedIs
<1>7. /\ \A d \in Members(s.got), e \in Members(q) : d < e
      /\ Members(s.got) \cup Members(q) = Begun(n) \ missed
      /\ missed \subseteq Begun(n)
      /\ pieces[n].part = "head" => pieces[n].of \in missed
  BY <1>2, <1>5, PollFinds
<1>8. Begun(n) = 1 .. Len(lines)
  BY <1>2 DEF Begun, PiecesFollowLines
<1>9. InOrder(s.got) /\ \A e \in Members(s.got) : lines[e] # "finished"
  BY <1>2 DEF Follows
<1>10. missed \in SUBSET Nat
  BY <1>3, <1>7, <1>8
<1> HIDE DEF n, q, missed
<1>11. CASE end = {}
  <2>2. /\ s.got \o q \in Seq(Nat) /\ InOrder(s.got \o q)
        /\ Members(s.got \o q) = Members(s.got) \cup Members(q)
    BY <1>4, <1>6, <1>7, <1>9, JoinedInOrder
  <2>1. /\ t \in Streaming
        /\ t.at = "open" /\ t.offset = n /\ t.got = s.got \o q /\ t.missed = missed
    <3> HIDE DEF end
    <3>1. sent = q
      BY <1>11
    <3>2. (IF end = {} THEN "open" ELSE "done") = "open"
      BY <1>11
    <3> HIDE DEF sent
    <3>3. t = [s EXCEPT !.at = "open", !.offset = n, !.got = s.got \o q, !.missed = missed]
      BY <3>1, <3>2
    <3>4. s \in Streaming /\ n \in Nat
      BY <1>2, <1>3 DEF n
    <3> DEFINE g == s.got \o q
    <3>5. g \in Seq(Nat) /\ t = [s EXCEPT !.at = "open", !.offset = n, !.got = g, !.missed = missed]
      BY <2>2, <3>3
    <3> HIDE DEF t, s, g
    <3>6. /\ t \in Streaming
          /\ t.at = "open" /\ t.offset = n /\ t.got = g /\ t.missed = missed
      BY <1>10, <3>4, <3>5 DEF Streaming
    <3> QED
      BY <3>6 DEF g
  <2> HIDE DEF t
  <2>3. t \in Streaming
    BY <2>1
  <2>4. \A e \in Members(q) : lines[e] # "finished"
    BY <1>11 DEF Members, EndsStream
  <2>5. \A e \in Members(t.got) : lines[e] # "finished"
    BY <1>9, <2>1, <2>2, <2>4
  <2>6. Follows(t)
    BY <1>3, <1>7, <2>1, <2>2, <2>5 DEF Follows, n
  <2>7. EventTypes'
    BY <1>1, <1>2, <2>3 DEF EventTypes
  <2>8. PiecesFollowLines'
    BY <1>1, <1>2, SamePieces
  <2>9. StreamsFollow'
    <3>1. SUFFICES ASSUME NEW o \in Pages
                   PROVE  /\ stream'[o].at = "open" => Follows(stream'[o])
                          /\ stream'[o].at = "done" => StreamEnded(stream'[o])
      BY <1>1 DEF StreamsFollow, Follows, StreamEnded, Begun
    <3>2. CASE o = p
      <4>1. stream'[o] = t
        BY <1>1, <1>2, <3>2 DEF EventTypes
      <4> QED
        BY <2>1, <2>6, <4>1
    <3>3. CASE o # p
      <4>1. stream'[o] = stream[o]
        BY <1>1, <1>2, <3>3 DEF EventTypes
      <4> QED
        BY <1>2, <3>1, <4>1 DEF StreamsFollow
    <3> QED
      BY <3>2, <3>3
  <2> QED
    BY <2>7, <2>8, <2>9 DEF EventInv
<1>12. CASE end # {}
  <2>1. DOMAIN q = 1 .. Len(q) /\ Len(q) \in Nat
    BY <1>6, LenProperties
  <2>2. k \in end /\ k \in 1 .. Len(q)
    <3>1. end \subseteq Nat
      BY <2>1
    <3>2. \E i \in end : \A j \in end : i <= j
      BY <1>12, <3>1, LeastMember
    <3> HIDE DEF end
    <3>3. k \in end
      BY <3>2
    <3> QED
      BY <2>1, <3>3 DEF end
  <2>3. lines[q[k]] = "finished" /\ q[k] \in Members(q)
    BY <2>1, <2>2 DEF EndsStream, Members
  <2>4. sent = SubSeq(q, 1, k)
    BY <1>12
  <2>5. /\ sent \in Seq(Nat) /\ InOrder(sent) /\ Len(sent) = k /\ sent[k] = q[k]
        /\ Members(sent) = {x \in Members(q) : x <= q[k]}
    <3> HIDE DEF sent, k
    <3> QED
      BY <1>6, <2>2, <2>4, CutInOrder
  <2> HIDE DEF sent, k, end
  <2>7. /\ s.got \o sent \in Seq(Nat) /\ InOrder(s.got \o sent)
        /\ Members(s.got \o sent) = Members(s.got) \cup Members(sent)
        /\ Len(s.got \o sent) = Len(s.got) + k
        /\ (s.got \o sent)[Len(s.got) + k] = q[k]
    <3>1. \A d \in Members(s.got), e \in Members(sent) : d < e
      BY <1>7, <2>5
    <3>2. k \in 1 .. Len(sent)
      BY <2>2, <2>5
    <3> QED
      BY <1>4, <1>9, <2>5, <3>1, <3>2, JoinedInOrder
  <2>6. /\ t \in Streaming
        /\ t.at = "done" /\ t.offset = n /\ t.got = s.got \o sent /\ t.missed = missed
    <3>2. (IF end = {} THEN "open" ELSE "done") = "done"
      BY <1>12
    <3>3. t = [s EXCEPT !.at = "done", !.offset = n, !.got = s.got \o sent, !.missed = missed]
      BY <3>2
    <3>4. s \in Streaming /\ n \in Nat
      BY <1>2, <1>3 DEF n
    <3> DEFINE g == s.got \o sent
    <3>5. g \in Seq(Nat) /\ t = [s EXCEPT !.at = "done", !.offset = n, !.got = g, !.missed = missed]
      BY <2>7, <3>3
    <3> HIDE DEF t, s, g
    <3>6. /\ t \in Streaming
          /\ t.at = "done" /\ t.offset = n /\ t.got = g /\ t.missed = missed
      BY <1>10, <3>4, <3>5 DEF Streaming
    <3> QED
      BY <3>6 DEF g
  <2> HIDE DEF t
  <2>8. t \in Streaming
    BY <2>6
  <2>9. q[k] \in 1 .. Len(lines)
    BY <1>7, <1>8, <2>3
  <2>10. Members(t.got) = (1 .. q[k]) \ t.missed
    <3>1. Members(s.got) \cup Members(q) = (1 .. Len(lines)) \ missed
      BY <1>7, <1>8
    <3>2. \A d \in Members(s.got) : d < q[k]
      BY <1>7, <2>3
    <3>3. Members(t.got) = Members(s.got) \cup {x \in Members(q) : x <= q[k]}
      BY <2>5, <2>6, <2>7
    <3>4. \A x \in 1 .. Len(lines) : x \in 1 .. q[k] <=> x <= q[k]
      BY <1>3, <2>9
    <3>5. \A x \in 1 .. q[k] : x \in 1 .. Len(lines)
      BY <1>3, <2>9
    <3>6. \A d \in Members(s.got) : d \in 1 .. q[k]
      <4>1. \A d \in Members(s.got) : d \in 1 .. Len(lines) /\ d < q[k]
        BY <3>1, <3>2
      <4> QED
        BY <1>3, <2>9, <4>1
    <3> QED
      BY <2>6, <3>1, <3>3, <3>4, <3>5, <3>6
  <2>11. StreamEnded(t)
    <3>1. Len(t.got) = Len(s.got) + k /\ t.got[Len(t.got)] = q[k]
      BY <2>6, <2>7
    <3>2. t.got # <<>>
      <4>1. Len(s.got) \in Nat /\ k \in Nat /\ k > 0
        BY <1>4, <2>1, <2>2, LenProperties
      <4>2. Len(t.got) # 0
        BY <3>1, <4>1
      <4>3. t.got \in Seq(Nat)
        BY <2>6, <2>7
      <4> QED
        BY <4>2, <4>3, EmptySeq
    <3> QED
      BY <2>3, <2>6, <2>7, <2>9, <2>10, <3>1, <3>2 DEF StreamEnded
  <2>12. EventTypes'
    BY <1>1, <1>2, <2>8 DEF EventTypes
  <2>13. PiecesFollowLines'
    BY <1>1, <1>2, SamePieces
  <2>14. StreamsFollow'
    <3>1. SUFFICES ASSUME NEW o \in Pages
                   PROVE  /\ stream'[o].at = "open" => Follows(stream'[o])
                          /\ stream'[o].at = "done" => StreamEnded(stream'[o])
      BY <1>1 DEF StreamsFollow, Follows, StreamEnded, Begun
    <3>2. CASE o = p
      <4>1. stream'[o] = t
        BY <1>1, <1>2, <3>2 DEF EventTypes
      <4> QED
        BY <2>6, <2>11, <4>1
    <3>3. CASE o # p
      <4>1. stream'[o] = stream[o]
        BY <1>1, <1>2, <3>3 DEF EventTypes
      <4> QED
        BY <1>2, <3>1, <4>1 DEF StreamsFollow
    <3> QED
      BY <3>2, <3>3
  <2> QED
    BY <2>12, <2>13, <2>14 DEF EventInv
<1> QED
  BY <1>11, <1>12

(* A request, or the end of a connection, concerns that browser alone.     *)
LEMMA OpenedOrExpired ==
  ASSUME EventInv, NEW p \in Pages, Open(p) \/ Expire(p)
  PROVE  EventInv'
<1> DEFINE t == IF Open(p)
                THEN [NoStream EXCEPT !.at = "open", !.opens = stream[p].opens + 1]
                ELSE [stream[p] EXCEPT !.at = "closed"]
<1>1. EventTypes /\ PiecesFollowLines /\ StreamsFollow /\ stream[p] \in Streaming
  BY DEF EventInv, EventTypes
<1>2. stream' = [stream EXCEPT ![p] = t] /\ UNCHANGED <<lines, pieces, writer>>
  BY DEF Open, Expire
<1>5. t \in Streaming /\ (t.at = "open" => Follows(t)) /\ t.at # "done"
  <2>1. CASE Open(p)
    <3>1. t = [at |-> "open", offset |-> 0, got |-> <<>>, missed |-> {},
               opens |-> stream[p].opens + 1]
      BY <2>1 DEF NoStream
    <3>2. stream[p].opens \in Nat
      BY <1>1 DEF Streaming
    <3>6. <<>> \in Seq(Nat) /\ {} \in SUBSET Nat /\ 0 \in Nat /\ stream[p].opens + 1 \in Nat
      BY <3>2, EmptySeq
    <3> HIDE DEF t
    <3>3. t \in Streaming
      BY <3>1, <3>6 DEF Streaming
    <3>4. Len(pieces) \in Nat
      BY <1>1, LenProperties DEF EventTypes
    <3>5. Members(<<>>) = {} /\ InOrder(<<>>) /\ Begun(0) = {}
      BY DEF Members, InOrder, Begun
    <3> QED
      BY <3>1, <3>3, <3>4, <3>5 DEF Follows
  <2>2. CASE ~Open(p)
    BY <1>1, <2>2 DEF Streaming
  <2> QED
    BY <2>1, <2>2
<1> HIDE DEF t
<1>6. EventTypes'
  BY <1>1, <1>2, <1>5 DEF EventTypes
<1>7. PiecesFollowLines'
  BY <1>1, <1>2, SamePieces
<1>8. StreamsFollow'
  <2>1. SUFFICES ASSUME NEW o \in Pages
                 PROVE  /\ stream'[o].at = "open" => Follows(stream'[o])
                        /\ stream'[o].at = "done" => StreamEnded(stream'[o])
    <3>1. UNCHANGED <<lines, pieces>>
      BY <1>2
    <3> QED
      BY <3>1 DEF StreamsFollow, Follows, StreamEnded, Begun
  <2>2. CASE o = p
    BY <1>1, <1>2, <1>5, <2>2 DEF EventTypes
  <2>3. CASE o # p
    BY <1>1, <1>2, <2>1, <2>3 DEF EventTypes, StreamsFollow
  <2> QED
    BY <2>2, <2>3
<1> QED
  BY <1>6, <1>7, <1>8 DEF EventInv

(* The threads of the run.                                                 *)
LEMMA EmitKeeps ==
  ASSUME EventInv, RunEventsAssumption,
         EmitLine \/ \E w \in Writers : EmitHead(w) \/ EmitRest(w)
  PROVE  EventInv'
<1>1. /\ EventTypes /\ PiecesFollowLines /\ Len(pieces) \in Nat /\ Len(lines) \in Nat
      /\ "none" \notin Writers
  BY LenProperties DEF EventInv, EventTypes, RunEventsAssumption
<1>2. ASSUME NEW kind \in Endings, NEW part \in {"whole", "head"}, writer = "none",
             lines' = Append(lines, kind),
             pieces' = Append(pieces, Piece(Len(lines) + 1, part)),
             writer' # "none" <=> part = "head", writer' \in Writers \cup {"none"},
             stream' = stream
      PROVE  EventInv'
  <2>1. PiecesFollowLines'
    BY <1>1, <1>2, NewLine
  <2>2. Piece(Len(lines) + 1, part) \in EventPiece
    BY <1>1 DEF Piece, EventPiece
  <2>3. /\ pieces' \in Seq(EventPiece) /\ Len(pieces') = Len(pieces) + 1
        /\ \A i \in 1 .. Len(pieces) : pieces'[i] = pieces[i]
    BY <1>1, <1>2, <2>2, WrittenBehind
  <2>4. /\ lines' \in Seq(Endings) /\ Len(lines') = Len(lines) + 1
        /\ \A e \in 1 .. Len(lines) : lines'[e] = lines[e]
    BY <1>1, <1>2, AppendProperties DEF EventTypes
  <2>5. EventTypes'
    BY <1>1, <1>2, <2>3, <2>4 DEF EventTypes
  <2>6. StreamsFollow'
    <3>1. /\ Len(pieces') \in Nat /\ Len(pieces) <= Len(pieces')
          /\ Len(lines') \in Nat /\ Len(lines) <= Len(lines')
      BY <1>1, <2>3, <2>4
    <3> QED
      BY <1>2, <2>3, <2>4, <3>1, WritingKeepsStreams
  <2> QED
    BY <2>1, <2>5, <2>6 DEF EventInv
<1>3. CASE EmitLine
  <2>1. PICK kind \in Endings : lines' = Append(lines, kind)
    BY <1>3 DEF EmitLine
  <2>2. /\ writer = "none" /\ writer' = "none" /\ stream' = stream
        /\ pieces' = Append(pieces, Piece(Len(lines) + 1, "whole"))
    BY <1>3 DEF EmitLine
  <2> QED
    BY <1>2, <2>1, <2>2
<1>4. CASE \E w \in Writers : EmitHead(w)
  <2>1. PICK w \in Writers : EmitHead(w)
    BY <1>4
  <2>2. /\ writer = "none" /\ writer' \in Writers /\ writer' # "none" /\ stream' = stream
        /\ lines' = Append(lines, "note") /\ "note" \in Endings
        /\ pieces' = Append(pieces, Piece(Len(lines) + 1, "head"))
    BY <1>1, <2>1 DEF EmitHead, Endings
  <2> QED
    BY <1>2, <2>2
<1>5. CASE \E w \in Writers : EmitRest(w)
  <2>1. /\ writer # "none" /\ writer' = "none" /\ stream' = stream /\ lines' = lines
        /\ pieces' = Append(pieces, Piece(Len(lines), "rest"))
    BY <1>1, <1>5 DEF EmitRest
  <2>2. PiecesFollowLines'
    BY <1>1, <2>1, RestOfLine
  <2>3. Piece(Len(lines), "rest") \in EventPiece
    BY <1>1 DEF Piece, EventPiece
  <2>4. /\ pieces' \in Seq(EventPiece) /\ Len(pieces') = Len(pieces) + 1
        /\ \A i \in 1 .. Len(pieces) : pieces'[i] = pieces[i]
    BY <1>1, <2>1, <2>3, WrittenBehind
  <2>5. EventTypes'
    BY <1>1, <2>1, <2>4 DEF EventTypes
  <2>6. StreamsFollow'
    <3>1. Len(pieces') \in Nat /\ Len(pieces) <= Len(pieces')
      BY <1>1, <2>4
    <3> QED
      BY <1>1, <2>1, <2>4, <3>1, WritingKeepsStreams
  <2> QED
    BY <2>2, <2>5, <2>6 DEF EventInv
<1> QED
  BY <1>3, <1>4, <1>5

(* A stream that ends with "finished" has sent, in order and once, every   *)
(* event of the log up to it that it did not see in part; and the log, read *)
(* when nobody writes, has every event (EndedStreamIsComplete): stream_run *)
(* of surface/server.py over what Blackboard.emit appends.                 *)
THEOREM EndedStreamsAreComplete == EventsSpec => []EndedStreamIsComplete
<1>1. EventsInit => EventInv
  <2> SUFFICES ASSUME EventsInit PROVE EventInv
    OBVIOUS
  <2>1. NoStream \in Streaming /\ NoStream.at = "closed"
    BY EmptySeq DEF NoStream, Streaming
  <2>2. /\ lines = <<>> /\ pieces = <<>> /\ writer = "none"
        /\ stream = [p \in Pages |-> NoStream]
        /\ <<>> \in Seq(Endings) /\ <<>> \in Seq(EventPiece) /\ Len(<<>>) = 0
    BY EmptySeq DEF EventsInit
  <2>3. EventTypes
    BY <2>1, <2>2 DEF EventTypes
  <2>4. PiecesFollowLines
    BY <2>2 DEF PiecesFollowLines
  <2>5. StreamsFollow
    BY <2>1, <2>2 DEF StreamsFollow
  <2> QED
    BY <2>3, <2>4, <2>5 DEF EventInv
<1>2. EventInv /\ [EventsNext]_eventVars => EventInv'
  <2> SUFFICES ASSUME EventInv, [EventsNext]_eventVars PROVE EventInv'
    OBVIOUS
  <2>1. CASE EmitLine \/ \E w \in Writers : EmitHead(w) \/ EmitRest(w)
    BY <2>1, EmitKeeps, RunEventsAssumption
  <2>2. CASE \E p \in Pages : Open(p) \/ Expire(p)
    BY <2>2, OpenedOrExpired
  <2>3. CASE \E p \in Pages : Poll(p)
    BY <2>3, PollKeeps
  <2>4. CASE UNCHANGED eventVars
    <3>1. UNCHANGED <<lines, pieces, writer>> /\ stream' = stream
      BY <2>4 DEF eventVars
    <3>2. EventTypes'
      BY <3>1 DEF EventInv, EventTypes
    <3>3. PiecesFollowLines'
      BY <3>1, SamePieces DEF EventInv
    <3>4. StreamsFollow'
      BY <3>1 DEF EventInv, StreamsFollow, Follows, StreamEnded, Begun
    <3> QED
      BY <3>2, <3>3, <3>4 DEF EventInv
  <2> QED
    BY <2>1, <2>2, <2>3, <2>4 DEF EventsNext
<1>3. EventInv => EndedStreamIsComplete
  <2> SUFFICES ASSUME EventInv PROVE EndedStreamIsComplete
    OBVIOUS
  <2>1. writer = "none" => Parsed(pieces) = [e \in DOMAIN lines |-> e]
    BY WholeFile DEF EventInv
  <2>2. \A p \in Pages : stream[p].at = "done" => StreamEnded(stream[p])
    BY DEF EventInv, StreamsFollow
  <2> QED
    BY <2>1, <2>2 DEF StreamEnded, EndedStreamIsComplete
<1> QED
  BY <1>1, <1>2, <1>3, PTL DEF EventsSpec

===========================================================================
