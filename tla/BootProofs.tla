----------------------------- MODULE BootProofs ------------------------------
(***************************************************************************)
(* What Boot promises for any processes, configurations and numbers of     *)
(* crashes: all who ever take a key from the file hold the same one, a     *)
(* sensor that is up without a rival is behind its socket files, and every *)
(* listener that accepts has the trust and the persona it was opened for.  *)
(* And what Identity, which reads the ranges Boot loads, promises for any  *)
(* pairs, resolvers, slots, threads, cache limits and clocks: whatever     *)
(* waits, times out or is answered late, only a genuine pair is called     *)
(* verified, a pair has one task between sweeps, a cached verdict is not   *)
(* handed out after its time, and the cache keeps to its limit.            *)
(***************************************************************************)
EXTENDS Boot, Identity, FiniteSetTheorems, SequenceTheorems, TLAPS

Stages == {"down", "drawn", "creating", "keyed", "opening", "up", "stopping", "flushed"}

LEMMA NumbersUpTo ==
  ASSUME NEW k \in Int, k >= 0
  PROVE  Cardinality(1..k) = k
<1>1. Cardinality(1..k) = IF 1 > k THEN 0 ELSE k - 1 + 1
  BY FS_Interval, SMTT(30)
<1> QED
  BY <1>1

-----------------------------------------------------------------------------
(* The key.  Only the process whose open() made the file writes into it,   *)
(* and until then nobody has held a key but one from an environment.       *)

KeyTypes ==
  /\ \A p \in Procs : config[p] \in Configs[p]
  /\ stage \in [Procs -> Stages]
  /\ keyfile \in [holds : {"nothing", "empty", "short", "part", "all"}, of : Procs \union {NoOne}]

OneCreator == \A p \in Procs : stage[p] = "creating" => keyfile = [holds |-> "empty", of |-> p]

KeyOnFile == used \ Given \subseteq {k \in {Parsed(keyfile)} : k # NoOne}

KeyInv == KeyTypes /\ OneCreator /\ KeyOnFile

LEMMA KeyInit == Init => KeyInv
BY DEF Init, KeyInv, KeyTypes, OneCreator, KeyOnFile, Stages

LEMMA GivenIsNotDrawn ==
  ASSUME KeyTypes, NEW p \in Procs
  PROVE  config[p].given # NoOne => config[p].given \in Given
BY DEF KeyTypes, Given

(* A step that leaves the key alone and begins no creation.                *)
LEMMA KeyUntouched ==
  ASSUME KeyInv, UNCHANGED <<config, secret>>, NEW p \in Procs, NEW s \in Stages \ {"creating"}, Goes(p, s)
  PROVE  KeyInv'
BY DEF KeyInv, KeyTypes, OneCreator, KeyOnFile, Parsed, secret, Goes

LEMMA TakeKeyKeeps ==
  ASSUME KeyInv, NEW p \in Procs, TakeKey(p), UNCHANGED config
  PROVE  KeyInv'
<1>1. CASE Parsed(keyfile) = NoOne
  BY <1>1, KeyUntouched DEF TakeKey, Ends, secret, Stages
<1>2. CASE Parsed(keyfile) # NoOne
  <2>1. /\ keyfile' = keyfile /\ used' = used \union {Parsed(keyfile)} /\ config' = config
        /\ stage' = [stage EXCEPT ![p] = "keyed"]
    BY <1>2 DEF TakeKey, Holds, Goes
  <2>2. KeyTypes' /\ OneCreator'
    BY <2>1 DEF KeyInv, KeyTypes, OneCreator, Stages
  <2>3. KeyOnFile'
    BY <1>2, <2>1 DEF KeyInv, KeyOnFile, Parsed
  <2> QED
    BY <2>2, <2>3 DEF KeyInv
<1> QED
  BY <1>1, <1>2

LEMMA CreateKeyKeeps ==
  ASSUME KeyInv, NEW p \in Procs, CreateKey(p)
  PROVE  KeyInv'
<1>1. CASE keyfile.holds = "nothing"
  <2>1. /\ keyfile' = [holds |-> "empty", of |-> p] /\ used' = used /\ config' = config
        /\ stage' = [stage EXCEPT ![p] = "creating"]
    BY <1>1 DEF CreateKey, Goes
  <2>2. KeyTypes'
    BY <2>1 DEF KeyInv, KeyTypes, Stages
  <2>3. OneCreator'
    BY <1>1, <2>1 DEF KeyInv, KeyTypes, OneCreator
  <2>4. KeyOnFile'
    BY <1>1, <2>1 DEF KeyInv, KeyOnFile, Parsed
  <2> QED
    BY <2>2, <2>3, <2>4 DEF KeyInv
<1>2. CASE keyfile.holds # "nothing"
  BY <1>2, TakeKeyKeeps DEF CreateKey
<1> QED
  BY <1>1, <1>2

LEMMA WriteKeyKeeps ==
  ASSUME KeyInv, NEW p \in Procs, WriteKey(p)
  PROVE  KeyInv'
<1>1. /\ keyfile' = [holds |-> "all", of |-> p] /\ used' = used \union {p} /\ config' = config
      /\ stage' = [stage EXCEPT ![p] = "keyed"] /\ stage[p] = "creating"
  BY DEF WriteKey, Holds, Goes
<1>2. keyfile = [holds |-> "empty", of |-> p]
  BY <1>1 DEF KeyInv, OneCreator
<1>3. used \subseteq Given
  BY <1>2 DEF KeyInv, KeyOnFile, Parsed
<1>4. KeyTypes'
  BY <1>1 DEF KeyInv, KeyTypes, Stages
<1>5. OneCreator'
  BY <1>1, <1>2 DEF KeyInv, KeyTypes, OneCreator
<1>6. KeyOnFile'
  BY <1>1, <1>3, ConstantsOK DEF ConstantsOK, KeyOnFile, Parsed
<1> QED
  BY <1>4, <1>5, <1>6 DEF KeyInv

LEMMA WriteKeyFailsKeeps ==
  ASSUME KeyInv, NEW p \in Procs, WriteKeyFails(p)
  PROVE  KeyInv'
<1>1. PICK h \in {"empty", "short", "part"} : keyfile' = [keyfile EXCEPT !.holds = h]
  BY DEF WriteKeyFails
<1>2. /\ stage[p] = "creating" /\ used' = used /\ config' = config
      /\ stage' = [stage EXCEPT ![p] = "down"]
  BY DEF WriteKeyFails, Ends, Goes
<1>3. keyfile = [holds |-> "empty", of |-> p]
  BY <1>2 DEF KeyInv, OneCreator
<1>4. used \subseteq Given
  BY <1>3 DEF KeyInv, KeyOnFile, Parsed
<1>5. KeyTypes'
  BY <1>1, <1>2 DEF KeyInv, KeyTypes, Stages
<1>6. OneCreator'
  BY <1>2, <1>3 DEF KeyInv, KeyTypes, OneCreator
<1>7. KeyOnFile'
  BY <1>2, <1>4 DEF KeyOnFile
<1> QED
  BY <1>5, <1>6, <1>7 DEF KeyInv

LEMMA KeyStep == KeyInv /\ [Next]_vars => KeyInv'
<1> SUFFICES ASSUME KeyInv, [Next]_vars
             PROVE  KeyInv'
  OBVIOUS
<1>1. CASE UNCHANGED <<config, secret, stage>>
  BY <1>1 DEF KeyInv, KeyTypes, OneCreator, KeyOnFile, Parsed, secret
<1>2. ASSUME NEW p \in Procs, LookForKey(p)
      PROVE  KeyInv'
  <2>1. CASE config[p].given # NoOne
    <3>1. /\ UNCHANGED <<config, keyfile>> /\ used' = used \union {config[p].given}
          /\ stage' = [stage EXCEPT ![p] = "keyed"]
      BY <1>2, <2>1 DEF LookForKey, Holds, Goes
    <3>2. config[p].given \in Given
      BY <2>1, GivenIsNotDrawn DEF KeyInv
    <3>3. KeyTypes' /\ OneCreator'
      BY <3>1 DEF KeyInv, KeyTypes, OneCreator, Stages
    <3>4. KeyOnFile'
      BY <3>1, <3>2 DEF KeyInv, KeyOnFile, Parsed
    <3> QED
      BY <3>3, <3>4 DEF KeyInv
  <2>2. CASE config[p].given = NoOne /\ keyfile.holds = "nothing"
    BY <1>2, <2>2, KeyUntouched DEF LookForKey, secret, Stages
  <2>3. CASE config[p].given = NoOne /\ keyfile.holds # "nothing"
    BY <1>2, <2>3, TakeKeyKeeps DEF LookForKey
  <2> QED
    BY <2>1, <2>2, <2>3
<1>3. ASSUME NEW p \in Procs, LoadRanges(p)
      PROVE  KeyInv'
  BY <1>3, KeyUntouched DEF LoadRanges, Ends, Stages
<1>4. ASSUME NEW p \in Procs, OpenNext(p)
      PROVE  KeyInv'
  <2>1. UNCHANGED <<config, secret>> /\ (Goes(p, "down") \/ Goes(p, "opening") \/ Goes(p, "up"))
    BY <1>4 DEF OpenNext, Ends
  <2> QED
    BY <2>1, KeyUntouched DEF Stages
<1>5. ASSUME NEW p \in Procs, StopLog(p) \/ Unlink(p) \/ StopSites(p) \/ Dies(p)
      PROVE  KeyInv'
  <2>1. /\ UNCHANGED <<config, secret>>
        /\ Goes(p, "down") \/ Goes(p, "stopping") \/ Goes(p, "flushed")
    BY <1>5 DEF StopLog, Unlink, StopSites, Dies, Ends
  <2> QED
    BY <2>1, KeyUntouched DEF Stages
<1>6. CASE ExportReadsKey
  BY <1>6 DEF ExportReadsKey, KeyInv, KeyTypes, OneCreator, KeyOnFile, Parsed
<1>7. CASE RefreshStarts \/ RefreshWrites \/ RefreshDies
  BY <1>1, <1>7 DEF RefreshStarts, RefreshWrites, RefreshDies
<1>8. CASE UNCHANGED vars
  BY <1>1, <1>8 DEF vars
<1> QED
  BY <1>2, <1>3, <1>4, <1>5, <1>6, <1>7, <1>8, CreateKeyKeeps, WriteKeyKeeps, WriteKeyFailsKeeps
  DEF Next, Step

(* Any number of sensors and exports that take their key from the file of  *)
(* one data directory, racing for it, dying over it and starting again,    *)
(* hold the same one; sensors whose environment gives them another key     *)
(* change nothing in that (load_secret, read_secret).                      *)
THEOREM OneKeyAlways == Spec => []OneKey
<1>1. KeyInv => OneKey
  <2> SUFFICES ASSUME KeyInv
               PROVE  OneKey
    OBVIOUS
  <2>1. used \ Given = {} \/ used \ Given = {Parsed(keyfile)}
    BY DEF KeyInv, KeyOnFile
  <2>2. Cardinality({}) = 0 /\ Cardinality({Parsed(keyfile)}) = 1
    BY FS_EmptySet, FS_Singleton
  <2> QED
    BY <2>1, <2>2 DEF OneKey
<1> QED
  BY <1>1, KeyInit, KeyStep, PTL DEF Spec

-----------------------------------------------------------------------------
(* The listeners of a configuration: the public port, then the socket      *)
(* files, then the rest.                                                   *)

LEMMA Joined ==
  ASSUME NEW S, NEW s \in Seq(S), NEW t \in Seq(S)
  PROVE  /\ s \o t \in Seq(S) /\ Len(s \o t) = Len(s) + Len(t)
         /\ \A i \in 1..Len(s) : (s \o t)[i] = s[i]
         /\ \A i \in 1..Len(t) : (s \o t)[Len(s) + i] = t[i]
<1>1. /\ s \o t \in Seq(S) /\ Len(s \o t) = Len(s) + Len(t)
      /\ \A i \in 1..Len(s) + Len(t) :
           (s \o t)[i] = IF i <= Len(s) THEN s[i] ELSE t[i - Len(s)]
  BY ConcatProperties
<1>2. Len(s) \in Nat /\ Len(t) \in Nat
  BY LenProperties
<1>3. ASSUME NEW i \in 1..Len(s)
      PROVE  (s \o t)[i] = s[i]
  <2>1. i \in 1..Len(s) + Len(t) /\ i <= Len(s)
    BY <1>2
  <2> QED
    BY <1>1, <2>1
<1>4. ASSUME NEW i \in 1..Len(t)
      PROVE  (s \o t)[Len(s) + i] = t[i]
  <2>1. Len(s) + i \in 1..Len(s) + Len(t) /\ ~(Len(s) + i <= Len(s)) /\ Len(s) + i - Len(s) = i
    BY <1>2
  <2> QED
    BY <1>1, <2>1
<1> QED
  BY <1>1, <1>3, <1>4

LEMMA ListenersFacts ==
  ASSUME NEW p \in Procs, NEW c \in Configs[p]
  PROVE  /\ Len(Listeners(c)) \in Nat \ {0}
         /\ DOMAIN Listeners(c) = 1..Len(Listeners(c))
         /\ Listeners(c)[1] = Tcp(c.host, c.port, "public")
         /\ DOMAIN c.sockets = 1..Len(c.sockets)
         /\ \A j \in DOMAIN c.sockets : /\ j + 1 \in DOMAIN Listeners(c)
                                        /\ Listeners(c)[j + 1] = c.sockets[j]
                                        /\ Unix(c.sockets[j]) /\ c.sockets[j].at \in Paths
<1> DEFINE Public1 == <<Tcp(c.host, c.port, "public")>>
           Personas == [i \in DOMAIN c.personas |->
                          Tcp(c.host, Port(c.personas[i]), c.personas[i].name)]
           Sockets == [net : {"unix"}, at : Paths, port : {0}, role : {"front", "admin"}]
           Proxies == [net : {"tcp"}, at : Wildcards \union Interfaces, port : Nat, role : {"proxy"}]
           Of(seq) == {seq[i] : i \in DOMAIN seq}
           S == Of(Public1) \union Sockets \union Proxies \union Of(Personas)
<1>1. /\ c.sockets \in Seq(Sockets) /\ c.proxy \in Seq(Proxies)
      /\ c.personas \in Seq([name : STRING, port : Nat])
  BY ConfigsOK DEF ConfigsOK
<1>2. Public1 \in Seq(S) /\ Len(Public1) = 1
  OBVIOUS
<1>3. c.sockets \in Seq(S) /\ c.proxy \in Seq(S)
  <2>1. Sockets \subseteq S /\ Proxies \subseteq S
    OBVIOUS
  <2> HIDE DEF S, Sockets, Proxies
  <2> QED
    BY <1>1, <2>1, SeqMonotonic
<1>4. Personas \in Seq(S)
  <2>1. DOMAIN Personas = 1..Len(c.personas) /\ Len(c.personas) \in Nat
    BY <1>1
  <2>2. \A i \in DOMAIN Personas : Personas[i] \in S
    OBVIOUS
  <2>3. Personas \in [1..Len(c.personas) -> S]
    BY <2>1, <2>2
  <2> HIDE DEF Personas, S
  <2> QED
    BY <2>1, <2>3
<1> DEFINE A == Public1 \o c.sockets
           B == A \o c.proxy
<1>5. Listeners(c) = B \o Personas /\ Public1[1] = Tcp(c.host, c.port, "public")
  BY DEF Listeners
<1>6. Len(Public1) \in Nat /\ Len(c.sockets) \in Nat /\ Len(c.proxy) \in Nat /\ Len(Personas) \in Nat
  BY <1>2, <1>3, <1>4, LenProperties
<1> HIDE DEF S, Personas, Public1, Sockets
<1>7. /\ A \in Seq(S) /\ Len(A) = 1 + Len(c.sockets)
      /\ A[1] = Public1[1] /\ \A j \in 1..Len(c.sockets) : A[1 + j] = c.sockets[j]
  <2>1. Public1 \in Seq(S) /\ c.sockets \in Seq(S)
    BY <1>2, <1>3
  <2>2. /\ Public1 \o c.sockets \in Seq(S)
        /\ Len(Public1 \o c.sockets) = Len(Public1) + Len(c.sockets)
    BY <2>1, Joined
  <2>3. \A i \in 1..Len(Public1) : (Public1 \o c.sockets)[i] = Public1[i]
    BY <2>1, Joined
  <2>4. \A i \in 1..Len(c.sockets) : (Public1 \o c.sockets)[Len(Public1) + i] = c.sockets[i]
    BY <2>1, Joined
  <2>5. 1 \in 1..Len(Public1)
    BY <1>2
  <2> HIDE DEF B
  <2> QED
    BY <1>2, <2>2, <2>3, <2>4, <2>5
<1> HIDE DEF A
<1>8. /\ B \in Seq(S) /\ Len(B) = Len(A) + Len(c.proxy)
      /\ \A i \in 1..Len(A) : B[i] = A[i]
  <2>1. A \in Seq(S) /\ c.proxy \in Seq(S)
    BY <1>3, <1>7
  <2> QED
    BY <2>1, Joined
<1> HIDE DEF B
<1>9. /\ Listeners(c) \in Seq(S) /\ Len(Listeners(c)) = Len(B) + Len(Personas)
      /\ \A i \in 1..Len(B) : Listeners(c)[i] = B[i]
  <2>1. B \in Seq(S) /\ Personas \in Seq(S)
    BY <1>4, <1>8
  <2>2. /\ B \o Personas \in Seq(S) /\ Len(B \o Personas) = Len(B) + Len(Personas)
        /\ \A i \in 1..Len(B) : (B \o Personas)[i] = B[i]
    BY <2>1, Joined
  <2> QED
    BY <1>5, <2>2
<1>10. /\ Len(Listeners(c)) \in Nat \ {0}
       /\ \A i \in 1..(1 + Len(c.sockets)) :
            i \in 1..Len(A) /\ i \in 1..Len(B) /\ i \in 1..Len(Listeners(c))
  <2>1. /\ Len(A) = 1 + Len(c.sockets) /\ Len(B) = Len(A) + Len(c.proxy)
        /\ Len(Listeners(c)) = Len(B) + Len(Personas)
    BY <1>7, <1>8, <1>9
  <2>2. \A x, y, z \in Nat : \A l, m, n \in Nat : l = 1 + x /\ m = l + y /\ n = m + z =>
          n \in Nat \ {0} /\ \A i \in 1..(1 + x) : i \in 1..l /\ i \in 1..m /\ i \in 1..n
    OBVIOUS
  <2>3. Len(A) \in Nat /\ Len(B) \in Nat /\ Len(Listeners(c)) \in Nat
    BY <1>7, <1>8, <1>9, LenProperties
  <2> HIDE DEF Listeners
  <2> QED
    BY <1>6, <2>1, <2>2, <2>3
<1>11. DOMAIN Listeners(c) = 1..Len(Listeners(c)) /\ DOMAIN c.sockets = 1..Len(c.sockets)
  BY <1>3, <1>9, LenProperties
<1>12. Listeners(c)[1] = Public1[1]
  <2>1. 1 \in 1..(1 + Len(c.sockets))
    BY <1>6
  <2>2. 1 \in 1..Len(A) /\ 1 \in 1..Len(B)
    BY <1>10, <2>1
  <2>3. Listeners(c)[1] = B[1]
    BY <1>9, <2>2
  <2>4. B[1] = A[1]
    BY <1>8, <2>2
  <2>5. A[1] = Public1[1]
    BY <1>7
  <2> QED
    BY <2>3, <2>4, <2>5
<1>13. ASSUME NEW j \in 1..Len(c.sockets)
       PROVE  /\ j + 1 \in DOMAIN Listeners(c) /\ Listeners(c)[j + 1] = c.sockets[j]
              /\ Unix(c.sockets[j]) /\ c.sockets[j].at \in Paths
  <2>1. j + 1 \in 1..(1 + Len(c.sockets)) /\ 1 + j = j + 1
    BY <1>6
  <2>2. c.sockets[j] \in Sockets
    BY <1>1, ElementOfSeq
  <2>3. Unix(c.sockets[j]) /\ c.sockets[j].at \in Paths
    BY <2>2 DEF Unix, Sockets
  <2>4. Listeners(c)[j + 1] = c.sockets[j]
    BY <1>7, <1>8, <1>9, <1>10, <2>1, ZenonT(30)
  <2> QED
    BY <1>10, <1>11, <2>1, <2>3, <2>4
<1> QED
  BY <1>5, <1>10, <1>11, <1>12, <1>13
-----------------------------------------------------------------------------
(* The sockets.  A process opens its listeners in order, so that whoever   *)
(* replaces or removes a socket file is public by then, or still stops;    *)
(* and a process for which nobody else ever was has the files it opened.   *)

Count(p) == Len(Listeners(config[p]))

NetTypes ==
  /\ \A p \in Procs : config[p] \in Configs[p]
  /\ stage \in [Procs -> Stages]
  /\ open \in [Procs -> SUBSET Nat]
  /\ sock \in [Paths -> Procs \union {NoOne, Other}]
  /\ rivalled \in [Procs -> BOOLEAN]

InOrder(p) ==
  \E k \in 0..Count(p) :
    /\ open[p] = 1..k
    /\ stage[p] \notin {"opening", "up"} => k = 0
    /\ stage[p] = "opening" => k < Count(p)
    /\ stage[p] = "up" => k = Count(p)

Alone(p) ==
  open[p] # {} /\ ~rivalled[p] =>
    /\ \A q \in Procs \ {p} : ~Public(q)
    /\ \A j \in DOMAIN config[p].sockets :
         j + 1 \in open[p] => sock[config[p].sockets[j].at] = p

NetInv == NetTypes /\ \A p \in Procs : InOrder(p) /\ Alone(p)

LEMMA NetInit == Init => NetInv
<1> SUFFICES ASSUME Init
             PROVE  NetInv
  OBVIOUS
<1>1. NetTypes
  BY DEF Init, NetTypes, Stages
<1>2. ASSUME NEW p \in Procs
      PROVE  InOrder(p) /\ Alone(p)
  <2>1. open[p] = {} /\ stage[p] = "down"
    BY DEF Init
  <2>2. Count(p) \in Nat /\ 1..0 = {}
    BY <1>1, ListenersFacts DEF NetTypes, Count
  <2>3. 0 \in 0..Count(p)
    BY <2>2
  <2> QED
    BY <2>1, <2>2, <2>3 DEF InOrder, Alone
<1> QED
  BY <1>1, <1>2 DEF NetInv

(* Nothing but the stage of one process moves, and it opens nothing.       *)
LEMMA NetQuiet ==
  ASSUME NetInv, UNCHANGED <<config, open, sock, rivalled>>,
         NEW p \in Procs, NEW s \in Stages \ {"up"}, Goes(p, s),
         stage[p] \notin {"opening", "up"},
         s \in {"stopping", "flushed"} => stage[p] \in {"stopping", "flushed"}
  PROVE  NetInv'
<1>1. NetTypes'
  BY DEF NetInv, NetTypes, Goes
<1>2. \A q \in Procs : Count(q)' = Count(q)
  BY DEF Count
<1>3. \A q \in Procs : Public(q)' => Public(q)
  BY DEF Public, NetInv, NetTypes, Goes
<1>4. ASSUME NEW q \in Procs
      PROVE  InOrder(q)'
  <2>1. CASE q # p
    BY <1>2, <2>1 DEF InOrder, NetInv, NetTypes, Goes
  <2>2. CASE q = p
    <3>1. open[p] = 1..0
      BY DEF NetInv, InOrder
    <3>2. Count(p) \in Nat \ {0}
      BY ListenersFacts DEF NetInv, NetTypes, Count
    <3>3. 0 \in 0..Count(p) /\ 0 < Count(p)
      BY <3>2
    <3>4. stage'[p] # "up"
      BY DEF NetInv, NetTypes, Goes
    <3> QED
      BY <1>2, <2>2, <3>1, <3>3, <3>4 DEF InOrder
  <2> QED
    BY <2>1, <2>2
<1>5. \A q \in Procs : Alone(q)'
  BY <1>3 DEF NetInv, Alone
<1> QED
  BY <1>1, <1>4, <1>5 DEF NetInv

(* A process closes its listeners: it ends, or it begins to stop, having   *)
(* been public.                                                            *)
LEMMA NetCloses ==
  ASSUME NetInv, UNCHANGED <<config, sock, rivalled>>,
         NEW p \in Procs, NEW s \in Stages \ {"opening", "up"}, Goes(p, s),
         open' = [open EXCEPT ![p] = {}],
         s \in {"stopping", "flushed"} => Public(p)
  PROVE  NetInv'
<1>1. NetTypes'
  BY DEF NetInv, NetTypes, Goes
<1>2. \A q \in Procs : Count(q)' = Count(q)
  BY DEF Count
<1>3. \A q \in Procs : Public(q)' => Public(q)
  BY DEF Public, NetInv, NetTypes, Goes
<1>4. ASSUME NEW q \in Procs
      PROVE  InOrder(q)'
  <2>1. CASE q # p
    BY <1>2, <2>1 DEF InOrder, NetInv, NetTypes, Goes
  <2>2. CASE q = p
    <3>1. open'[p] = 1..0 /\ stage'[p] = s
      BY DEF NetInv, NetTypes, Goes
    <3>2. Count(p) \in Nat
      BY ListenersFacts DEF NetInv, NetTypes, Count
    <3>3. 0 \in 0..Count(p)
      BY <3>2
    <3> QED
      BY <1>2, <2>2, <3>1, <3>3 DEF InOrder
  <2> QED
    BY <2>1, <2>2
<1>5. ASSUME NEW q \in Procs
      PROVE  Alone(q)'
  <2>1. open'[q] = IF q = p THEN {} ELSE open[q]
    BY DEF NetInv, NetTypes
  <2> QED
    BY <1>3, <2>1 DEF NetInv, Alone
<1> QED
  BY <1>1, <1>4, <1>5 DEF NetInv

(* Whoever has begun to open is public.                                    *)
LEMMA OpenIsPublic ==
  ASSUME NetInv, NEW p \in Procs, open[p] # {}
  PROVE  Public(p)
<1>1. PICK k \in 0..Count(p) : open[p] = 1..k
  BY DEF NetInv, InOrder
<1>2. 1 \in open[p]
  BY <1>1
<1>3. Listeners(config[p])[1].role = "public"
  <2>1. config[p] \in Configs[p]
    BY DEF NetInv, NetTypes
  <2>2. Listeners(config[p])[1] = Tcp(config[p].host, config[p].port, "public")
    BY <2>1, ListenersFacts
  <2> QED
    BY <2>2 DEF Tcp
<1> QED
  BY <1>2, <1>3 DEF Public
LEMMA NetOpens ==
  ASSUME NetInv, NEW p \in Procs, OpenNext(p)
  PROVE  NetInv'
<1> DEFINE c == config[p]
           n == Cardinality(open[p]) + 1
           l == Listeners(c)[n]
<1>1. config' = config /\ stage[p] = "opening"
  BY DEF OpenNext
<1>2. PICK k \in 0..Count(p) : open[p] = 1..k /\ k < Count(p)
  BY <1>1 DEF NetInv, InOrder
<1>3. c \in Configs[p] /\ Count(p) \in Nat \ {0} /\ DOMAIN Listeners(c) = 1..Count(p)
  BY ListenersFacts DEF NetInv, NetTypes, Count
<1>4. n = k + 1 /\ n \in 1..Count(p) /\ k \in Nat
  <2>1. k \in Int /\ k >= 0 /\ 1 \in Int
    BY <1>2, <1>3
  <2>2. Cardinality(1..k) = k
    BY <2>1, NumbersUpTo
  <2> QED
    BY <1>2, <1>3, <2>1, <2>2
<1>5. CASE Ends(p)
  BY <1>1, <1>5, NetCloses DEF Ends, Stages
<1>6. CASE ~Ends(p)
  <2>1. /\ open' = [open EXCEPT ![p] = @ \union {n}]
        /\ sock' = IF Unix(l) THEN [sock EXCEPT ![l.at] = p] ELSE sock
        /\ Goes(p, IF n = Count(p) THEN "up" ELSE "opening")
        /\ rivalled' = [q \in Procs |->
             IF q = p THEN (n > 1 /\ rivalled[p]) \/ (\E r \in Procs \ {p} : Public(r))
             ELSE rivalled[q] \/ (open[q] # {} /\ (Public(p) \/ l.role = "public"))]
    BY <1>6 DEF OpenNext, Count
  <2> HIDE DEF n, l, c
  <2>2. NetTypes'
    <3>1. config'[p] = config[p] /\ stage' \in [Procs -> Stages] /\ rivalled' \in [Procs -> BOOLEAN]
      BY <1>1, <2>1 DEF NetInv, NetTypes, Goes, Stages
    <3>2. open' \in [Procs -> SUBSET Nat]
      BY <1>4, <2>1 DEF NetInv, NetTypes
    <3>3. sock' \in [Paths -> Procs \union {NoOne, Other}]
      BY <2>1 DEF NetInv, NetTypes
    <3> QED
      BY <1>1, <3>1, <3>2, <3>3 DEF NetInv, NetTypes
  <2>3. \A q \in Procs : Count(q)' = Count(q)
    BY <1>1 DEF Count
  <2>4. /\ open'[p] = 1..(k + 1)
        /\ \A q \in Procs \ {p} : open'[q] = open[q] /\ stage'[q] = stage[q]
    BY <1>2, <1>4, <2>1 DEF NetInv, NetTypes, Goes
  <2>5. ASSUME NEW q \in Procs
        PROVE  InOrder(q)'
    <3>1. CASE q # p
      BY <2>3, <2>4, <3>1 DEF InOrder, NetInv
    <3>2. CASE q = p
      <4>1. stage'[p] = IF k + 1 = Count(p) THEN "up" ELSE "opening"
        BY <1>4, <2>1 DEF NetInv, NetTypes, Goes
      <4>2. k + 1 \in 0..Count(p) /\ (k + 1 # Count(p) => k + 1 < Count(p))
        BY <1>2, <1>3, <1>4
      <4> QED
        BY <2>3, <2>4, <3>2, <4>1, <4>2 DEF InOrder
    <3> QED
      BY <3>1, <3>2
  <2>6. \A r \in Procs \ {p} : Public(r)' <=> Public(r)
    BY <1>1, <2>4 DEF Public
  <2>7. ASSUME NEW q \in Procs \ {p}
        PROVE  Alone(q)'
    <3>1. open[q] # {} => rivalled'[q]
      <4>1. CASE k = 0
        <5>1. l = Tcp(c.host, c.port, "public")
          BY <1>3, <1>4, <4>1, ListenersFacts DEF l
        <5>2. l.role = "public"
          BY <5>1 DEF Tcp
        <5> QED
          BY <2>1, <5>2
      <4>2. CASE k # 0
        <5>1. 1 \in open[p]
          BY <1>2, <1>4, <4>2
        <5>2. Public(p)
          BY <5>1, OpenIsPublic
        <5> QED
          BY <2>1, <5>2
      <4> QED
        BY <4>1, <4>2
    <3> QED
      BY <2>4, <3>1 DEF Alone
  <2>8. Alone(p)'
    <3> SUFFICES ASSUME ~rivalled'[p]
                 PROVE  /\ \A r \in Procs \ {p} : ~Public(r)'
                        /\ \A j \in DOMAIN c.sockets :
                             j + 1 \in open'[p] => sock'[c.sockets[j].at] = p
      BY <1>1 DEF Alone, c
    <3>1. ~(n > 1 /\ rivalled[p]) /\ \A r \in Procs \ {p} : ~Public(r)
      BY <2>1
    <3>2. ASSUME NEW j \in DOMAIN c.sockets, j + 1 \in open'[p]
          PROVE  sock'[c.sockets[j].at] = p
      <4>1. /\ j \in Nat /\ Listeners(c)[j + 1] = c.sockets[j]
            /\ Unix(c.sockets[j]) /\ c.sockets[j].at \in Paths
        BY <1>3, ListenersFacts
      <4>2. CASE j + 1 = n
        BY <2>1, <4>1, <4>2 DEF NetInv, NetTypes, l
      <4>3. CASE j + 1 # n
        <5>1. j + 1 \in open[p]
          BY <1>2, <1>4, <2>4, <3>2, <4>1, <4>3
        <5>2. n > 1
          BY <1>2, <1>4, <4>1, <5>1
        <5>3. sock[c.sockets[j].at] = p
          BY <3>1, <5>1, <5>2 DEF NetInv, Alone, c
        <5> QED
          BY <2>1, <4>1, <5>3 DEF NetInv, NetTypes
      <4> QED
        BY <4>2, <4>3
    <3> QED
      BY <2>6, <3>1, <3>2
  <2> QED
    BY <2>2, <2>5, <2>7, <2>8 DEF NetInv
<1> QED
  BY <1>5, <1>6

(* It removes the files of no sensor that is alone.                        *)
LEMMA NetUnlinks ==
  ASSUME NetInv, NEW p \in Procs, Unlink(p)
  PROVE  NetInv'
<1>1. /\ UNCHANGED <<config, open, rivalled>> /\ stage[p] = "flushed" /\ Goes(p, "down")
      /\ sock' = [f \in Paths |-> IF f \in Own(config[p]) THEN NoOne ELSE sock[f]]
  BY DEF Unlink
<1>2. NetTypes'
  BY <1>1 DEF NetInv, NetTypes, Goes, Stages
<1>3. \A q \in Procs : Count(q)' = Count(q)
  BY <1>1 DEF Count
<1>4. ASSUME NEW q \in Procs
      PROVE  InOrder(q)'
  BY <1>1, <1>3 DEF InOrder, NetInv, NetTypes, Goes
<1>5. open[p] = {}
  BY <1>1 DEF NetInv, InOrder
<1>6. Public(p)
  BY <1>1 DEF Public
<1>7. ASSUME NEW q \in Procs
      PROVE  Alone(q)'
  BY <1>1, <1>5, <1>6 DEF Alone, NetInv
<1> QED
  BY <1>2, <1>4, <1>7 DEF NetInv

LEMMA NetStep == NetInv /\ [Next]_vars => NetInv'
<1> SUFFICES ASSUME NetInv, [Next]_vars
             PROVE  NetInv'
  OBVIOUS
<1>1. CASE UNCHANGED <<config, stage, net, rivalled>>
  BY <1>1 DEF NetInv, NetTypes, InOrder, Alone, Count, Public, net
<1>2. ASSUME NEW p \in Procs, Ends(p), UNCHANGED config
      PROVE  NetInv'
  BY <1>2, NetCloses DEF Ends, Stages
<1>3. ASSUME NEW p \in Procs, stage[p] \in {"down", "drawn", "creating", "keyed"},
             NEW s \in {"drawn", "creating", "keyed", "opening"}, Goes(p, s),
             UNCHANGED <<config, net, rivalled>>
      PROVE  NetInv'
  BY <1>3, NetQuiet DEF net, Stages
<1>4. ASSUME NEW p \in Procs, LookForKey(p) \/ CreateKey(p) \/ WriteKey(p) \/ LoadRanges(p)
      PROVE  NetInv'
  BY <1>2, <1>3, <1>4 DEF LookForKey, CreateKey, WriteKey, LoadRanges, TakeKey, Holds
<1>5. ASSUME NEW p \in Procs, WriteKeyFails(p) \/ Dies(p)
      PROVE  NetInv'
  BY <1>2, <1>5 DEF WriteKeyFails, Dies
<1>6. ASSUME NEW p \in Procs, StopSites(p)
      PROVE  NetInv'
  <2>1. PICK k \in 0..Count(p) : open[p] = 1..k /\ k = Count(p)
    BY <1>6 DEF StopSites, NetInv, InOrder
  <2>2. Count(p) \in Nat \ {0}
    BY ListenersFacts DEF NetInv, NetTypes, Count
  <2>3. 1 \in open[p]
    BY <2>1, <2>2
  <2>4. Public(p)
    BY <2>3, OpenIsPublic
  <2> QED
    BY <1>6, <2>4, NetCloses DEF StopSites, Stages
<1>7. ASSUME NEW p \in Procs, StopLog(p)
      PROVE  NetInv'
  BY <1>7, NetQuiet DEF StopLog, net, Stages
<1>8. CASE ExportReadsKey \/ RefreshStarts \/ RefreshWrites \/ RefreshDies
  BY <1>1, <1>8 DEF ExportReadsKey, RefreshStarts, RefreshWrites, RefreshDies
<1>9. CASE UNCHANGED vars
  BY <1>1, <1>9 DEF vars
<1> QED
  BY <1>4, <1>5, <1>6, <1>7, <1>8, <1>9, NetOpens, NetUnlinks DEF Next, Step

(* Whatever else starts, fails, dies or stops on this directory and this   *)
(* host: a sensor that is up, and for which no other was public while it   *)
(* opened or since, has all its socket files (start_sites, _unlink).       *)
THEOREM ReachableAlways == Spec => []Reachable
<1>1. NetInv => Reachable
  <2> SUFFICES ASSUME NetInv, NEW p \in Procs, stage[p] = "up", ~rivalled[p],
                      NEW f \in Own(config[p])
               PROVE  sock[f] = p
    BY DEF Reachable
  <2>1. PICK j \in DOMAIN config[p].sockets : f = config[p].sockets[j].at
    BY DEF Own, ToSet
  <2>2. config[p] \in Configs[p] /\ InOrder(p) /\ Alone(p)
    BY DEF NetInv, NetTypes
  <2>3. j + 1 \in 1..Count(p)
    BY <2>2, ListenersFacts DEF Count
  <2>4. open[p] = 1..Count(p)
    BY <2>2 DEF InOrder
  <2> QED
    BY <2>1, <2>2, <2>3, <2>4 DEF Alone
<1> QED
  BY <1>1, NetInit, NetStep, PTL DEF Spec
-----------------------------------------------------------------------------
(* The roles.  Every listener that accepts is in the map under its key,    *)
(* with its own role, for as long as it accepts.                           *)

LEMMA Elements ==
  ASSUME NEW T, NEW t \in Seq(T)
  PROVE  /\ Len(t) \in Nat /\ DOMAIN t = 1..Len(t)
         /\ t \in Seq({t[i] : i \in DOMAIN t})
         /\ \A i \in DOMAIN t : t[i] \in T
<1>1. Len(t) \in Nat /\ DOMAIN t = 1..Len(t) /\ t \in [1..Len(t) -> T]
  BY LenProperties
<1>2. t \in [1..Len(t) -> {t[i] : i \in DOMAIN t}]
  BY <1>1
<1> QED
  BY <1>1, <1>2

LEMMA Parts ==
  ASSUME NEW S, NEW s \in Seq(S), NEW t \in Seq(S), NEW u, u = s \o t, NEW n \in 1..Len(u)
  PROVE  \/ n \in 1..Len(s) /\ u[n] = s[n]
         \/ n > Len(s) /\ n - Len(s) \in 1..Len(t) /\ u[n] = t[n - Len(s)]
<1>0. n \in 1..Len(s \o t)
  OBVIOUS
<1>1. Len(s) \in Nat /\ Len(t) \in Nat /\ n \in 1..Len(s) + Len(t)
  BY Joined, LenProperties
<1>2. CASE n \in 1..Len(s)
  <2>1. (s \o t)[n] = s[n]
    BY <1>2, Joined
  <2> QED
    BY <1>2, <2>1
<1>3. CASE n \notin 1..Len(s)
  <2>1. n > Len(s) /\ n - Len(s) \in 1..Len(t) /\ n = Len(s) + (n - Len(s))
    BY <1>1, <1>3
  <2>2. (s \o t)[n] = t[n - Len(s)]
    BY <2>1, Joined
  <2> QED
    BY <2>1, <2>2
<1> QED
  BY <1>2, <1>3

(* What the configuration puts after the public listener.                  *)
SocketKind == [net : {"unix"}, at : Paths, port : {0}, role : {"front", "admin"}]
ProxyKind == [net : {"tcp"}, at : Wildcards \union Interfaces, port : Nat, role : {"proxy"}]

LEMMA ConfigSeqs ==
  ASSUME NEW p \in Procs, NEW c \in Configs[p]
  PROVE  /\ c.sockets \in Seq({c.sockets[i] : i \in DOMAIN c.sockets})
         /\ c.proxy \in Seq({c.proxy[i] : i \in DOMAIN c.proxy})
         /\ DOMAIN c.sockets = 1..Len(c.sockets) /\ DOMAIN c.proxy = 1..Len(c.proxy)
         /\ DOMAIN c.personas = 1..Len(c.personas) /\ Len(c.personas) \in Nat
<1>1. /\ c.sockets \in Seq(SocketKind) /\ c.proxy \in Seq(ProxyKind)
      /\ c.personas \in Seq([name : STRING, port : Nat])
  BY ConfigsOK DEF ConfigsOK, SocketKind, ProxyKind
<1>2. /\ c.sockets \in Seq({c.sockets[i] : i \in DOMAIN c.sockets})
      /\ DOMAIN c.sockets = 1..Len(c.sockets)
  BY <1>1, Elements
<1>3. /\ c.proxy \in Seq({c.proxy[i] : i \in DOMAIN c.proxy})
      /\ DOMAIN c.proxy = 1..Len(c.proxy)
  BY <1>1, Elements
<1>4. DOMAIN c.personas = 1..Len(c.personas) /\ Len(c.personas) \in Nat
  BY <1>1, Elements
<1> QED
  BY <1>2, <1>3, <1>4

LEMMA ConfigElements ==
  ASSUME NEW p \in Procs, NEW c \in Configs[p]
  PROVE  /\ \A i \in DOMAIN c.sockets : c.sockets[i] \in SocketKind /\ c.sockets[i].at \notin Wildcards
         /\ \A i \in DOMAIN c.proxy : c.proxy[i] \in ProxyKind
<1>1. /\ c.sockets \in Seq(SocketKind) /\ c.proxy \in Seq(ProxyKind) /\ Wildcards \intersect Own(c) = {}
  BY ConfigsOK DEF ConfigsOK, SocketKind, ProxyKind
<1>2. \A i \in DOMAIN c.sockets : c.sockets[i].at \notin Wildcards
  BY <1>1 DEF Own, ToSet
<1>3. \A i \in DOMAIN c.sockets : c.sockets[i] \in SocketKind
  BY <1>1, Elements
<1>4. \A i \in DOMAIN c.proxy : c.proxy[i] \in ProxyKind
  BY <1>1, Elements
<1> QED
  BY <1>2, <1>3, <1>4

(* A listener is the public one, a socket file, the proxy's or, after all  *)
(* of these, a persona's.                                                  *)
LEMMA ListenerKinds ==
  ASSUME NEW p \in Procs, NEW c \in Configs[p], NEW n \in DOMAIN Listeners(c)
  PROVE  \/ Listeners(c)[n] = Tcp(c.host, c.port, "public")
         \/ \E i \in DOMAIN c.sockets : Listeners(c)[n] = c.sockets[i]
         \/ \E i \in DOMAIN c.proxy : Listeners(c)[n] = c.proxy[i]
         \/ /\ n > 1 + Len(c.sockets \o c.proxy)
            /\ \E i \in DOMAIN c.personas :
                 Listeners(c)[n] = Tcp(c.host, Port(c.personas[i]), c.personas[i].name)
<1> DEFINE Public1 == <<Tcp(c.host, c.port, "public")>>
           Personas == [i \in DOMAIN c.personas |->
                          Tcp(c.host, Port(c.personas[i]), c.personas[i].name)]
           Of(seq) == {seq[i] : i \in DOMAIN seq}
           S == Of(Public1) \union Of(c.sockets) \union Of(c.proxy) \union Of(Personas)
           A == Public1 \o c.sockets
           B == A \o c.proxy
<1>1. /\ c.sockets \in Seq(Of(c.sockets)) /\ c.proxy \in Seq(Of(c.proxy))
      /\ Len(c.personas) \in Nat /\ DOMAIN c.personas = 1..Len(c.personas)
      /\ DOMAIN c.sockets = 1..Len(c.sockets) /\ DOMAIN c.proxy = 1..Len(c.proxy)
  <2> HIDE DEF Public1, Personas, S
  <2> QED
    BY ConfigSeqs, ZenonT(30)
<1>2. Public1 \in Seq(Of(Public1)) /\ Len(Public1) = 1 /\ Public1[1] = Tcp(c.host, c.port, "public")
  OBVIOUS
<1>3. Personas \in Seq(Of(Personas)) /\ Len(Personas) = Len(c.personas)
  <2>1. Personas \in [1..Len(c.personas) -> Of(Personas)]
    BY <1>1, SMTT(30)
  <2> HIDE DEF Personas, Of
  <2>2. Personas \in Seq(Of(Personas)) /\ DOMAIN Personas = 1..Len(c.personas)
    BY <1>1, <2>1, SMTT(30)
  <2> QED
    BY <1>1, <2>2, LenProperties
<1>4. Listeners(c) = B \o Personas
  BY DEF Listeners
<1>5. \A i \in DOMAIN c.personas :
        Personas[i] = Tcp(c.host, Port(c.personas[i]), c.personas[i].name)
  OBVIOUS
<1> HIDE DEF Personas, Public1, Of
<1>6. /\ Public1 \in Seq(S) /\ c.sockets \in Seq(S) /\ c.proxy \in Seq(S) /\ Personas \in Seq(S)
  <2>1. /\ Of(Public1) \subseteq S /\ Of(c.sockets) \subseteq S
        /\ Of(c.proxy) \subseteq S /\ Of(Personas) \subseteq S
    OBVIOUS
  <2> HIDE DEF S
  <2> QED
    BY <1>1, <1>2, <1>3, <2>1, SeqMonotonic
<1> HIDE DEF S
<1>7. A \in Seq(S) /\ Len(A) = Len(Public1) + Len(c.sockets)
  BY <1>6, Joined
<1>8. B \in Seq(S) /\ Len(B) = Len(A) + Len(c.proxy)
  <2> HIDE DEF A
  <2> QED
    BY <1>6, <1>7, Joined
<1>9. Len(c.sockets \o c.proxy) = Len(c.sockets) + Len(c.proxy)
  BY <1>6, Joined
<1>10. B \o Personas \in Seq(S) /\ n \in 1..Len(B \o Personas)
  <2> HIDE DEF B
  <2>1. B \o Personas \in Seq(S)
    BY <1>6, <1>8, Joined
  <2> QED
    BY <1>4, <2>1, LenProperties
<1>11. \/ n \in 1..Len(B) /\ Listeners(c)[n] = B[n]
       \/ /\ n > Len(B) /\ n - Len(B) \in 1..Len(Personas)
          /\ Listeners(c)[n] = Personas[n - Len(B)]
  <2> HIDE DEF B
  <2> DEFINE u == Listeners(c)
  <2>1. u = B \o Personas /\ n \in 1..Len(u) /\ B \in Seq(S) /\ Personas \in Seq(S)
    BY <1>4, <1>6, <1>8, <1>10
  <2> HIDE DEF u
  <2>2. \/ n \in 1..Len(B) /\ u[n] = B[n]
        \/ n > Len(B) /\ n - Len(B) \in 1..Len(Personas) /\ u[n] = Personas[n - Len(B)]
    BY <2>1, Parts
  <2> QED
    BY <2>2 DEF u
<1>12. n \in 1..Len(B) =>
         \/ n \in 1..Len(A) /\ B[n] = A[n]
         \/ n - Len(A) \in 1..Len(c.proxy) /\ B[n] = c.proxy[n - Len(A)]
  <2>1. B = A \o c.proxy
    OBVIOUS
  <2> HIDE DEF A, B
  <2>2. A \in Seq(S) /\ c.proxy \in Seq(S)
    BY <1>6, <1>7
  <2> QED
    BY <2>1, <2>2, Parts
<1>13. n \in 1..Len(A) =>
         \/ n \in 1..Len(Public1) /\ A[n] = Public1[n]
         \/ /\ n - Len(Public1) \in 1..Len(c.sockets)
            /\ A[n] = c.sockets[n - Len(Public1)]
  <2>1. A = Public1 \o c.sockets
    OBVIOUS
  <2> HIDE DEF A
  <2>2. Public1 \in Seq(S) /\ c.sockets \in Seq(S)
    BY <1>6
  <2> QED
    BY <2>1, <2>2, Parts
<1>14. Len(B) = 1 + Len(c.sockets \o c.proxy)
  <2>1. Len(c.sockets) \in Nat /\ Len(c.proxy) \in Nat
    BY <1>6, LenProperties
  <2> DEFINE a == Len(A)
             b == Len(B)
             x == Len(c.sockets)
             y == Len(c.proxy)
             z == Len(c.sockets \o c.proxy)
  <2>2. a = 1 + x /\ b = a + y /\ z = x + y /\ x \in Nat /\ y \in Nat
    BY <1>2, <1>7, <1>8, <1>9, <2>1
  <2> HIDE DEF a, b, x, y, z
  <2>3. b = 1 + z
    BY <2>2
  <2> QED
    BY <2>3 DEF b, z
<1> HIDE DEF A, B
<1>15. CASE n \in 1..Len(B) /\ Listeners(c)[n] = B[n] /\ n \in 1..Len(A) /\ B[n] = A[n]
  <2>1. CASE n \in 1..Len(Public1) /\ A[n] = Public1[n]
    <3>1. n = 1
      BY <1>2, <2>1
    <3> QED
      BY <1>2, <1>15, <2>1, <3>1
  <2>2. CASE /\ n - Len(Public1) \in 1..Len(c.sockets)
             /\ A[n] = c.sockets[n - Len(Public1)]
    BY <1>1, <1>15, <2>2
  <2> QED
    BY <1>13, <1>15, <2>1, <2>2
<1>16. CASE /\ n \in 1..Len(B) /\ Listeners(c)[n] = B[n]
            /\ n - Len(A) \in 1..Len(c.proxy) /\ B[n] = c.proxy[n - Len(A)]
  BY <1>1, <1>16
<1>17. CASE /\ n > Len(B) /\ n - Len(B) \in 1..Len(Personas)
            /\ Listeners(c)[n] = Personas[n - Len(B)]
  <2>1. n - Len(B) \in DOMAIN c.personas
    BY <1>1, <1>3, <1>17
  <2> QED
    BY <1>5, <1>14, <1>17, <2>1
<1> QED
  BY <1>11, <1>12, <1>15, <1>16, <1>17

LEMMA ListenerShape ==
  ASSUME NEW p \in Procs, NEW c \in Configs[p], NEW n \in DOMAIN Listeners(c)
  PROVE  LET l == Listeners(c)[n]
         IN /\ l = [net |-> l.net, at |-> l.at, port |-> l.port, role |-> l.role]
            /\ Unix(l) => l.at \notin Wildcards
<1> DEFINE Shape(l) == /\ l = [net |-> l.net, at |-> l.at, port |-> l.port, role |-> l.role]
                       /\ Unix(l) => l.at \notin Wildcards
<1>1. ASSUME NEW i \in DOMAIN c.sockets
      PROVE  Shape(c.sockets[i])
  <2>1. c.sockets[i] \in SocketKind /\ c.sockets[i].at \notin Wildcards
    BY ConfigElements
  <2> QED
    BY <2>1 DEF Unix, SocketKind
<1>2. ASSUME NEW i \in DOMAIN c.proxy
      PROVE  Shape(c.proxy[i])
  <2>1. c.proxy[i] \in ProxyKind
    BY ConfigElements
  <2> QED
    BY <2>1 DEF Unix, ProxyKind
<1>3. \A x, y : Shape(Tcp(c.host, x, y))
  BY DEF Tcp, Unix
<1> HIDE DEF Shape
<1>4. Shape(Listeners(c)[n])
  <2>1. CASE Listeners(c)[n] = Tcp(c.host, c.port, "public")
    BY <1>3, <2>1
  <2>2. CASE \E i \in DOMAIN c.sockets : Listeners(c)[n] = c.sockets[i]
    BY <1>1, <2>2
  <2>3. CASE \E i \in DOMAIN c.proxy : Listeners(c)[n] = c.proxy[i]
    BY <1>2, <2>3
  <2>4. CASE \E i \in DOMAIN c.personas :
               Listeners(c)[n] = Tcp(c.host, Port(c.personas[i]), c.personas[i].name)
    BY <1>3, <2>4
  <2> QED
    BY <2>1, <2>2, <2>3, <2>4, ListenerKinds
<1> QED
  BY <1>4 DEF Shape

Held(p, i) ==
  LET l == Listeners(config[p])[i]
  IN /\ SockKey(l) \in DOMAIN roles[p] /\ roles[p][SockKey(l)] = l.role
     /\ l.role \in Listening \union DOMAIN DefaultPorts

RolesInv ==
  /\ NetInv
  /\ roles = [p \in Procs |-> roles[p]]
  /\ \A p \in Procs : \A i \in open[p] : Held(p, i)

LEMMA RolesInit == Init => RolesInv
  BY NetInit DEF Init, RolesInv

(* A process that registers a listener takes the place of none: bind()     *)
(* refuses the second of two that would have the same key.                 *)
LEMMA KeysApart ==
  ASSUME NetInv, NEW p \in Procs, Distinct(config[p]),
         NEW i \in open[p], NEW n \in DOMAIN Listeners(config[p]), i # n,
         ~Taken(Listeners(config[p])[n]),
         SockKey(Listeners(config[p])[i]) = SockKey(Listeners(config[p])[n])
  PROVE  Listeners(config[p])[i].role = Listeners(config[p])[n].role
<1> DEFINE c == config[p]
           k == Listeners(c)[i]
           l == Listeners(c)[n]
<1>1. c \in Configs[p] /\ i \in DOMAIN Listeners(c)
  <2>1. c \in Configs[p]
    BY DEF NetInv, NetTypes
  <2>2. PICK m \in 0..Count(p) : open[p] = 1..m
    BY DEF NetInv, InOrder
  <2>3. Count(p) \in Nat /\ DOMAIN Listeners(c) = 1..Count(p)
    BY <2>1, ListenersFacts DEF Count
  <2> QED
    BY <2>1, <2>2, <2>3
<1>2. Clash(k, l)
  BY <1>1 DEF Distinct
<1>3. Taken(l)
  BY <1>2 DEF Taken
<1> QED
  BY <1>3

LEMMA RolesClose ==
  ASSUME RolesInv, NetInv', UNCHANGED config, NEW p \in Procs,
         open' = [open EXCEPT ![p] = {}], NEW r, roles' = [roles EXCEPT ![p] = r]
  PROVE  RolesInv'
<1>1. \A q \in Procs : open'[q] = IF q = p THEN {} ELSE open[q]
  BY DEF RolesInv, NetInv, NetTypes
<1>2. roles' = [q \in Procs |-> roles'[q]] /\ \A q \in Procs \ {p} : roles'[q] = roles[q]
  BY DEF RolesInv
<1>3. ASSUME NEW q \in Procs, NEW i \in open'[q]
      PROVE  Held(q, i)'
  BY <1>1, <1>2, <1>3 DEF RolesInv, Held
<1> QED
  BY <1>2, <1>3 DEF RolesInv

LEMMA RolesOpen ==
  ASSUME RolesInv, NEW p \in Procs, OpenNext(p), Distinct(config[p])
  PROVE  RolesInv'
<1> DEFINE c == config[p]
           n == Cardinality(open[p]) + 1
           l == Listeners(c)[n]
           bad == \/ c.trust /\ c.proxy = <<>>
                  \/ /\ n > 1 + Len(c.sockets \o c.proxy)
                     /\ \E i \in DOMAIN c.personas : Unusable(c.personas[i])
<1>1. NetInv /\ NetInv' /\ config' = config /\ stage[p] = "opening"
  BY NetOpens DEF OpenNext, RolesInv
<1>2. CASE Ends(p)
  BY <1>1, <1>2, RolesClose DEF Ends, RolesInv
<1>3. CASE ~Ends(p)
  <2>1. ~bad /\ ~Taken(l)
    BY <1>3 DEF OpenNext
  <2>2. /\ open' = [open EXCEPT ![p] = @ \union {n}]
        /\ roles' = [roles EXCEPT ![p] =
             [k \in DOMAIN @ \union {SockKey(l)} |-> IF k = SockKey(l) THEN l.role ELSE @[k]]]
    BY <1>3 DEF OpenNext
  <2>3. c \in Configs[p] /\ n \in DOMAIN Listeners(c) /\ n \notin open[p]
    <3>1. c \in Configs[p] /\ Count(p) \in Nat \ {0} /\ DOMAIN Listeners(c) = 1..Count(p)
      BY <1>1, ListenersFacts DEF NetInv, NetTypes, Count
    <3>2. PICK k \in 0..Count(p) : open[p] = 1..k /\ k < Count(p)
      BY <1>1 DEF NetInv, InOrder
    <3>3. Cardinality(1..k) = k
      <4>1. k \in Int /\ k >= 0
        BY <3>1, <3>2
      <4> QED
        BY <4>1, NumbersUpTo
    <3> QED
      BY <3>1, <3>2, <3>3
  <2>4. l.role \in Listening \union DOMAIN DefaultPorts
    <3>1. \A j \in DOMAIN c.sockets : c.sockets[j].role \in Listening
      <4>1. \A j \in DOMAIN c.sockets : c.sockets[j] \in SocketKind
        BY <2>3, ConfigElements
      <4> QED
        BY <4>1 DEF Listening, SocketKind
    <3>2. \A j \in DOMAIN c.proxy : c.proxy[j].role \in Listening
      <4>1. \A j \in DOMAIN c.proxy : c.proxy[j] \in ProxyKind
        BY <2>3, ConfigElements
      <4> QED
        BY <4>1 DEF Listening, ProxyKind
    <3>3. n > 1 + Len(c.sockets \o c.proxy)
          => \A j \in DOMAIN c.personas : c.personas[j].name \in DOMAIN DefaultPorts
      BY <2>1 DEF Unusable
    <3>4. \A x, y : Tcp(c.host, x, y).role = y
      BY DEF Tcp
    <3>5. "public" \in Listening
      BY DEF Listening
    <3> HIDE DEF n, bad
    <3> QED
      <4>1. CASE l = Tcp(c.host, c.port, "public")
        BY <3>4, <3>5, <4>1
      <4>2. CASE \E i \in DOMAIN c.sockets : l = c.sockets[i]
        BY <3>1, <4>2
      <4>3. CASE \E i \in DOMAIN c.proxy : l = c.proxy[i]
        BY <3>2, <4>3
      <4>4. CASE /\ n > 1 + Len(c.sockets \o c.proxy)
                 /\ \E i \in DOMAIN c.personas :
                      l = Tcp(c.host, Port(c.personas[i]), c.personas[i].name)
        <5>1. PICK i \in DOMAIN c.personas :
                l = Tcp(c.host, Port(c.personas[i]), c.personas[i].name)
          BY <4>4
        <5>2. l.role = c.personas[i].name
          BY <3>4, <5>1
        <5>3. c.personas[i].name \in DOMAIN DefaultPorts
          BY <3>3, <4>4
        <5> QED
          BY <5>2, <5>3
      <4> QED
        BY <2>3, <4>1, <4>2, <4>3, <4>4, ListenerKinds
  <2> HIDE DEF n, bad
  <2>5. roles' = [q \in Procs |-> roles'[q]] /\ \A q \in Procs \ {p} : roles'[q] = roles[q]
    BY <2>2 DEF RolesInv
  <2>6. roles'[p] = [k \in DOMAIN roles[p] \union {SockKey(l)} |->
                       IF k = SockKey(l) THEN l.role ELSE roles[p][k]]
    BY <2>2 DEF RolesInv
  <2>7. open'[p] = open[p] \union {n} /\ \A q \in Procs \ {p} : open'[q] = open[q]
    BY <1>1, <2>2 DEF NetInv, NetTypes
  <2>8. ASSUME NEW q \in Procs, NEW i \in open'[q]
        PROVE  Held(q, i)'
    <3>1. CASE q # p
      BY <1>1, <2>5, <2>7, <3>1 DEF RolesInv, Held
    <3>2. CASE q = p /\ i = n
      BY <1>1, <2>4, <2>6, <3>2 DEF Held
    <3>3. CASE q = p /\ i # n
      <4>1. i \in open[p] /\ Held(p, i)
        BY <2>7, <3>3 DEF RolesInv
      <4>2. SockKey(Listeners(c)[i]) = SockKey(l) => Listeners(c)[i].role = l.role
        BY <1>1, <2>1, <2>3, <3>3, <4>1, KeysApart
      <4> QED
        BY <1>1, <2>6, <3>3, <4>1, <4>2 DEF Held
    <3> QED
      BY <3>1, <3>2, <3>3
  <2> QED
    BY <1>1, <2>5, <2>8 DEF RolesInv
<1> QED
  BY <1>2, <1>3

LEMMA RolesStep ==
  ASSUME RolesInv, [Next]_vars, \A p \in Procs : Distinct(config[p])
  PROVE  RolesInv'
<1>1. NetInv /\ NetInv'
  BY NetStep DEF RolesInv
<1>2. ASSUME UNCHANGED <<config, roles>>, roles' = [p \in Procs |-> roles'[p]],
             \A p \in Procs : open'[p] \subseteq open[p]
      PROVE  RolesInv'
  BY <1>1, <1>2 DEF RolesInv, Held
<1>3. ASSUME UNCHANGED config, NEW p \in Procs, open' = [open EXCEPT ![p] = {}],
             \E r : roles' = [roles EXCEPT ![p] = r]
      PROVE  RolesInv'
  BY <1>1, <1>3, RolesClose
<1>4. CASE UNCHANGED <<config, net>>
  BY <1>1, <1>4 DEF RolesInv, Held, net
<1>5. ASSUME NEW p \in Procs, Ends(p), UNCHANGED config
      PROVE  RolesInv'
  BY <1>3, <1>5 DEF Ends
<1>6. ASSUME NEW p \in Procs, LookForKey(p) \/ CreateKey(p) \/ WriteKey(p) \/ LoadRanges(p)
      PROVE  RolesInv'
  BY <1>4, <1>5, <1>6 DEF LookForKey, CreateKey, WriteKey, LoadRanges, TakeKey, Holds
<1>7. ASSUME NEW p \in Procs, WriteKeyFails(p) \/ Dies(p)
      PROVE  RolesInv'
  BY <1>5, <1>7 DEF WriteKeyFails, Dies
<1>8. ASSUME NEW p \in Procs, StopSites(p)
      PROVE  RolesInv'
  <2>1. \A q \in Procs : open'[q] \subseteq open[q]
    BY <1>1, <1>8 DEF StopSites, NetInv, NetTypes
  <2> QED
    BY <1>2, <1>8, <2>1 DEF StopSites, RolesInv
<1>9. ASSUME NEW p \in Procs, StopLog(p)
      PROVE  RolesInv'
  BY <1>4, <1>9 DEF StopLog
<1>10. ASSUME NEW p \in Procs, Unlink(p)
       PROVE  RolesInv'
  <2>1. open[p] = {}
    BY <1>1, <1>10 DEF Unlink, NetInv, InOrder
  <2>2. open' = [open EXCEPT ![p] = {}]
    BY <1>1, <1>10, <2>1 DEF Unlink, NetInv, NetTypes
  <2> QED
    BY <1>3, <1>10, <2>2 DEF Unlink
<1>11. CASE ExportReadsKey \/ RefreshStarts \/ RefreshWrites \/ RefreshDies
  BY <1>4, <1>11 DEF ExportReadsKey, RefreshStarts, RefreshWrites, RefreshDies
<1>12. CASE UNCHANGED vars
  BY <1>4, <1>12 DEF vars, net
<1> QED
  BY <1>6, <1>7, <1>8, <1>9, <1>10, <1>11, <1>12, RolesOpen DEF Next, Step

(* Whatever starts, fails, dies or stops: of every listener that accepts,  *)
(* trust and persona are the listener's, provided that the configurations  *)
(* keep socket files apart, and the ports of listeners that bind() would   *)
(* let have the same one, at two addresses or of two families              *)
(* (start_sites, _sock_key, listener_of, client_identity, face_of).        *)
THEOREM ListenersAreTheirRolesAlways ==
  ASSUME \A p \in Procs : \A c \in Configs[p] : Distinct(c)
  PROVE  Spec => []ListenersAreTheirRoles
<1>1. RolesInv => ListenersAreTheirRoles
  <2> SUFFICES ASSUME RolesInv, NEW p \in Procs, NEW i \in open[p]
               PROVE  LET c == config[p]
                          l == Listeners(c)[i]
                          arrivals == {[l EXCEPT !.at = a] : a \in {l.at} \union
                                         {x \in Interfaces : l.at \in Wildcards /\ SameFamily(x, l.at)}}
                      IN \A a \in arrivals :
                           LET role == ListenerOf(p, a)
                           IN \A r \in Requests :
                                LET told == ClientIdentity(role, c, r)
                                IN /\ told.ja4 = IF l.role = "front" THEN r.ja4 ELSE None
                                   /\ (told.ip = "header") <=>
                                        \/ (l.role = "front" /\ r.forwarded = "header")
                                        \/ (l.role = "proxy" /\ c.trust /\ r.proxied = "header")
                                   /\ IF l.role \in DOMAIN DefaultPorts THEN FaceOf(role, r) = l.role
                                      ELSE FaceOf(role, r) \in Faces
    BY DEF ListenersAreTheirRoles
  <2> DEFINE c == config[p]
             l == Listeners(c)[i]
  <2>1. Held(p, i)
    BY DEF RolesInv
  <2>2. c \in Configs[p] /\ i \in DOMAIN Listeners(c)
    <3>1. c \in Configs[p] /\ InOrder(p)
      BY DEF RolesInv, NetInv, NetTypes
    <3>2. Count(p) \in Nat /\ DOMAIN Listeners(c) = 1..Count(p)
      BY <3>1, ListenersFacts DEF Count
    <3> QED
      BY <3>1, <3>2 DEF InOrder
  <2>3. /\ l = [net |-> l.net, at |-> l.at, port |-> l.port, role |-> l.role]
        /\ Unix(l) => l.at \notin Wildcards
    BY <2>2, ListenerShape
  <2>4. ASSUME NEW at, at = l.at \/ l.at \in Wildcards, NEW a, a = [l EXCEPT !.at = at]
        PROVE  ListenerOf(p, a) = l.role
    <3>1. a.net = l.net /\ a.port = l.port /\ a.at = at
      BY <2>3, <2>4
    <3>2. SockKey(a) = SockKey(l)
      BY <2>3, <2>4, <3>1 DEF SockKey, Unix
    <3> QED
      BY <2>1, <3>2 DEF Held, ListenerOf
  <2>5. l.role \in Listening \union DOMAIN DefaultPorts
    BY <2>1 DEF Held
  <2>6. DOMAIN DefaultPorts \intersect (Listening \union Faces) = {}
    BY ConstantsOK DEF ConstantsOK
  <2> HIDE DEF l
  <2>7. ASSUME NEW r \in Requests
        PROVE  LET told == ClientIdentity(l.role, c, r)
               IN /\ told.ja4 = IF l.role = "front" THEN r.ja4 ELSE None
                  /\ (told.ip = "header") <=>
                       \/ (l.role = "front" /\ r.forwarded = "header")
                       \/ (l.role = "proxy" /\ c.trust /\ r.proxied = "header")
    BY <2>5 DEF ClientIdentity, Requests, None
  <2>8. ASSUME NEW r \in Requests
        PROVE  IF l.role \in DOMAIN DefaultPorts THEN FaceOf(l.role, r) = l.role
               ELSE FaceOf(l.role, r) \in Faces
    <3>1. CASE l.role \in Listening
      <4>1. FaceOf(l.role, r) \in Faces
        BY <3>1 DEF FaceOf, Faces
      <4> QED
        BY <2>6, <3>1, <4>1
    <3>2. CASE l.role \notin Listening
      <4>1. FaceOf(l.role, r) = l.role
        BY <3>2 DEF FaceOf
      <4> QED
        BY <2>5, <2>6, <3>2, <4>1
    <3> QED
      BY <3>1, <3>2
  <2> QED
    <3> SUFFICES ASSUME NEW at, at = l.at \/ l.at \in Wildcards, NEW r \in Requests
                 PROVE  LET role == ListenerOf(p, [l EXCEPT !.at = at])
                            told == ClientIdentity(role, c, r)
                        IN /\ told.ja4 = IF l.role = "front" THEN r.ja4 ELSE None
                           /\ (told.ip = "header") <=>
                                \/ (l.role = "front" /\ r.forwarded = "header")
                                \/ (l.role = "proxy" /\ c.trust /\ r.proxied = "header")
                           /\ IF l.role \in DOMAIN DefaultPorts THEN FaceOf(role, r) = l.role
                              ELSE FaceOf(role, r) \in Faces
      BY DEF l
    <3>1. ListenerOf(p, [l EXCEPT !.at = at]) = l.role
      BY <2>4
    <3> QED
      BY <2>7, <2>8, <3>1
<1>2. RolesInv /\ [Next]_vars => RolesInv'
  BY RolesStep DEF RolesInv, NetInv, NetTypes
<1> QED
  BY <1>1, <1>2, RolesInit, PTL DEF Spec

-----------------------------------------------------------------------------
(* Identity.                                                               *)

Types ==
  /\ clock \in Nat
  /\ seen \subseteq Keys
  /\ sweeps \in Nat
  /\ tasks \in Seq(Task)
  /\ threads \subseteq DOMAIN tasks
  /\ Cardinality(Looking) <= Slots
  /\ Cardinality(threads) <= Threads

(* A task of the running sweep has its pair remembered; only pairs that    *)
(* need a resolver wait for one; a reused verdict is its source's.         *)
TaskOK(n) ==
  /\ tasks[n].now <= clock
  /\ tasks[n].sweep <= sweeps
  /\ tasks[n].sweep = sweeps => tasks[n].key \in seen
  /\ n \in Looking => NeedsDns(tasks[n].key)
  /\ n \in Judged => tasks[n].verdict \in Verdicts
  /\ n \in Judged /\ tasks[n].verdict = "verified" => Genuine(tasks[n].key)
  /\ n \in Judged /\ tasks[n].source # n =>
       LET m == tasks[n].source IN
       /\ m \in Judged
       /\ tasks[n].key = tasks[m].key
       /\ tasks[n].verdict = tasks[m].verdict
       /\ tasks[n].now - tasks[m].now < Ttl

(* An entry is the verdict of a judged task, dated as that task is.        *)
EntryOK(k) ==
  /\ k \in Keys
  /\ cache[k] \in [at : 0..clock, verdict : Verdicts, by : DOMAIN tasks]
  /\ cache[k].by \in Judged
  /\ tasks[cache[k].by].key = k
  /\ tasks[cache[k].by].verdict = cache[k].verdict
  /\ tasks[cache[k].by].now = cache[k].at
  /\ cache[k].verdict = "verified" => Genuine(k)

Inv ==
  /\ Types
  /\ \A n \in DOMAIN tasks : TaskOK(n)
  /\ OneTaskPerSweep
  /\ \A k \in DOMAIN cache : EntryOK(k)
  /\ CacheBounded

-----------------------------------------------------------------------------
(* Finite sets of tasks and of keys.                                       *)

LEMMA TasksFinite ==
  ASSUME tasks \in Seq(Task)
  PROVE  /\ DOMAIN tasks = 1..Len(tasks) /\ Len(tasks) \in Nat
         /\ IsFiniteSet(DOMAIN tasks)
         /\ \A S \in SUBSET DOMAIN tasks : IsFiniteSet(S) /\ Cardinality(S) \in Nat
<1>1. DOMAIN tasks = 1..Len(tasks) /\ Len(tasks) \in Nat
  BY LenProperties
<1>2. IsFiniteSet(DOMAIN tasks)
  BY <1>1, FS_Interval
<1>3. \A S \in SUBSET DOMAIN tasks : IsFiniteSet(S)
  BY <1>2, FS_Subset
<1> QED
  BY <1>1, <1>2, <1>3, FS_CardinalityType

LEMMA KeysFinite ==
  ASSUME NEW S \in SUBSET Keys
  PROVE  IsFiniteSet(S) /\ Cardinality(S) \in Nat
BY IdentityConstantsOK, FS_Subset, FS_CardinalityType DEF IdentityConstantsOK

(* Whatever is evicted, one more entry fits.                               *)
LEMMA KeptFits ==
  ASSUME Inv, NEW keep \in Kept(cache), NEW k \in Keys
  PROVE  /\ keep \subseteq DOMAIN cache
         /\ Cardinality(keep \union {k}) <= MaxEntries
<1> USE DEF Inv
<1>0. DOMAIN cache \subseteq Keys
  BY DEF EntryOK
<1>1. IsFiniteSet(DOMAIN cache) /\ Cardinality(DOMAIN cache) \in Nat
  BY <1>0, KeysFinite
<1>2. MaxEntries \in Nat /\ Quarter \in 1..MaxEntries
  BY IdentityConstantsOK DEF IdentityConstantsOK
<1>3. keep \subseteq DOMAIN cache /\ Cardinality(keep) < MaxEntries
  <2>1. CASE Cardinality(DOMAIN cache) < MaxEntries
    BY <2>1 DEF Kept
  <2>2. CASE ~(Cardinality(DOMAIN cache) < MaxEntries)
    <3>1. PICK old \in kSubset(Quarter, DOMAIN cache) : keep = DOMAIN cache \ old
      BY <2>2 DEF Kept
    <3>2. old \subseteq DOMAIN cache /\ Cardinality(old) = Quarter
      BY <3>1 DEF kSubset
    <3>3. Cardinality(keep) = Cardinality(DOMAIN cache) - Cardinality(DOMAIN cache \cap old)
      BY <1>1, <3>1, FS_Difference
    <3>4. DOMAIN cache \cap old = old
      BY <3>2
    <3>5. Cardinality(keep) = Cardinality(DOMAIN cache) - Quarter
      BY <3>2, <3>3, <3>4
    <3>6. Cardinality(DOMAIN cache) <= MaxEntries
      BY DEF CacheBounded
    <3>7. Cardinality(keep) < MaxEntries
      BY <1>1, <1>2, <3>5, <3>6
    <3> QED
      BY <3>1, <3>7
  <2> QED
    BY <2>1, <2>2
<1>4. IsFiniteSet(keep) /\ Cardinality(keep) \in Nat
  BY <1>0, <1>3, KeysFinite
<1>5. \/ Cardinality(keep \union {k}) = Cardinality(keep)
      \/ Cardinality(keep \union {k}) = Cardinality(keep) + 1
  BY <1>4, FS_AddElement, Zenon
<1> QED
  BY <1>2, <1>3, <1>4, <1>5

-----------------------------------------------------------------------------
(* What every verdict is worth.                                            *)

LEMMA DirectIsRight ==
  ASSUME NEW k \in Keys
  PROVE  /\ DirectVerdict(k) \in Verdicts
         /\ DirectVerdict(k) = "verified" => Genuine(k)
BY IdentityConstantsOK DEF IdentityConstantsOK, DirectVerdict, CidrVerdict, Verdicts, Genuine

LEMMA RdnsIsRight ==
  ASSUME NEW k \in Keys, NEW outcome \in Outcomes(k), NeedsDns(k)
  PROVE  /\ RdnsVerdict(k, outcome) \in Verdicts
         /\ RdnsVerdict(k, outcome) = "verified" => Genuine(k)
<1>1. outcome = "confirmed" => k \in Confirms
  BY DEF Outcomes
<1> QED
  BY <1>1 DEF RdnsVerdict, Verdicts, Genuine, NeedsDns

-----------------------------------------------------------------------------
(* A task that is not yet judged goes on to a later phase: nothing that is *)
(* known of the other tasks changes.                                       *)

LEMMA JudgeKeepsTasks ==
  ASSUME Inv, NEW n \in DOMAIN tasks, n \notin Judged,
         NEW v \in Verdicts, NEW now \in 0..clock, NEW m \in DOMAIN tasks,
         Judge(n, v, now, m),
         v = "verified" => Genuine(tasks[n].key),
         m # n => /\ m \in Judged
                  /\ tasks[m].key = tasks[n].key
                  /\ tasks[m].verdict = v
                  /\ now - tasks[m].now < Ttl,
         UNCHANGED <<clock, seen, sweeps>>,
         threads' \subseteq threads
  PROVE  /\ Types'
         /\ \A i \in DOMAIN tasks' : TaskOK(i)'
         /\ OneTaskPerSweep'
         /\ DOMAIN tasks' = DOMAIN tasks
         /\ Judged' = Judged \union {n}
         /\ \A i \in Judged : tasks'[i] = tasks[i]
         /\ tasks'[n].key = tasks[n].key
         /\ tasks'[n].verdict = v /\ tasks'[n].now = now
<1> USE DEF Inv
<1>0. tasks \in Seq(Task) /\ clock \in Nat
  BY DEF Types
<1>1. DOMAIN tasks = 1..Len(tasks) /\ Len(tasks) \in Nat /\ tasks \in [1..Len(tasks) -> Task]
  BY <1>0, LenProperties
<1>2. tasks[n] \in Task
  BY <1>1
<1> DEFINE t == [tasks[n] EXCEPT !.phase = "judged", !.verdict = v, !.now = now, !.source = m]
<1>3. /\ t \in Task
      /\ t.key = tasks[n].key /\ t.sweep = tasks[n].sweep
      /\ t.phase = "judged" /\ t.verdict = v /\ t.now = now /\ t.source = m
  <2>1. now \in Nat /\ m \in Nat
    BY <1>0, <1>1
  <2>2. v \in Verdicts \union {"none"}
    OBVIOUS
  <2> QED
    BY <1>2, <2>1, <2>2 DEF Task
<1>4. tasks' = [tasks EXCEPT ![n] = t]
  BY DEF Judge
<1> HIDE DEF t
<1>5. /\ tasks' \in Seq(Task)
      /\ DOMAIN tasks' = DOMAIN tasks
      /\ tasks'[n] = t
      /\ \A i \in DOMAIN tasks : i # n => tasks'[i] = tasks[i]
  BY <1>0, <1>1, <1>3, <1>4
<1>6. Judged' = Judged \union {n} /\ Looking' = Looking \ {n}
  BY <1>3, <1>5 DEF Judged, Looking
<1>7. Types'
  <2>1. IsFiniteSet(Looking) /\ Cardinality(Looking) \in Nat
    BY <1>0, TasksFinite DEF Looking
  <2>2. Cardinality(Looking') <= Slots
    <3>1. Looking' \subseteq Looking
      BY <1>6
    <3>2. Cardinality(Looking') <= Cardinality(Looking)
      BY <2>1, <3>1, FS_Subset
    <3>3. Cardinality(Looking') \in Nat
      BY <1>0, <3>1, TasksFinite DEF Looking
    <3>4. Cardinality(Looking) <= Slots /\ Slots \in Nat
      BY IdentityConstantsOK DEF Types, IdentityConstantsOK
    <3> QED
      BY <2>1, <3>2, <3>3, <3>4
  <2>3. IsFiniteSet(threads)
    BY <1>0, TasksFinite DEF Types
  <2>4. Cardinality(threads') <= Cardinality(threads)
    BY <2>3, FS_Subset
  <2>5. Cardinality(threads) \in Nat /\ Cardinality(threads') \in Nat
    BY <1>0, TasksFinite DEF Types
  <2>6. Cardinality(threads') <= Threads
    BY <2>4, <2>5, IdentityConstantsOK DEF Types, IdentityConstantsOK
  <2> QED
    BY <1>5, <2>2, <2>6 DEF Types
<1>8. \A i \in Judged : tasks'[i] = tasks[i]
  BY <1>5 DEF Judged
<1>9. ASSUME NEW i \in DOMAIN tasks
      PROVE  TaskOK(i)'
  <2>1. TaskOK(i)
    OBVIOUS
  <2>2. CASE i # n
    BY <1>5, <1>6, <1>8, <2>1, <2>2 DEF TaskOK
  <2>3. CASE i = n
    <3>1. /\ t.now <= clock' /\ t.sweep <= sweeps'
          /\ t.sweep = sweeps' => t.key \in seen'
      BY <1>0, <1>3, <2>1, <2>3 DEF TaskOK
    <3>2. n \notin Looking' /\ t.verdict \in Verdicts
      BY <1>3, <1>6
    <3>3. t.verdict = "verified" => Genuine(t.key)
      BY <1>3
    <3>4. m # n => /\ m \in Judged'
                   /\ t.key = tasks'[m].key
                   /\ t.verdict = tasks'[m].verdict
                   /\ t.now - tasks'[m].now < Ttl
      BY <1>3, <1>6, <1>8
    <3> QED
      BY <1>3, <1>5, <2>3, <3>1, <3>2, <3>3, <3>4 DEF TaskOK
  <2> QED
    BY <2>2, <2>3
<1>10. OneTaskPerSweep'
  <2>1. \A i \in DOMAIN tasks : tasks'[i].key = tasks[i].key /\ tasks'[i].sweep = tasks[i].sweep
    BY <1>3, <1>5
  <2> QED
    BY <1>5, <2>1 DEF OneTaskPerSweep
<1> QED
  BY <1>3, <1>5, <1>6, <1>7, <1>8, <1>9, <1>10

(* A verdict a task worked out itself, stored as it is recorded.           *)
LEMMA JudgeAndStoreKeeps ==
  ASSUME Inv, NEW n \in DOMAIN tasks, n \notin Judged,
         NEW v \in Verdicts, NEW now \in 0..clock,
         Judge(n, v, now, n), Store(n, v, now),
         v = "verified" => Genuine(tasks[n].key),
         UNCHANGED <<clock, seen, sweeps>>,
         threads' \subseteq threads
  PROVE  Inv'
<1>1. /\ Types'
      /\ \A i \in DOMAIN tasks' : TaskOK(i)'
      /\ OneTaskPerSweep'
      /\ DOMAIN tasks' = DOMAIN tasks
      /\ Judged' = Judged \union {n}
      /\ \A i \in Judged : tasks'[i] = tasks[i]
      /\ tasks'[n].key = tasks[n].key
      /\ tasks'[n].verdict = v /\ tasks'[n].now = now
  BY JudgeKeepsTasks
<1> DEFINE k == tasks[n].key
<1>2. k \in Keys
  <2>1. tasks \in Seq(Task)
    BY DEF Inv, Types
  <2>2. tasks[n] \in Task
    BY <2>1, LenProperties
  <2> QED
    BY <2>2 DEF Task
<1>3. PICK keep \in Kept(cache) :
        cache' = [x \in keep \union {k} |->
                    IF x = k THEN [at |-> now, verdict |-> v, by |-> n] ELSE cache[x]]
  BY DEF Store
<1>4. keep \subseteq DOMAIN cache /\ Cardinality(keep \union {k}) <= MaxEntries
  BY <1>2, KeptFits
<1>5. CacheBounded'
  BY <1>3, <1>4 DEF CacheBounded
<1>6. ASSUME NEW x \in DOMAIN cache'
      PROVE  EntryOK(x)'
  <2>1. CASE x = k
    <3>1. cache'[x] = [at |-> now, verdict |-> v, by |-> n]
      BY <1>3, <2>1
    <3> QED
      BY <1>1, <1>2, <2>1, <3>1 DEF EntryOK
  <2>2. CASE x # k
    <3>1. x \in DOMAIN cache /\ cache'[x] = cache[x]
      BY <1>3, <1>4, <2>2
    <3>2. EntryOK(x)
      BY <3>1 DEF Inv
    <3>3. cache[x].by \in Judged'
          /\ tasks'[cache[x].by] = tasks[cache[x].by]
      BY <1>1, <3>2 DEF EntryOK
    <3> QED
      BY <1>1, <3>1, <3>2, <3>3 DEF EntryOK
  <2> QED
    BY <2>1, <2>2
<1> QED
  BY <1>1, <1>5, <1>6 DEF Inv

-----------------------------------------------------------------------------
(* The steps.                                                              *)

LEMMA TickKeeps ==
  ASSUME Inv, Tick
  PROVE  Inv'
<1> USE DEF Inv
<1>1. clock \in Nat /\ clock' = clock + 1
      /\ tasks' = tasks /\ seen' = seen /\ sweeps' = sweeps /\ threads' = threads /\ cache' = cache
  BY DEF Tick, Types
<1>2. Looking' = Looking /\ Judged' = Judged
  BY <1>1 DEF Looking, Judged
<1>3. Types' /\ OneTaskPerSweep' /\ CacheBounded'
  BY <1>1, <1>2 DEF Types, OneTaskPerSweep, CacheBounded
<1>4. ASSUME NEW n \in DOMAIN tasks
      PROVE  TaskOK(n)'
  <2>1. tasks[n] \in Task
    BY LenProperties DEF Types
  <2>2. tasks[n].now \in Nat
    BY <2>1 DEF Task
  <2> QED
    BY <1>1, <1>2, <2>2 DEF TaskOK
<1>5. ASSUME NEW k \in DOMAIN cache
      PROVE  EntryOK(k)'
  <2>1. 0..clock \subseteq 0..clock'
    BY <1>1
  <2> QED
    BY <1>1, <1>2, <2>1 DEF EntryOK
<1> QED
  BY <1>1, <1>3, <1>4, <1>5

LEMMA ScheduleKeeps ==
  ASSUME Inv, NEW k \in Keys, Schedule(k)
  PROVE  Inv'
<1> USE DEF Inv
<1>0. tasks \in Seq(Task) /\ sweeps \in Nat /\ clock \in Nat
  BY DEF Types
<1>1. DOMAIN tasks = 1..Len(tasks) /\ Len(tasks) \in Nat
      /\ \A i \in DOMAIN tasks : tasks[i] \in Task
  BY <1>0, LenProperties
<1> DEFINE e == Created(k)
           N == Len(tasks) + 1
<1>2. /\ e \in Task
      /\ e.key = k /\ e.phase = "waiting" /\ e.now = 0 /\ e.sweep = sweeps
  BY <1>0 DEF Created, Task
<1>3. /\ tasks' = Append(tasks, e)
      /\ clock' = clock /\ threads' = threads /\ cache' = cache
      /\ k \notin seen
  BY DEF Schedule
<1> HIDE DEF e
<1>4. /\ tasks' \in Seq(Task)
      /\ Len(tasks') = N
      /\ \A i \in DOMAIN tasks : tasks'[i] = tasks[i]
      /\ tasks'[N] = e
  BY <1>0, <1>1, <1>2, <1>3, AppendProperties
<1>5. /\ DOMAIN tasks' = 1..N
      /\ N \notin DOMAIN tasks
      /\ DOMAIN tasks' = DOMAIN tasks \union {N}
  <2>1. DOMAIN tasks' = 1..N
    BY <1>4, LenProperties
  <2> QED
    BY <1>1, <2>1
<1>6. Looking' = Looking /\ Judged' = Judged
  BY <1>2, <1>4, <1>5 DEF Looking, Judged
<1>7. \/ seen' = {} /\ sweeps' = sweeps + 1
      \/ seen' = seen \union {k} /\ sweeps' = sweeps
  BY DEF Schedule
<1>8. Types'
  BY <1>0, <1>3, <1>4, <1>5, <1>6, <1>7 DEF Types
<1>9. ASSUME NEW i \in DOMAIN tasks'
      PROVE  TaskOK(i)'
  <2>1. CASE i \in DOMAIN tasks
    <3>1. TaskOK(i) /\ tasks'[i] = tasks[i]
      BY <1>4, <2>1
    <3>2. tasks[i].sweep \in Nat
      BY <1>1, <2>1 DEF Task
    <3>3. tasks[i].sweep <= sweeps' /\ (tasks[i].sweep = sweeps' => tasks[i].key \in seen')
      BY <1>0, <1>7, <3>1, <3>2 DEF TaskOK
    <3>4. \A m \in Judged : tasks'[m] = tasks[m]
      BY <1>4 DEF Judged
    <3> QED
      BY <1>3, <1>6, <3>1, <3>3, <3>4 DEF TaskOK
  <2>2. CASE i = N
    <3>1. N \notin Looking' /\ N \notin Judged'
      BY <1>5, <1>6 DEF Looking, Judged
    <3>2. e.sweep <= sweeps' /\ (e.sweep = sweeps' => e.key \in seen')
      BY <1>0, <1>2, <1>7
    <3> QED
      BY <1>0, <1>2, <1>3, <1>4, <2>2, <3>1, <3>2 DEF TaskOK
  <2> QED
    BY <1>5, <2>1, <2>2
<1>10. OneTaskPerSweep'
  <2> SUFFICES ASSUME NEW n \in DOMAIN tasks', NEW m \in DOMAIN tasks',
                      n < m, tasks'[n].key = tasks'[m].key
               PROVE  tasks'[n].sweep < tasks'[m].sweep
    BY DEF OneTaskPerSweep
  <2>1. n \in DOMAIN tasks
    BY <1>1, <1>5
  <2>2. CASE m \in DOMAIN tasks
    BY <1>4, <2>1, <2>2 DEF OneTaskPerSweep
  <2>3. CASE m = N
    <3>1. TaskOK(n) /\ tasks[n].key = k /\ tasks[n].sweep \in Nat
      BY <1>1, <1>2, <1>4, <2>1, <2>3 DEF Task
    <3>2. tasks[n].sweep <= sweeps /\ tasks[n].sweep # sweeps
      BY <1>3, <3>1 DEF TaskOK
    <3> QED
      BY <1>0, <1>2, <1>4, <2>1, <2>3, <3>1, <3>2
  <2> QED
    BY <1>5, <2>2, <2>3
<1>11. ASSUME NEW x \in DOMAIN cache'
       PROVE  EntryOK(x)'
  <2>1. x \in DOMAIN cache /\ EntryOK(x)
    BY <1>3
  <2>2. cache[x].by \in DOMAIN tasks
    BY <2>1 DEF EntryOK
  <2> QED
    BY <1>3, <1>4, <1>5, <1>6, <2>1, <2>2 DEF EntryOK
<1>12. CacheBounded'
  BY <1>3 DEF CacheBounded
<1> QED
  BY <1>8, <1>9, <1>10, <1>11, <1>12

LEMMA AcquireKeeps ==
  ASSUME Inv, NEW n \in DOMAIN tasks, Acquire(n)
  PROVE  Inv'
<1> USE DEF Inv
<1>0. tasks \in Seq(Task) /\ clock \in Nat
  BY DEF Types
<1>1. /\ DOMAIN tasks = 1..Len(tasks) /\ tasks \in [1..Len(tasks) -> Task]
      /\ tasks[n] \in Task
  BY <1>0, LenProperties
<1>2. n \notin Judged /\ n \notin Looking
  BY DEF Acquire, Waiting, Judged, Looking
<1> DEFINE k == tasks[n].key
<1>3. k \in Keys /\ clock \in 0..clock
  BY <1>0, <1>1 DEF Task
<1>4. UNCHANGED <<clock, seen, sweeps, threads>>
  BY DEF Acquire, Pass
<1>5. CASE Fresh(k) /\ Judge(n, cache[k].verdict, clock, cache[k].by) /\ UNCHANGED cache
  <2>1. k \in DOMAIN cache /\ EntryOK(k) /\ clock - cache[k].at < Ttl
    BY <1>5 DEF Fresh
  <2>2. cache[k].verdict \in Verdicts /\ cache[k].by \in DOMAIN tasks
    BY <2>1 DEF EntryOK
  <2>3. /\ Types'
        /\ \A i \in DOMAIN tasks' : TaskOK(i)'
        /\ OneTaskPerSweep'
        /\ DOMAIN tasks' = DOMAIN tasks
        /\ Judged' = Judged \union {n}
        /\ \A i \in Judged : tasks'[i] = tasks[i]
    <3>1. /\ cache[k].verdict = "verified" => Genuine(tasks[n].key)
          /\ cache[k].by \in Judged
          /\ tasks[cache[k].by].key = tasks[n].key
          /\ tasks[cache[k].by].verdict = cache[k].verdict
          /\ clock - tasks[cache[k].by].now < Ttl
      BY <2>1 DEF EntryOK
    <3> QED
      BY <1>2, <1>3, <1>4, <1>5, <2>2, <3>1, JudgeKeepsTasks
  <2>4. ASSUME NEW x \in DOMAIN cache'
        PROVE  EntryOK(x)'
    <3>1. x \in DOMAIN cache /\ EntryOK(x) /\ cache' = cache
      BY <1>5
    <3>2. cache[x].by \in Judged' /\ tasks'[cache[x].by] = tasks[cache[x].by]
      BY <2>3, <3>1 DEF EntryOK
    <3> QED
      BY <1>4, <2>3, <3>1, <3>2 DEF EntryOK
  <2>5. CacheBounded'
    BY <1>5 DEF CacheBounded
  <2> QED
    BY <2>3, <2>4, <2>5
<1>6. CASE /\ ~NeedsDns(k)
           /\ Judge(n, DirectVerdict(k), clock, n)
           /\ Store(n, DirectVerdict(k), clock)
  BY <1>2, <1>3, <1>4, <1>6, DirectIsRight, JudgeAndStoreKeeps
<1>7. CASE /\ NeedsDns(k)
           /\ tasks' = [tasks EXCEPT ![n] = [@ EXCEPT !.phase = "lookup", !.now = clock]]
           /\ UNCHANGED cache
  <2> DEFINE t == [tasks[n] EXCEPT !.phase = "lookup", !.now = clock]
  <2>1. /\ t \in Task /\ t.key = k /\ t.sweep = tasks[n].sweep
        /\ t.phase = "lookup" /\ t.now = clock
    BY <1>0, <1>1 DEF Task
  <2>2. tasks' = [tasks EXCEPT ![n] = t]
    BY <1>7
  <2> HIDE DEF t
  <2>3. /\ tasks' \in Seq(Task)
        /\ DOMAIN tasks' = DOMAIN tasks
        /\ tasks'[n] = t
        /\ \A i \in DOMAIN tasks : i # n => tasks'[i] = tasks[i]
    BY <1>0, <1>1, <2>1, <2>2
  <2>4. Looking' = Looking \union {n} /\ Judged' = Judged
    BY <1>2, <2>1, <2>3 DEF Looking, Judged
  <2>5. Cardinality(Looking') <= Slots
    <3>1. IsFiniteSet(Looking) /\ Cardinality(Looking) \in Nat
      BY <1>0, TasksFinite DEF Looking
    <3>2. Cardinality(Looking') = Cardinality(Looking) + 1
      BY <1>2, <2>4, <3>1, FS_AddElement
    <3> QED
      BY <3>1, <3>2, IdentityConstantsOK DEF Acquire, IdentityConstantsOK
  <2>6. Types'
    BY <1>4, <2>3, <2>5 DEF Types
  <2>7. \A i \in Judged : tasks'[i] = tasks[i]
    BY <1>2, <2>3 DEF Judged
  <2>8. ASSUME NEW i \in DOMAIN tasks
        PROVE  TaskOK(i)'
    <3>1. TaskOK(i)
      OBVIOUS
    <3>2. CASE i # n
      BY <1>4, <2>3, <2>4, <2>7, <3>1, <3>2 DEF TaskOK
    <3>3. CASE i = n
      BY <1>0, <1>2, <1>4, <1>7, <2>1, <2>3, <2>4, <3>1, <3>3 DEF TaskOK
    <3> QED
      BY <3>2, <3>3
  <2>9. OneTaskPerSweep'
    <3>1. \A i \in DOMAIN tasks : tasks'[i].key = tasks[i].key /\ tasks'[i].sweep = tasks[i].sweep
      BY <2>1, <2>3
    <3> QED
      BY <2>3, <3>1 DEF OneTaskPerSweep
  <2>10. ASSUME NEW x \in DOMAIN cache'
         PROVE  EntryOK(x)'
    <3>1. x \in DOMAIN cache /\ EntryOK(x) /\ cache' = cache
      BY <1>7
    <3>2. tasks'[cache[x].by] = tasks[cache[x].by]
      BY <2>7, <3>1 DEF EntryOK
    <3> QED
      BY <1>4, <2>3, <2>4, <3>1, <3>2 DEF EntryOK
  <2>11. CacheBounded'
    BY <1>7 DEF CacheBounded
  <2> QED
    BY <2>3, <2>6, <2>8, <2>9, <2>10, <2>11
<1> QED
  BY <1>5, <1>6, <1>7 DEF Acquire, Pass

LEMMA LookupStartsKeeps ==
  ASSUME Inv, NEW n \in DOMAIN tasks, LookupStarts(n)
  PROVE  Inv'
<1> USE DEF Inv
<1>1. /\ threads' = threads \union {n} /\ n \notin threads
      /\ UNCHANGED <<clock, seen, sweeps, tasks, cache>>
      /\ Cardinality(threads) < Threads
  BY DEF LookupStarts
<1>2. IsFiniteSet(threads) /\ Cardinality(threads) \in Nat
  BY TasksFinite DEF Types
<1>3. Cardinality(threads') <= Threads
  <2>1. Cardinality(threads') = Cardinality(threads) + 1
    BY <1>1, <1>2, FS_AddElement
  <2>2. Threads \in Nat
    BY IdentityConstantsOK DEF IdentityConstantsOK
  <2> QED
    BY <1>1, <1>2, <2>1, <2>2
<1>4. Looking' = Looking /\ Judged' = Judged
  BY <1>1 DEF Looking, Judged
<1>5. Types'
  BY <1>1, <1>3, <1>4 DEF Types
<1> QED
  BY <1>1, <1>4, <1>5 DEF TaskOK, OneTaskPerSweep, EntryOK, CacheBounded

LEMMA LookupEndsKeeps ==
  ASSUME Inv, NEW n \in DOMAIN tasks, LookupEnds(n) \/ LookupTimesOut(n)
  PROVE  Inv'
<1> USE DEF Inv
<1>0. tasks \in Seq(Task) /\ clock \in Nat
  BY DEF Types
<1>1. tasks[n] \in Task
  BY <1>0, LenProperties
<1>2. tasks[n].now \in 0..clock /\ tasks[n].key \in Keys
  BY <1>0, <1>1 DEF Task, TaskOK
<1>3. UNCHANGED <<clock, seen, sweeps>> /\ threads' \subseteq threads
  BY DEF LookupEnds, LookupTimesOut
<1>4. n \in Looking => n \notin Judged
  BY DEF Looking, Judged
<1>5. CASE LookupTimesOut(n)
  BY <1>2, <1>3, <1>4, <1>5, JudgeAndStoreKeeps DEF LookupTimesOut, Verdicts
<1>6. CASE LookupEnds(n) /\ n \in Looking
  <2>1. PICK outcome \in Outcomes(tasks[n].key) :
          /\ Judge(n, RdnsVerdict(tasks[n].key, outcome), tasks[n].now, n)
          /\ Store(n, RdnsVerdict(tasks[n].key, outcome), tasks[n].now)
    BY <1>6 DEF LookupEnds
  <2>2. NeedsDns(tasks[n].key)
    BY <1>6 DEF TaskOK
  <2>3. /\ RdnsVerdict(tasks[n].key, outcome) \in Verdicts
        /\ RdnsVerdict(tasks[n].key, outcome) = "verified" => Genuine(tasks[n].key)
    BY <1>2, <2>2, RdnsIsRight
  <2> QED
    BY <1>2, <1>3, <1>4, <1>6, <2>1, <2>3, JudgeAndStoreKeeps
<1>7. CASE LookupEnds(n) /\ n \notin Looking
  <2>1. UNCHANGED <<clock, seen, sweeps, tasks, cache>>
    BY <1>7 DEF LookupEnds
  <2>2. IsFiniteSet(threads)
    BY <1>0, TasksFinite DEF Types
  <2>3. /\ Cardinality(threads') <= Cardinality(threads)
        /\ Cardinality(threads) \in Nat /\ Cardinality(threads') \in Nat
    BY <1>0, <1>3, <2>2, FS_Subset, TasksFinite DEF Types
  <2>4. Looking' = Looking /\ Judged' = Judged
    BY <2>1 DEF Looking, Judged
  <2>5. Types'
    BY <1>3, <2>1, <2>3, <2>4, IdentityConstantsOK DEF Types, IdentityConstantsOK
  <2> QED
    BY <2>1, <2>4, <2>5 DEF TaskOK, OneTaskPerSweep, EntryOK, CacheBounded
<1> QED
  BY <1>5, <1>6, <1>7

-----------------------------------------------------------------------------
LEMMA InitHolds == IdentityInit => Inv
<1> SUFFICES ASSUME IdentityInit PROVE Inv
  OBVIOUS
<1>1. DOMAIN tasks = {} /\ DOMAIN cache = {} /\ tasks \in Seq(Task)
  BY DEF IdentityInit
<1>2. Looking = {}
  BY <1>1 DEF Looking
<1>3. Cardinality({}) = 0
  BY FS_EmptySet
<1>4. Types
  BY <1>1, <1>2, <1>3, IdentityConstantsOK DEF IdentityInit, Types, IdentityConstantsOK
<1>5. CacheBounded
  BY <1>1, <1>3, IdentityConstantsOK DEF CacheBounded, IdentityConstantsOK
<1> QED
  BY <1>1, <1>4, <1>5 DEF Inv, OneTaskPerSweep

LEMMA NextKeeps == Inv /\ [IdentityNext]_identityVars => Inv'
<1> SUFFICES ASSUME Inv, [IdentityNext]_identityVars PROVE Inv'
  OBVIOUS
<1>1. CASE Tick
  BY <1>1, TickKeeps
<1>2. CASE \E k \in Keys : Schedule(k)
  BY <1>2, ScheduleKeeps
<1>3. ASSUME NEW n \in DOMAIN tasks,
             Acquire(n) \/ LookupStarts(n) \/ LookupEnds(n) \/ LookupTimesOut(n)
      PROVE  Inv'
  BY <1>3, AcquireKeeps, LookupStartsKeeps, LookupEndsKeeps
<1>4. CASE UNCHANGED identityVars
  <2>1. UNCHANGED <<clock, seen, sweeps, tasks, threads, cache>>
    BY <1>4 DEF identityVars
  <2>2. Looking' = Looking /\ Judged' = Judged
    BY <2>1 DEF Looking, Judged
  <2> QED
    BY <2>1, <2>2 DEF Inv, Types, TaskOK, OneTaskPerSweep, EntryOK, CacheBounded
<1> QED
  BY <1>1, <1>2, <1>3, <1>4 DEF IdentityNext

(* The type invariant: among the rest, no more tasks look up at once than  *)
(* there are slots, although lookups that timed out may hold every thread. *)
THEOREM TypeCorrect == IdentitySpec => []TypeOK
<1>1. Inv => TypeOK
  <2> SUFFICES ASSUME Inv PROVE TypeOK
    OBVIOUS
  <2>1. DOMAIN cache \subseteq Keys
        /\ \A k \in DOMAIN cache :
             cache[k] \in [at : 0..clock, verdict : Verdicts, by : DOMAIN tasks]
    BY DEF Inv, EntryOK
  <2> QED
    BY <2>1 DEF Inv, Types, TypeOK
<1> QED
  BY InitHolds, NextKeeps, <1>1, PTL DEF IdentitySpec

(* An identity event says "verified" only of a pair whose address and      *)
(* claim the operator's ranges or names bring together, whatever timed     *)
(* out, failed, or came from the cache.                                    *)
THEOREM VerifiedIsGenuineAlways == IdentitySpec => []VerifiedIsGenuine
<1>1. Inv => VerifiedIsGenuine
  BY DEF Inv, TaskOK, VerifiedIsGenuine, Judged
<1> QED
  BY InitHolds, NextKeeps, <1>1, PTL DEF IdentitySpec

(* Between two sweeps of the seen set a pair has one task.                 *)
THEOREM OneTaskPerSweepAlways == IdentitySpec => []OneTaskPerSweep
<1>1. Inv => OneTaskPerSweep
  BY DEF Inv
<1> QED
  BY InitHolds, NextKeeps, <1>1, PTL DEF IdentitySpec

(* A verdict from the cache is that of the same pair, and was asked for    *)
(* less than Ttl before.                                                   *)
THEOREM ReuseIsFreshAlways == IdentitySpec => []ReuseIsFresh
<1>1. Inv => ReuseIsFresh
  BY DEF Inv, TaskOK, ReuseIsFresh, Judged
<1> QED
  BY InitHolds, NextKeeps, <1>1, PTL DEF IdentitySpec

(* The cache never passes its limit, however many tasks store at once.     *)
THEOREM CacheBoundedAlways == IdentitySpec => []CacheBounded
<1>1. Inv => CacheBounded
  BY DEF Inv
<1> QED
  BY InitHolds, NextKeeps, <1>1, PTL DEF IdentitySpec

=============================================================================
