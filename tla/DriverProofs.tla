----------------------------- MODULE DriverProofs -----------------------------
(***************************************************************************)
(* Proofs about Driver, for every set of callers and commands and every    *)
(* value of the limits.                                                    *)
(***************************************************************************)
EXTENDS Driver, TLAPS

\* Whole ticks and hundredths make up the number they were split from.
LEMMA SplitHundredths ==
    ASSUME NEW n \in Nat
    PROVE  /\ n \div 100 \in Nat
           /\ n % 100 \in 0 .. 99
           /\ 100 * (n \div 100) + (n % 100) = n
  OBVIOUS

\* A product of natural numbers is one.
LEMMA ProductNat ==
    ASSUME NEW a \in Nat, NEW b \in Nat
    PROVE  a * b \in Nat
  OBVIOUS

\* The defining bounds of an integer quotient.
LEMMA Quotient ==
    ASSUME NEW a \in Nat, NEW s \in Nat \ {0}
    PROVE  /\ a \div s \in Nat
           /\ (a \div s) * s <= a
           /\ a < ((a \div s) + 1) * s
  OBVIOUS

\* Multiplication by a natural number keeps the order.
LEMMA ProductMonotone ==
    ASSUME NEW a \in Nat, NEW b \in Nat, NEW s \in Nat, a <= b
    PROVE  a * s <= b * s
  OBVIOUS

\* To be at most a quotient is to have a product at most the dividend.
LEMMA QuotientBound ==
    ASSUME NEW a \in Nat, NEW s \in Nat \ {0}, NEW c \in Nat
    PROVE  c <= a \div s <=> c * s <= a
  <1> DEFINE q == a \div s
  <1>1. q \in Nat /\ q * s <= a /\ a < (q + 1) * s
    BY Quotient
  <1> HIDE DEF q
  <1>2. ASSUME c <= q PROVE c * s <= a
    <2>1. c * s <= q * s
      BY <1>1, <1>2, ProductMonotone
    <2>2. c * s \in Nat /\ q * s \in Nat
      BY <1>1, ProductNat
    <2> QED
      BY <1>1, <2>1, <2>2
  <1>3. ASSUME ~(c <= q) PROVE ~(c * s <= a)
    <2>1. (q + 1) * s <= c * s
      BY <1>1, <1>3, ProductMonotone
    <2>2. c * s \in Nat /\ (q + 1) * s \in Nat
      BY <1>1, ProductNat
    <2> QED
      BY <1>1, <2>1, <2>2
  <1> QED
    BY <1>2, <1>3 DEF q

-------------------------------------------------------------------------------
(***************************************************************************)
(* Facts about one chunk.                                                  *)
(***************************************************************************)

\* A chunk of a delivery under way is not empty, fits what is left, and is
\* within the bound of planElapse.
LEMMA ChunkFacts ==
    ASSUME TypeOK, speed > 0, left > 0,
           NEW chunk, chunk = Least(left, RealChunk(speed))
    PROVE  /\ chunk \in Nat
           /\ 0 < chunk
           /\ chunk <= left
           /\ chunk <= ElapseBound
           /\ Scaled(chunk) \in Nat
           /\ Scaled(chunk) \div 100 <= MaxAdvance
  <1> DEFINE room == MaxAdvance * 100
  <1>1. /\ speed \in Nat \ {0}
        /\ speed <= room
        /\ room \in Nat
        /\ left \in Nat
        /\ carry \in 0 .. 99
    BY DriverConstants, ChunkIsPositive DEF TypeOK
  <1>2. RealChunk(speed) = room \div speed
    BY DEF RealChunk
  <1>3. ElapseBound = (room + 99 - carry) \div speed
    BY DEF ElapseBound
  <1>4. Scaled(chunk) = chunk * speed + carry
    BY DEF Scaled
  <1>room. room = MaxAdvance * 100
    OBVIOUS
  <1> HIDE DEF room
  <1>5. room \div speed \in Nat
    BY <1>1, Quotient
  <1>6. 1 <= room \div speed
    <2>1. 1 * speed <= room
      BY <1>1
    <2> QED
      BY <1>1, <2>1, QuotientBound
  <1>7. chunk \in Nat /\ 0 < chunk /\ chunk <= left /\ chunk <= room \div speed
    BY <1>1, <1>2, <1>5, <1>6 DEF Least
  <1>8. chunk * speed <= room /\ chunk * speed \in Nat
    BY <1>1, <1>7, QuotientBound, ProductNat
  <1>9. chunk <= (room + 99 - carry) \div speed
    <2>1. chunk * speed <= room + 99 - carry /\ room + 99 - carry \in Nat
      BY <1>1, <1>8
    <2> QED
      BY <1>1, <1>7, <2>1, QuotientBound
  <1>10. (chunk * speed + carry) \div 100 <= MaxAdvance
    BY <1>1, <1>8, <1>room, DriverConstants
  <1> QED
    BY <1>1, <1>3, <1>4, <1>7, <1>8, <1>9, <1>10

\* What one delivered chunk does to the virtual clock.
LEMMA ElapseFacts ==
    ASSUME TypeOK, speed > 0, left > 0,
           NEW chunk, chunk = Least(left, RealChunk(speed)),
           CanElapse(chunk), Elapse(chunk)
    PROVE  /\ elapsed' \in 0 .. MaxElapsed
           /\ carry' \in 0 .. 99
           /\ 100 * elapsed' + carry' = 100 * elapsed + carry + chunk * speed
  <1>1. chunk \in Nat /\ Scaled(chunk) \in Nat
    BY ChunkFacts
  <1>2. speed \in Nat /\ elapsed \in Nat /\ carry \in Nat /\ MaxElapsed \in Nat
    BY DriverConstants DEF TypeOK
  <1>3. chunk * speed \in Nat /\ Scaled(chunk) = chunk * speed + carry
    BY <1>1, <1>2, ProductNat DEF Scaled
  <1>4. /\ Scaled(chunk) \div 100 \in Nat
        /\ Scaled(chunk) % 100 \in 0 .. 99
        /\ 100 * (Scaled(chunk) \div 100) + (Scaled(chunk) % 100) = Scaled(chunk)
    BY <1>1, SplitHundredths
  <1>5. /\ elapsed' = elapsed + (Scaled(chunk) \div 100)
        /\ carry' = Scaled(chunk) % 100
        /\ elapsed + (Scaled(chunk) \div 100) <= MaxElapsed
    BY DEF Elapse, CanElapse
  <1> DEFINE granted == Scaled(chunk) \div 100
             rest == Scaled(chunk) % 100
  <1>6. granted \in Nat /\ rest \in 0 .. 99 /\ 100 * granted + rest = chunk * speed + carry
    BY <1>3, <1>4
  <1>7. elapsed' = elapsed + granted /\ carry' = rest /\ elapsed + granted <= MaxElapsed
    BY <1>5
  <1> HIDE DEF granted, rest
  <1>8. elapsed' \in 0 .. MaxElapsed
    BY <1>2, <1>6, <1>7
  <1>9. carry' \in 0 .. 99
    BY <1>6, <1>7
  <1>10. 100 * elapsed' + carry' = 100 * elapsed + carry + chunk * speed
    <2> DEFINE earned == chunk * speed
    <2>1. earned \in Nat /\ 100 * granted + rest = earned + carry
      BY <1>3, <1>6
    <2> HIDE DEF earned
    <2>2. 100 * elapsed' + carry' = 100 * elapsed + carry + earned
      BY <1>2, <1>6, <1>7, <2>1
    <2> QED
      BY <2>2 DEF earned
  <1> QED
    BY <1>8, <1>9, <1>10
-------------------------------------------------------------------------------
(***************************************************************************)
(* The inductive invariant.                                                *)
(***************************************************************************)

\* New builds a driver that satisfies the invariant.
LEMMA InitIInv == Init => IInv
  <1> SUFFICES ASSUME Init PROVE IInv
    OBVIOUS
  <1> USE DriverConstants DEF Init
  <1>1. TypeOK
    <2>1. stations \in [StationIds -> Int]
      BY DEF Unused
    <2>2. lateRejects \subseteq [cmd : Commands, stations : [StationIds -> Int]]
      OBVIOUS
    <2>3. mu \in Procs \cup {Free}
      OBVIOUS
    <2>4. cmd \in [Callers -> Commands \cup {NoCommand}]
      OBVIOUS
    <2>5. stopped \in BOOLEAN /\ moved \in BOOLEAN /\ live \in [Procs -> BOOLEAN]
      OBVIOUS
    <2>6. /\ now \in 0 .. MaxNow /\ baseline \in 0 .. MaxNow /\ left \in 0 .. MaxNow
          /\ elapsed \in 0 .. MaxElapsed /\ carry \in 0 .. 99
          /\ speed \in 0 .. MaxSpeed /\ count \in 0 .. MaxAircraft
          /\ asked \in [Callers -> 0 .. MaxNow]
      OBVIOUS
    <2>7. /\ result \in {"none", "clean", "failed", "ticker"}
          /\ pc \in [Procs -> {"idle", "loop", "waiting", "settle", "deliver", "apply",
                               "leaving", "returned"}]
      OBVIOUS
    <2> QED
      BY <2>1, <2>2, <2>3, <2>4, <2>5, <2>6, <2>7 DEF TypeOK
  <1>2. MutexHeld /\ OwnSteps /\ Delivering /\ StoppedByRun
    BY DEF MutexHeld, OwnSteps, Delivering, StoppedByRun, Holding, Procs
  <1>3. Measured
    BY DEF Measured, Holding
  <1> QED
    BY <1>1, <1>2, <1>3 DEF IInv

\* Time, cancellation and new requests disturb nothing a holder relies on.
LEMMA EnvironmentKeepsIInv ==
    ASSUME IInv, ClockMoves \/ (\E p \in Procs : Cancel(p)) \/ (\E p \in Callers : Call(p))
    PROVE  IInv'
  <1> USE DriverConstants DEF IInv, Holding, engine, calls
  <1>1. CASE ClockMoves
    <2>1. TypeOK' /\ MutexHeld' /\ OwnSteps' /\ Delivering' /\ StoppedByRun'
      BY <1>1 DEF ClockMoves, TypeOK, MutexHeld, OwnSteps, Delivering, StoppedByRun
    <2>2. Measured'
      BY <1>1 DEF ClockMoves, TypeOK, Measured
    <2> QED
      BY <2>1, <2>2
  <1>2. ASSUME NEW p \in Procs, Cancel(p) PROVE IInv'
    BY <1>2 DEF Cancel, TypeOK, MutexHeld, OwnSteps, Delivering, StoppedByRun, Measured
  <1>3. ASSUME NEW p \in Callers, Call(p) PROVE IInv'
    <2>1. TypeOK'
      BY <1>3 DEF Call, TypeOK, Procs
    <2>2. MutexHeld' /\ OwnSteps' /\ Delivering' /\ StoppedByRun'
      BY <1>3 DEF Call, TypeOK, MutexHeld, OwnSteps, Delivering, StoppedByRun, Procs
    <2>3. Measured'
      BY <1>3 DEF Call, TypeOK, OwnSteps, Measured, Procs
    <2> QED
      BY <2>1, <2>2, <2>3
  <1> QED
    BY <1>1, <1>2, <1>3

\* The steps of Run outside a settlement do not touch what is settled.
LEMMA RunKeepsIInv ==
    ASSUME IInv, RunStarts \/ Tick \/ RunCancelled \/ TickerClosed \/ RunReturns
    PROVE  IInv'
  <1> USE DriverConstants
      DEF IInv, Holding, engine, calls, Procs, TypeOK, MutexHeld, OwnSteps, Delivering,
          StoppedByRun, Measured
  <1>1. CASE RunStarts     BY <1>1 DEF RunStarts
  <1>2. CASE Tick          BY <1>2 DEF Tick
  <1>3. CASE RunCancelled  BY <1>3 DEF RunCancelled
  <1>4. CASE TickerClosed  BY <1>4 DEF TickerClosed
  <1>5. CASE RunReturns    BY <1>5 DEF RunReturns
  <1> QED
    BY <1>1, <1>2, <1>3, <1>4, <1>5

\* The two ways a mutex holder, or a refused caller, lets go.
LEMMA FailsKeepsIInv ==
    ASSUME IInv, NEW p \in Procs, NEW outcome,
           mu = p \/ (p \in Callers /\ mu = Free),
           p \in Callers => cmd[p] \in Commands,
           Fails(p, outcome), UNCHANGED <<now, baseline, stopped, engine>>
    PROVE  IInv'
  <1> USE DriverConstants
      DEF IInv, Holding, engine, Procs, TypeOK, MutexHeld, OwnSteps, Delivering, StoppedByRun
  <1>1. CASE p = Runner
    <2>1. RunEnds
      BY <1>1 DEF Fails
    <2>2. TypeOK'
      <3>1. pc' \in [Procs -> {"idle", "loop", "waiting", "settle", "deliver", "apply",
                               "leaving", "returned"}]
        BY <1>1, <2>1 DEF RunEnds
      <3>2. mu' \in Procs \cup {Free} /\ moved' \in BOOLEAN
        BY <2>1 DEF RunEnds
      <3>3. left' \in 0 .. MaxNow /\ result' \in {"none", "clean", "failed", "ticker"}
        BY <2>1 DEF RunEnds
      <3> QED
        BY <2>1, <3>1, <3>2, <3>3 DEF RunEnds
    <2>3. MutexHeld' /\ OwnSteps' /\ Delivering' /\ StoppedByRun'
      BY <1>1, <2>1 DEF RunEnds
    <2>4. Measured'
      BY <1>1, <2>1 DEF RunEnds, Measured
    <2> QED
      BY <2>2, <2>3, <2>4
  <1>2. CASE p \in Callers
    <2>1. Return(p, outcome)
      BY <1>2 DEF Fails
    <2>2. TypeOK'
      <3>1. lateRejects' \subseteq [cmd : Commands, stations : [StationIds -> Int]]
        <4>1. \/ lateRejects' = lateRejects
              \/ lateRejects' = lateRejects \cup {[cmd |-> cmd[p], stations |-> stations]}
          BY <2>1 DEF Return
        <4> QED
          BY <1>2, <4>1
      <3>2. UNCHANGED <<now, baseline, stopped, elapsed, carry, speed, count, stations, result>>
        BY <2>1 DEF Return
      <3>3. /\ mu' = Free /\ moved' = FALSE /\ left' = 0
            /\ pc' = [pc EXCEPT ![p] = "idle"]
            /\ cmd' = [cmd EXCEPT ![p] = NoCommand]
            /\ live' = [live EXCEPT ![p] = TRUE]
            /\ asked' = [asked EXCEPT ![p] = 0]
        BY <2>1 DEF Return
      <3>4. live' \in [Procs -> BOOLEAN] /\ moved' \in BOOLEAN
        BY <3>3
      <3>5. mu' \in Procs \cup {Free} /\ left' \in 0 .. MaxNow
        BY <3>3
      <3>6. cmd' \in [Callers -> Commands \cup {NoCommand}]
        BY <3>3
      <3>7. asked' \in [Callers -> 0 .. MaxNow]
        <4>1. asked \in [Callers -> 0 .. MaxNow] /\ 0 \in 0 .. MaxNow
          OBVIOUS
        <4> QED
          BY <3>3, <4>1, Zenon
      <3> QED
        BY <3>1, <3>2, <3>3, <3>4, <3>5, <3>6, <3>7
    <2>3. MutexHeld' /\ OwnSteps' /\ Delivering' /\ StoppedByRun'
      BY <1>2, <2>1 DEF Return
    <2>4. Measured'
      BY <1>2, <2>1 DEF Return, Measured
    <2> QED
      BY <2>2, <2>3, <2>4
  <1> QED
    BY <1>1, <1>2

\* A refused command leaves the mutex and the engine as they were.
LEMMA RefuseKeepsIInv ==
    ASSUME IInv, NEW p \in Callers, Refuse(p)
    PROVE  IInv'
  <1>1. p # Runner /\ p \in Procs
    BY DriverConstants DEF Procs
  <1>2. Fails(p, Refusal(p)) /\ mu = Free /\ UNCHANGED <<now, baseline, stopped, engine>>
    BY <1>1 DEF Refuse, Fails
  <1>3. cmd[p] \in Commands
    BY DEF Refuse, IInv, OwnSteps
  <1> QED
    BY <1>1, <1>2, <1>3, FailsKeepsIInv

\* Locking the mutex makes its holder the one goroutine in a settlement.
LEMMA AcquireKeepsIInv ==
    ASSUME IInv, NEW p \in Procs, Acquire(p)
    PROVE  IInv'
  <1> USE DriverConstants
      DEF IInv, Holding, engine, Procs, TypeOK, MutexHeld, OwnSteps, Delivering, StoppedByRun
  <1>1. ~stopped
    BY DEF Acquire, Refusal
  <1>2. TypeOK'
    BY DEF Acquire
  <1>3. MutexHeld' /\ OwnSteps' /\ Delivering'
    BY DEF Acquire
  <1>4. StoppedByRun'
    BY <1>1 DEF Acquire
  <1>5. Measured'
    BY DEF Acquire, Measured
  <1> QED
    BY <1>2, <1>3, <1>4, <1>5

\* A settlement that completes: what it settled up to must be in the past and
\* not before the call.
LEMMA SettledKeepsIInv ==
    ASSUME IInv, NEW p \in Procs, mu = p, NEW delivered \in BOOLEAN,
           Settled(p, delivered),
           UNCHANGED <<now, stopped, speed, count, stations>>,
           baseline' \in 0 .. MaxNow, elapsed' \in 0 .. MaxElapsed, carry' \in 0 .. 99,
           Monotonic => /\ baseline' <= now
                        /\ p \in Callers => asked[p] <= baseline'
    PROVE  IInv'
  <1> USE DriverConstants DEF IInv, Holding, Procs
  <1>1. TypeOK'
    <2>1. mu' \in Procs \cup {Free} /\ left' \in 0 .. MaxNow
      BY DEF Settled, TypeOK
    <2>2. moved' \in BOOLEAN
      BY DEF Settled
    <2>3. pc' \in [Procs -> {"idle", "loop", "waiting", "settle", "deliver", "apply",
                             "leaving", "returned"}]
      BY DEF Settled, TypeOK
    <2> QED
      BY <2>1, <2>2, <2>3 DEF Settled, TypeOK
  <1>2. MutexHeld' /\ OwnSteps' /\ Delivering'
    BY DEF Settled, TypeOK, MutexHeld, OwnSteps, Delivering
  <1>3. StoppedByRun'
    BY DEF Settled, TypeOK, MutexHeld, StoppedByRun
  <1>4. Measured'
    <2> SUFFICES ASSUME Monotonic PROVE Measured'
      BY DEF Measured
    <2>1. baseline' + left' <= now'
      <3>1. left' = 0 /\ now' = now
        BY DEF Settled
      <3>2. baseline' <= now /\ baseline' \in Int
        BY DriverConstants
      <3> QED
        BY <3>1, <3>2
    <2>2. ASSUME NEW q \in Callers
          PROVE  /\ pc'[q] \in {"waiting"} \cup Holding => asked'[q] <= now'
                 /\ pc'[q] = "deliver" => asked'[q] <= baseline' + left'
                 /\ pc'[q] = "apply" => asked'[q] <= baseline'
      BY DEF Settled, TypeOK, MutexHeld, Measured
    <2> QED
      BY <2>1, <2>2 DEF Measured
  <1> QED
    BY <1>1, <1>2, <1>3, <1>4

\* The measurement of settleLocked: whatever its outcome, the settled instant
\* is in the past, and a command's call is covered by what remains to deliver.
LEMMA MeasureKeepsIInv ==
    ASSUME IInv, NEW p \in Procs, Measure(p)
    PROVE  IInv'
  <1>1. /\ pc[p] = "settle" /\ mu = p
        /\ p \in Callers => cmd[p] \in Commands
        /\ UNCHANGED <<now, stopped, engine>>
    BY DEF Measure, IInv, MutexHeld, OwnSteps, Holding
  <1>2. ASSUME NEW outcome, Fails(p, outcome), UNCHANGED baseline PROVE IInv'
    BY <1>1, <1>2, FailsKeepsIInv
  <1>3. CASE Settled(p, FALSE) /\ ((now <= baseline /\ baseline' = baseline) \/ baseline' = now)
    <2>1. baseline' \in 0 .. MaxNow /\ elapsed' \in 0 .. MaxElapsed /\ carry' \in 0 .. 99
      BY <1>1, <1>3 DEF IInv, TypeOK, engine
    <2>2. ASSUME Monotonic
          PROVE  baseline' <= now /\ (p \in Callers => asked[p] <= baseline')
      BY <1>1, <1>3, <2>2, DriverConstants DEF IInv, TypeOK, Measured, Holding
    <2> QED
      BY <1>1, <1>3, <2>1, <2>2, SettledKeepsIInv DEF engine
  <1>4. CASE StartDelivery(p)
    <2> USE <1>1, <1>4, DriverConstants DEF StartDelivery, Owed, IInv, Holding, Procs, engine
    <2>1. TypeOK'
      BY DEF TypeOK
    <2>2. MutexHeld' /\ OwnSteps' /\ StoppedByRun'
      BY DEF TypeOK, MutexHeld, OwnSteps, StoppedByRun
    <2>3. Delivering'
      BY DEF TypeOK, MutexHeld, Delivering
    <2>4. Measured'
      BY DEF TypeOK, Measured
    <2> QED
      BY <2>1, <2>2, <2>3, <2>4
  <1>5. baseline \in Int /\ now \in Int
    BY DEF IInv, TypeOK
  <1> QED
    BY <1>1, <1>2, <1>3, <1>4, <1>5 DEF Measure, NothingOwed, Paused, TooFarBehind, StartDelivery, Owed

\* One iteration of settleLocked's loop moves time from what is left to what
\* is settled.
LEMMA DeliverKeepsIInv ==
    ASSUME IInv, NEW p \in Procs, Deliver(p)
    PROVE  IInv'
  <1> DEFINE chunk == Least(left, RealChunk(speed))
  <1>1. /\ pc[p] = "deliver" /\ mu = p
        /\ p \in Callers => cmd[p] \in Commands
        /\ UNCHANGED <<now, stopped>>
        /\ left > 0 /\ speed > 0 /\ baseline + left <= MaxNow
    BY DEF Deliver, IInv, MutexHeld, OwnSteps, Delivering, Holding
  <1>2. chunk \in Nat /\ 0 < chunk /\ chunk <= left
    BY <1>1, ChunkFacts DEF IInv
  <1>3. ASSUME NEW outcome, Fails(p, outcome), UNCHANGED <<baseline, engine>> PROVE IInv'
    BY <1>1, <1>3, FailsKeepsIInv
  <1>4. ASSUME CanElapse(chunk), Elapse(chunk)
        PROVE  /\ elapsed' \in 0 .. MaxElapsed /\ carry' \in 0 .. 99
               /\ baseline' = baseline + chunk
               /\ baseline' \in 0 .. MaxNow
               /\ UNCHANGED <<speed, count, stations>>
    <2>1. elapsed' \in 0 .. MaxElapsed /\ carry' \in 0 .. 99
      BY <1>1, <1>4, ElapseFacts DEF IInv
    <2>2. baseline' = baseline + chunk /\ UNCHANGED <<speed, count, stations>>
      BY <1>4 DEF Elapse
    <2>3. baseline' \in 0 .. MaxNow
      BY <1>1, <1>2, <2>2, DriverConstants DEF IInv, TypeOK
    <2> QED
      BY <2>1, <2>2, <2>3
  <1> HIDE DEF chunk
  <1>5. ASSUME CanElapse(chunk), Elapse(chunk), left - chunk > 0, left' = left - chunk,
               moved' = TRUE, UNCHANGED <<mu, calls, result, lateRejects>>
        PROVE  IInv'
    <2> USE <1>1, <1>2, <1>4, <1>5, DriverConstants DEF IInv, Holding, calls
    <2>1. moved' \in BOOLEAN
      OBVIOUS
    <2>2. left' \in 0 .. MaxNow
      BY DEF TypeOK
    <2>3. TypeOK'
      BY <2>1, <2>2 DEF TypeOK
    <2>4. MutexHeld' /\ OwnSteps' /\ StoppedByRun'
      BY DEF MutexHeld, OwnSteps, StoppedByRun
    <2>5. Delivering'
      BY DEF TypeOK, Delivering
    <2>6. Measured'
      BY DEF TypeOK, Measured, MutexHeld, Procs
    <2> QED
      BY <2>3, <2>4, <2>5, <2>6
  <1>6. ASSUME CanElapse(chunk), Elapse(chunk), left - chunk = 0, Settled(p, TRUE)
        PROVE  IInv'
    <2>1. baseline' = baseline + left
      BY <1>2, <1>4, <1>6 DEF IInv, TypeOK
    <2>2. ASSUME Monotonic
          PROVE  baseline' <= now /\ (p \in Callers => asked[p] <= baseline')
      BY <1>1, <2>1, <2>2 DEF IInv, Measured
    <2> QED
      BY <1>1, <1>4, <1>6, <2>2, SettledKeepsIInv
  <1> QED
    BY <1>3, <1>5, <1>6 DEF Deliver, chunk

\* A command's effect keeps the types and hands the mutex back.
LEMMA ApplyKeepsIInv ==
    ASSUME IInv, NEW p \in Callers, Apply(p)
    PROVE  IInv'
  <1>1. /\ pc[p] = "apply" /\ mu = p /\ p \in Procs /\ p # Runner
        /\ cmd[p] \in Commands /\ cmd[p] \in CommandType
        /\ UNCHANGED <<now, baseline, stopped>>
    BY DriverConstants DEF Apply, IInv, MutexHeld, OwnSteps, Holding, Procs
  <1>2. ASSUME NEW outcome, Return(p, outcome), UNCHANGED engine PROVE IInv'
    BY <1>1, <1>2, FailsKeepsIInv DEF Fails
  <1>3. ASSUME ~EngineRejects(cmd[p]), Return(p, "ok"), UNCHANGED <<elapsed, carry>>,
               \/ SetCount(cmd[p])
               \/ SetSpeed(cmd[p])
               \/ AddStation(cmd[p])
               \/ UpdateStation(cmd[p])
               \/ RemoveStation(cmd[p])
        PROVE  IInv'
    <2> USE DriverConstants DEF IInv, Holding
    <2>1. count' \in 0 .. MaxAircraft /\ speed' \in 0 .. MaxSpeed
      BY <1>1, <1>3
      DEF EngineRejects, InputInvalid, CommandType, TypeOK,
          SetCount, SetSpeed, AddStation, UpdateStation, RemoveStation
    <2>2. stations' \in [StationIds -> Int]
      <3>1. \E r \in Int : stations' = [stations EXCEPT ![cmd[p].id] = r]
                \/ stations' = stations
        BY <1>1, <1>3
        DEF CommandType, TypeOK, SetCount, SetSpeed, AddStation, UpdateStation,
            RemoveStation, Removed
      <3> QED
        BY <3>1 DEF TypeOK
    <2>3. /\ mu' = Free /\ moved' = FALSE /\ left' = 0
          /\ pc' = [pc EXCEPT ![p] = "idle"]
          /\ cmd' = [cmd EXCEPT ![p] = NoCommand]
          /\ live' = [live EXCEPT ![p] = TRUE]
          /\ asked' = [asked EXCEPT ![p] = 0]
          /\ lateRejects' = lateRejects /\ result' = result
      BY <1>3 DEF Return
    <2>4. TypeOK'
      <3>1. live' \in [Procs -> BOOLEAN] /\ moved' \in BOOLEAN
        BY <2>3 DEF TypeOK
      <3>2. mu' \in Procs \cup {Free} /\ left' \in 0 .. MaxNow
        BY <2>3
      <3>3. cmd' \in [Callers -> Commands \cup {NoCommand}]
        BY <2>3 DEF TypeOK
      <3>4. asked' \in [Callers -> 0 .. MaxNow]
        <4>1. asked \in [Callers -> 0 .. MaxNow] /\ 0 \in 0 .. MaxNow
          BY DEF TypeOK
        <4> QED
          BY <2>3, <4>1, Zenon
      <3> QED
        BY <1>1, <1>3, <2>1, <2>2, <2>3, <3>1, <3>2, <3>3, <3>4 DEF TypeOK
    <2>5. MutexHeld' /\ OwnSteps' /\ Delivering' /\ StoppedByRun'
      BY <1>1, <2>3 DEF TypeOK, MutexHeld, OwnSteps, Delivering, StoppedByRun, Procs
    <2>6. Measured'
      <3> SUFFICES ASSUME Monotonic PROVE Measured'
        BY DEF Measured
      <3>1. baseline' + left' <= now'
        BY <1>1, <2>3 DEF TypeOK, Measured
      <3>2. ASSUME NEW q \in Callers
            PROVE  /\ pc'[q] \in {"waiting"} \cup Holding => asked'[q] <= now'
                   /\ pc'[q] # "deliver"
                   /\ pc'[q] # "apply"
        BY <1>1, <2>3, q \in Procs DEF TypeOK, Measured, MutexHeld, Procs
      <3> QED
        BY <3>1, <3>2 DEF Measured
    <2> QED
      BY <2>4, <2>5, <2>6
  <1> QED
    BY <1>2, <1>3 DEF Apply

\* Every step keeps the invariant.
LEMMA NextKeepsIInv == IInv /\ [Next]_vars => IInv'
  <1> SUFFICES ASSUME IInv, [Next]_vars PROVE IInv'
    OBVIOUS
  <1> Runner \in Procs /\ Callers \subseteq Procs
    BY DEF Procs
  <1>1. CASE ClockMoves \/ (\E p \in Procs : Cancel(p)) \/ (\E p \in Callers : Call(p))
    BY <1>1, EnvironmentKeepsIInv
  <1>2. CASE RunStarts \/ Tick \/ RunCancelled \/ TickerClosed \/ RunReturns
    BY <1>2, RunKeepsIInv
  <1>3. ASSUME NEW p \in Procs, Settlement(p) PROVE IInv'
    BY <1>3, AcquireKeepsIInv, MeasureKeepsIInv, DeliverKeepsIInv DEF Settlement
  <1>4. ASSUME NEW p \in Callers, Command(p) PROVE IInv'
    BY <1>3, <1>4, RefuseKeepsIInv, ApplyKeepsIInv DEF Command
  <1>5. CASE UNCHANGED vars
    BY <1>5
    DEF vars, engine, calls, IInv, TypeOK, MutexHeld, OwnSteps, Delivering,
        StoppedByRun, Measured
  <1> QED
    BY <1>1, <1>2, <1>3, <1>4, <1>5 DEF Next, Run

\* The inductive invariant holds in every reachable state.
THEOREM Invariance == Spec => []IInv
  BY InitIInv, NextKeepsIInv, PTL DEF Spec

-------------------------------------------------------------------------------
(***************************************************************************)
(* What the invariant is for.                                              *)
(***************************************************************************)

\* Every variable keeps its type.
THEOREM TypeCorrect == Spec => []TypeOK
  <1>1. IInv => TypeOK
    BY DEF IInv
  <1> QED
    BY <1>1, Invariance, PTL

\* The engine never refuses a chunk of the driver for its size.
THEOREM ChunksAlwaysFit == Spec => []ChunksFit
  <1>1. IInv => ChunksFit
    BY ChunkFacts DEF IInv, Delivering, ChunksFit
  <1> QED
    BY <1>1, Invariance, PTL

\* With a monotonic clock, effects lie inside their calls.
THEOREM EffectsInsideCalls == Spec => []EffectInsideCall
  <1>1. IInv => EffectInsideCall
    <2> SUFFICES ASSUME IInv, Monotonic, NEW p \in Callers, pc[p] = "apply"
                 PROVE  baseline \in asked[p] .. now
      BY DEF EffectInsideCall
    <2>1. asked[p] <= baseline /\ baseline + left <= now
      BY DEF IInv, Measured
    <2> QED
      BY <2>1, DriverConstants DEF IInv, TypeOK
  <1> QED
    BY <1>1, Invariance, PTL

\* After Run has returned nothing changes the engine.
THEOREM StoppedForGood == Spec => StoppedIsFinal
  <1>1. IInv /\ [Next]_vars => [stopped => UNCHANGED <<engine, baseline>>]_vars
    <2> SUFFICES ASSUME IInv, Next, stopped
                 PROVE  UNCHANGED <<engine, baseline>>
      OBVIOUS
    <2>1. \A p \in Procs : pc[p] \notin Holding
      BY DEF IInv, StoppedByRun
    <2>2. \A p \in Procs : ~Measure(p) /\ ~Deliver(p) /\ ~Apply(p)
      BY <2>1 DEF Holding, Measure, Deliver, Apply
    <2> QED
      BY <2>2
      DEF Next, Run, Command, Settlement, Procs, ClockMoves, Cancel, Call, Refuse, Acquire,
          RunStarts, Tick, RunCancelled, TickerClosed, RunReturns
  <1> QED
    BY <1>1, Invariance, PTL DEF Spec, StoppedIsFinal

\* The driver implements the ideal clock: a step that delivers a chunk or skips
\* paused time is a settlement of PacedClock, a successful SetSpeed changes its
\* speed, and every other step stutters.
THEOREM ImplementsPacedClock == Spec => PacesExactly
  <1>1. Init => Paced!Init
    BY DriverConstants DEF Init, Paced!Init
  <1>2. IInv /\ [Next]_vars => [Paced!Next]_(Paced!vars)
    <2> SUFFICES ASSUME IInv, [Next]_vars
                 PROVE  [Paced!Next]_(Paced!vars)
      OBVIOUS
    <2> USE DEF engine
    <2>1. CASE UNCHANGED <<baseline, elapsed, carry, speed>>
      BY <2>1 DEF Paced!vars
    <2>2. ASSUME NEW p \in Procs, Measure(p) PROVE [Paced!Next]_(Paced!vars)
      <3>1. CASE UNCHANGED baseline
        BY <2>1, <2>2, <3>1 DEF Measure
      <3>2. CASE now > baseline /\ speed = 0 /\ baseline' = now /\ UNCHANGED engine
        <4>1. (baseline' - baseline) * speed = 0
          BY <3>2 DEF IInv, TypeOK
        <4>2. 100 * elapsed' + carry' = 100 * elapsed + carry + (baseline' - baseline) * speed
          BY <3>2, <4>1 DEF IInv, TypeOK
        <4> QED
          BY <3>2, <4>2 DEF Paced!Next, Paced!Settle
      <3>3. baseline \in Int /\ now \in Int
        BY DEF IInv, TypeOK
      <3>4. UNCHANGED baseline \/ (now - baseline > 0 /\ speed = 0 /\ baseline' = now)
        BY <2>2 DEF Measure, NothingOwed, Paused, TooFarBehind, StartDelivery, Owed
      <3>5. UNCHANGED engine
        BY <2>2 DEF Measure
      <3> QED
        <4>1. now - baseline > 0 => now > baseline
          BY <3>3
        <4> QED
          BY <3>1, <3>2, <3>4, <3>5, <4>1
    <2>3. ASSUME NEW p \in Procs, Deliver(p) PROVE [Paced!Next]_(Paced!vars)
      <3> DEFINE chunk == Least(left, RealChunk(speed))
      <3>1. left > 0 /\ speed > 0
        BY <2>3 DEF Deliver, IInv, Delivering
      <3>2. CASE UNCHANGED <<baseline, engine>>
        BY <2>1, <3>2
      <3>3. CASE CanElapse(chunk) /\ Elapse(chunk)
        <4>1. /\ chunk \in Nat /\ 0 < chunk
              /\ 100 * elapsed' + carry' = 100 * elapsed + carry + chunk * speed
          BY <3>1, <3>3, ChunkFacts, ElapseFacts DEF IInv
        <4>2. baseline' = baseline + chunk /\ speed' = speed
          BY <3>3 DEF Elapse
        <4> HIDE DEF chunk
        <4>3. baseline' - baseline = chunk /\ baseline' > baseline
          BY <4>1, <4>2, DriverConstants DEF IInv, TypeOK
        <4> QED
          BY <4>1, <4>2, <4>3 DEF Paced!Next, Paced!Settle
      <3> QED
        BY <2>3, <3>2, <3>3 DEF Deliver
    <2>4. ASSUME NEW p \in Callers, Apply(p) PROVE [Paced!Next]_(Paced!vars)
      <3>1. UNCHANGED <<baseline, elapsed, carry>>
        BY <2>4 DEF Apply
      <3>2. IInv'
        BY <2>4, ApplyKeepsIInv
      <3>3. speed' \in 0 .. MaxSpeed
        BY <3>2 DEF IInv, TypeOK
      <3> QED
        BY <3>1, <3>3 DEF Paced!Next, Paced!ChangeSpeed
    <2> Runner \in Procs /\ Callers \subseteq Procs
      BY DEF Procs
    <2>5. CASE \/ UNCHANGED vars \/ ClockMoves \/ RunStarts \/ Tick \/ RunCancelled
               \/ TickerClosed \/ RunReturns
               \/ \E p \in Procs : Cancel(p) \/ Acquire(p)
               \/ \E p \in Callers : Call(p) \/ Refuse(p)
      BY <2>1, <2>5
      DEF vars, ClockMoves, Cancel, Call, Refuse, Acquire, RunStarts, Tick, RunCancelled,
          TickerClosed, RunReturns
    <2> QED
      BY <2>2, <2>3, <2>4, <2>5 DEF Next, Run, Command, Settlement
  <1> QED
    BY <1>1, <1>2, Invariance, PTL DEF Spec, PacesExactly, Paced!Spec
-------------------------------------------------------------------------------
(***************************************************************************)
(* Rejections after a settlement.                                          *)
(***************************************************************************)

\* While a command holds the mutex, what its checks found stays true: nobody
\* else changes the engine, and a settlement changes neither fleet nor stations.
Checked ==
    /\ OnlyReservedIdSettles
    /\ stations \in [StationIds -> Nat \cup {Removed}]
    /\ moved => mu # Free
    /\ \A p \in Callers :
          pc[p] \in Holding => ~InputInvalid(cmd[p]) /\ ~PrecheckFails(cmd[p])

\* The checks look at the command and at the stations only.
LEMMA ChecksAreStable ==
    ASSUME UNCHANGED stations, NEW p \in Callers, UNCHANGED cmd
    PROVE  /\ InputInvalid(cmd[p])' = InputInvalid(cmd[p])
           /\ PrecheckFails(cmd[p])' = PrecheckFails(cmd[p])
  <1>1. Active' = Active
    BY DEF Active, ActiveIn
  <1> QED
    BY <1>1 DEF InputInvalid, PrecheckFails, Full

\* Steps after which nobody holds the mutex that did not hold it before, for
\* the same command.
LEMMA NoNewHolder ==
    ASSUME Checked, UNCHANGED <<stations, lateRejects>>, moved' => mu' # Free,
           \A p \in Callers : pc'[p] \in Holding => pc[p] \in Holding /\ cmd'[p] = cmd[p]
    PROVE  Checked'
  <1>1. ASSUME NEW p \in Callers, pc'[p] \in Holding
        PROVE  ~InputInvalid(cmd[p])' /\ ~PrecheckFails(cmd[p])'
    <2>1. cmd'[p] = cmd[p] /\ Active' = Active
      BY <1>1 DEF Active, ActiveIn
    <2>2. ~InputInvalid(cmd[p]) /\ ~PrecheckFails(cmd[p])
      BY <1>1 DEF Checked
    <2> QED
      BY <2>1, <2>2 DEF InputInvalid, PrecheckFails, Full
  <1>2. OnlyReservedIdSettles'
    BY DEF Checked, OnlyReservedIdSettles
  <1> QED
    BY <1>1, <1>2 DEF Checked, Holding

\* Every step keeps to it.
LEMMA NextKeepsChecked == IInv /\ Checked /\ [Next]_vars => Checked'
  <1> SUFFICES ASSUME IInv, Checked, [Next]_vars PROVE Checked'
    OBVIOUS
  <1> Runner \in Procs /\ Callers \subseteq Procs /\ Runner \notin Callers
    BY DriverConstants DEF Procs
  <1>types. /\ pc \in [Procs -> {"idle", "loop", "waiting", "settle", "deliver", "apply",
                                "leaving", "returned"}]
            /\ cmd \in [Callers -> Commands \cup {NoCommand}]
            /\ Free \notin Procs
    BY DriverConstants DEF IInv, TypeOK
  <1>holder. \A q \in Procs : pc[q] \in Holding <=> mu = q
    BY DEF IInv, MutexHeld
  <1>1. CASE \/ ClockMoves \/ (\E p \in Procs : Cancel(p))
             \/ RunStarts \/ Tick \/ RunCancelled \/ TickerClosed \/ RunReturns
    <2>1. \A q \in Callers : pc'[q] = pc[q]
      BY <1>1, <1>types
      DEF ClockMoves, Cancel, RunStarts, Tick, RunCancelled, TickerClosed, RunReturns, calls
    <2>2. UNCHANGED <<stations, lateRejects, moved, mu, cmd>>
      BY <1>1
      DEF ClockMoves, Cancel, RunStarts, Tick, RunCancelled, TickerClosed, RunReturns, calls, engine
    <2> QED
      BY <2>1, <2>2, NoNewHolder DEF Checked
  <1>2. ASSUME NEW p \in Callers, Call(p) PROVE Checked'
    <2>1. \A q \in Callers : pc'[q] \in Holding => pc[q] \in Holding /\ cmd'[q] = cmd[q]
      BY <1>2, <1>types DEF Call, Holding
    <2>2. UNCHANGED <<stations, lateRejects, moved, mu>>
      BY <1>2 DEF Call, engine
    <2> QED
      BY <2>1, <2>2, NoNewHolder DEF Checked
  <1>3. ASSUME NEW p \in Procs, NEW outcome, Fails(p, outcome), UNCHANGED stations,
               outcome = "rejected" => ~moved
        PROVE  Checked'
    <2>1. UNCHANGED lateRejects /\ moved' = FALSE
      BY <1>3 DEF Fails, RunEnds, Return
    <2>2. \A q \in Callers : pc'[q] \in Holding => pc[q] \in Holding /\ cmd'[q] = cmd[q]
      BY <1>3, <1>types DEF Fails, RunEnds, Return, Holding, Procs
    <2> QED
      BY <1>3, <2>1, <2>2, NoNewHolder
  <1>4. ASSUME NEW p \in Procs, NEW delivered, mu = p, Settled(p, delivered), UNCHANGED stations
        PROVE  Checked'
    <2>1. \A q \in Callers : pc'[q] \in Holding => pc[q] \in Holding /\ cmd'[q] = cmd[q]
      BY <1>4, <1>types, <1>holder DEF Settled, Holding
    <2>2. moved' => mu' # Free
      BY <1>4, <1>types DEF Settled
    <2> QED
      BY <1>4, <2>1, <2>2, NoNewHolder DEF Settled
  <1>5. ASSUME NEW p \in Callers, Refuse(p) PROVE Checked'
    <2>1. Fails(p, Refusal(p)) /\ UNCHANGED stations /\ ~moved
      BY <1>5 DEF Refuse, Fails, Checked, engine
    <2> QED
      BY <1>3, <2>1
  <1>6. ASSUME NEW p \in Procs, Acquire(p) PROVE Checked'
    <2>1. /\ UNCHANGED <<stations, lateRejects, cmd, moved>>
          /\ mu' = p
          /\ \A q \in Callers : pc'[q] = IF q = p THEN "settle" ELSE pc[q]
      BY <1>6, <1>types DEF Acquire, engine
    <2>2. p \in Callers => ~InputInvalid(cmd[p]) /\ ~PrecheckFails(cmd[p])
      BY <1>6 DEF Acquire, Refusal
    <2>3. ASSUME NEW q \in Callers, pc'[q] \in Holding
          PROVE  ~InputInvalid(cmd[q])' /\ ~PrecheckFails(cmd[q])'
      <3>1. ~InputInvalid(cmd[q]) /\ ~PrecheckFails(cmd[q])
        BY <2>1, <2>2, <2>3 DEF Checked
      <3> QED
        BY <2>1, <3>1, ChecksAreStable
    <2> QED
      BY <1>types, <2>1, <2>3 DEF Checked, OnlyReservedIdSettles, Holding
  <1>7. ASSUME NEW p \in Procs, Measure(p) PROVE Checked'
    <2>1. mu = p /\ UNCHANGED stations
      BY <1>7, <1>holder DEF Measure, Holding, engine
    <2>2. CASE Fails(p, "cancelled") \/ Fails(p, "failed")
      BY <1>3, <2>1, <2>2
    <2>3. CASE Settled(p, FALSE)
      BY <1>4, <2>1, <2>3
    <2>4. CASE StartDelivery(p)
      <3>1. \A q \in Callers : pc'[q] \in Holding => pc[q] \in Holding /\ cmd'[q] = cmd[q]
        BY <1>7, <1>types, <2>4 DEF StartDelivery, Measure, Holding
      <3> QED
        BY <2>1, <2>4, <3>1, NoNewHolder DEF StartDelivery, Checked
    <2> QED
      BY <1>7, <2>2, <2>3, <2>4 DEF Measure, NothingOwed, Paused, TooFarBehind
  <1>8. ASSUME NEW p \in Procs, Deliver(p) PROVE Checked'
    <2> DEFINE chunk == Least(left, RealChunk(speed))
    <2>1. mu = p /\ UNCHANGED stations
      BY <1>8, <1>holder DEF Deliver, Elapse, Holding, engine
    <2>2. CASE Fails(p, "cancelled") \/ Fails(p, "failed")
      BY <1>3, <2>1, <2>2
    <2>3. CASE Settled(p, TRUE)
      BY <1>4, <2>1, <2>3
    <2>4. CASE UNCHANGED <<mu, calls, result, lateRejects>>
      BY <1>types, <2>1, <2>4, NoNewHolder DEF calls
    <2> QED
      BY <1>8, <2>2, <2>3, <2>4 DEF Deliver
  <1>9. ASSUME NEW p \in Callers, Apply(p) PROVE Checked'
    <2>1. pc[p] = "apply" /\ mu = p /\ ~InputInvalid(cmd[p]) /\ ~PrecheckFails(cmd[p])
      BY <1>9, <1>holder DEF Apply, Holding, Checked
    <2>2. PICK outcome : /\ Return(p, outcome)
                         /\ outcome = "rejected" => EngineRejects(cmd[p])
      BY <1>9 DEF Apply
    <2>3. cmd[p] \in CommandType
      BY <2>1, DriverConstants DEF IInv, Holding, OwnSteps
    <2>4. ASSUME EngineRejects(cmd[p])
          PROVE  /\ cmd[p].op = "AddStation"
                 /\ cmd[p].ok
                 /\ stations[cmd[p].id] = Removed
                 /\ ~Full(stations)
      <3>1. /\ cmd[p].op = "AddStation"
            /\ cmd[p].ok
            /\ cmd[p].id \notin Active
            /\ ~Full(stations)
            /\ stations[cmd[p].id] # Unused
        BY <2>1, <2>4 DEF EngineRejects, PrecheckFails, InputInvalid
      <3>2. cmd[p].id \in StationIds /\ stations[cmd[p].id] = Removed
        BY <2>3, <3>1 DEF CommandType, Active, ActiveIn, Checked, Unused, Removed
      <3> QED
        BY <3>1, <3>2
    <2>5. OnlyReservedIdSettles'
      <3>1. \/ lateRejects' = lateRejects
            \/ /\ outcome = "rejected"
               /\ lateRejects' = lateRejects \cup {[cmd |-> cmd[p], stations |-> stations]}
        BY <2>2 DEF Return
      <3>2. ASSUME NEW r \in lateRejects'
            PROVE  /\ r.cmd.op = "AddStation"
                   /\ r.cmd.ok
                   /\ r.stations[r.cmd.id] = Removed
                   /\ ~Full(r.stations)
        <4>1. CASE r \in lateRejects
          BY <4>1 DEF Checked, OnlyReservedIdSettles
        <4>2. CASE r \notin lateRejects
          <5>1. outcome = "rejected" /\ r.cmd = cmd[p] /\ r.stations = stations
            BY <3>1, <3>2, <4>2
          <5> QED
            BY <2>2, <2>4, <5>1
        <4> QED
          BY <4>1, <4>2
      <3> QED
        BY <3>2 DEF OnlyReservedIdSettles, Full, ActiveIn
    <2>6. stations' \in [StationIds -> Nat \cup {Removed}]
      <3>1. stations \in [StationIds -> Nat \cup {Removed}]
        BY DEF Checked
      <3>2. CASE \/ UNCHANGED stations \/ AddStation(cmd[p]) \/ RemoveStation(cmd[p])
        BY <3>1, <3>2 DEF AddStation, RemoveStation
      <3>3. CASE ~EngineRejects(cmd[p]) /\ UpdateStation(cmd[p])
        <4>1. cmd[p].id \in Active /\ cmd[p].id \in StationIds
          BY <2>3, <3>3 DEF EngineRejects, UpdateStation, CommandType
        <4>2. stations[cmd[p].id] + 1 \in Nat
          BY <3>1, <4>1 DEF Active, ActiveIn, Removed
        <4> QED
          BY <3>1, <3>3, <4>2 DEF UpdateStation
      <3> QED
        BY <1>9, <3>2, <3>3 DEF Apply, SetCount, SetSpeed, engine
    <2>7. \A q \in Callers : pc'[q] \notin Holding
      BY <1>types, <1>holder, <2>1, <2>2 DEF Return, Holding
    <2> QED
      BY <2>2, <2>5, <2>6, <2>7 DEF Return, Checked
  <1>10. CASE UNCHANGED vars
    BY <1>10, NoNewHolder DEF vars, calls, engine, Checked
  <1> QED
    BY <1>1, <1>2, <1>5, <1>6, <1>7, <1>8, <1>9, <1>10
    DEF Next, Run, Command, Settlement

\* A command that is rejected after time was settled for it is a valid creation,
\* with room for it, under a removed station's identifier: all else that the engine
\* rejects, the driver has found before, under the same mutex.
THEOREM OnlyCreationsSettle == Spec => []OnlyReservedIdSettles
  <1>1. Init => Checked
    BY DriverConstants DEF Init, Checked, OnlyReservedIdSettles, Holding, Procs, Unused
  <1>2. Checked => OnlyReservedIdSettles
    BY DEF Checked
  <1> QED
    BY <1>1, <1>2, NextKeepsChecked, Invariance, PTL DEF Spec
===============================================================================
