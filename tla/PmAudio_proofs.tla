--------------------------- MODULE PmAudio_proofs ----------------------------
(***************************************************************************)
(* For any number of tasks and samples, and whatever falls between the     *)
(* load and the store of the power lock's count: the count covers its      *)
(* holders and deep sleep never comes under a transfer or a sample, unless *)
(* a sample has ended in the middle of audio_stop.                         *)
(***************************************************************************)
EXTENDS PmAudio, FiniteSetTheorems, TLAPS

\* A task is at a label of what it is there for.
SpiLabels   == {"idle", "lock", "inc", "wait", "unlock", "dec"}
AudioLabels == {"idle", "lock", "inc", "enable", "unlock", "dec", "halt"}

Uses ==
  \A t \in Tasks :
    /\ use[t] = "spi" => pc[t] \in SpiLabels
    /\ use[t] # "spi" => pc[t] \in AudioLabels /\ t \in Players
    /\ use[t] = "stop" => pc[t] \notin {"lock", "inc", "enable"}
    /\ use[t] = "play" /\ pc[t] # "idle" => plays < MaxPlays

\* The owner of pm_mutex is between its load and its store; the owner of the bus is in
\* a transfer.
Owners ==
  \A t \in Tasks :
    /\ pm_mutex = t <=> pc[t] \in {"inc", "dec"}
    /\ bus = t <=> use[t] = "spi" /\ pc[t] # "idle"

\* The peripherals work for somebody, and the player starts no sample over another.
Peripherals ==
  /\ irq => sample
  /\ dma => \E t \in Tasks : use[t] = "spi" /\ pc[t] \in {"lock", "inc", "wait"}
  /\ \A t \in Tasks : use[t] # "spi" /\ pc[t] \in {"lock", "inc", "enable"} => ~sample

\* The count with the holders on the bus, of whom there is at most one.
Holding(t) == use[t] = "spi" /\ pc[t] \in {"wait", "unlock", "dec"}
SpiCount == IF \E t \in Tasks : Holding(t) THEN 1 ELSE 0

\* The count covers the holders, and so does a value that is about to be stored.  When
\* the sample has ended since audio_stop loaded the count, the value is one too large.
Count ==
  ~raced =>
    /\ lock >= SpiCount + AudioHolders /\ ~panic
    /\ \A t \in Tasks :
         /\ pc[t] \in {"inc", "dec"} => loaded[t] >= lock
         /\ use[t] # "spi" /\ pc[t] = "unlock" => sample
         /\ use[t] # "spi" /\ pc[t] = "dec" /\ ~sample => loaded[t] >= lock + 1

\* Before the first sample, the count is exact.
First ==
  plays = 0 =>
    /\ ~sample /\ lock = SpiCount + AudioHolders
    /\ \A t \in Tasks :
         /\ pc[t] \in {"inc", "dec"} => loaded[t] = lock
         /\ use[t] # "spi" => pc[t] \in {"idle", "lock", "inc", "enable"}

Places == Uses /\ Owners /\ Peripherals
IInv == TypeOK /\ Places /\ Count /\ First

-----------------------------------------------------------------------------
\* At most one task is in a transfer, and at most one plays.
LEMMA OneHolder ==
  ASSUME Owners
  PROVE  Cardinality(SpiHolders) = SpiCount
<1>1. \A s, t \in Tasks : Holding(s) /\ Holding(t) => s = t
  BY DEF Holding, Owners
<1>2. SpiHolders = {t \in Tasks : Holding(t)}
  BY DEF SpiHolders, Holding
<1>3. CASE \E t \in Tasks : Holding(t)
  <2>1. PICK t \in Tasks : Holding(t)
    BY <1>3
  <2>2. SpiHolders = {t}
    BY <1>1, <1>2, <2>1
  <2> QED
    BY <1>3, <2>2, FS_Singleton DEF SpiCount
<1>4. CASE ~ \E t \in Tasks : Holding(t)
  BY <1>2, <1>4, FS_EmptySet DEF SpiCount
<1> QED
  BY <1>3, <1>4

LEMMA InitInv == Init => IInv
<1> SUFFICES ASSUME Init PROVE IInv
  OBVIOUS
<1>1. TypeOK
  <2>1. TaskTypes
    <3>1. /\ pm_mutex = Nobody
          /\ pc = [t \in Tasks |-> "idle"] /\ use = [t \in Tasks |-> "spi"]
          /\ loaded = [t \in Tasks |-> 0]
      BY DEF Init
    <3> QED
      BY <3>1 DEF TaskTypes, Labels
  <2>2. AudioTypes
    <3>1. sample \in BOOLEAN /\ loop \in BOOLEAN /\ irq \in BOOLEAN
      BY DEF Init
    <3>2. length = 0 /\ remaining = 0 /\ buffers = 0 /\ plays = 0
      BY DEF Init
    <3> QED
      BY <3>1, <3>2, AudioAssumption DEF AudioTypes
  <2>3. lock = 0 /\ bus = Nobody /\ mode = "awake"
    BY DEF Init
  <2>4. dma \in BOOLEAN /\ panic \in BOOLEAN /\ raced \in BOOLEAN
    BY DEF Init
  <2> QED
    BY <2>1, <2>2, <2>3, <2>4 DEF TypeOK
<1>2. Uses /\ Owners /\ Peripherals
  <2>1. Uses
    BY DEF Init, Uses, SpiLabels
  <2>2. Owners
    BY TasksAssumption DEF Init, Owners
  <2> QED
    BY <2>1, <2>2 DEF Init, Peripherals
<1>3. SpiCount = 0 /\ AudioHolders = 0
  BY DEF Init, SpiCount, Holding, AudioHolders, Giving
<1> QED
  BY <1>1, <1>2, <1>3 DEF Init, IInv, Places, Count, First

-----------------------------------------------------------------------------
\* Types.
LEMMA TypeInv == TypeOK /\ Uses /\ [Next]_vars => TypeOK'
<1> SUFFICES ASSUME TypeOK, Uses, [Next]_vars PROVE TypeOK'
  OBVIOUS
<1>0. UNCHANGED taskVars => TaskTypes'
  BY DEF TypeOK, TaskTypes, taskVars
<1>00. UNCHANGED audioVars => AudioTypes'
  BY DEF TypeOK, AudioTypes, audioVars
<1>1. ASSUME NEW t \in Tasks, SpiStart(t) \/ SpiWoken(t) PROVE TypeOK'
  <2>1. TaskTypes'
    BY <1>1 DEF TypeOK, TaskTypes, Labels, SpiStart, SpiWoken, Enter, GoTo
  <2>2. bus' \in Tasks \cup {Nobody} /\ dma' \in BOOLEAN
    BY <1>1 DEF TypeOK, SpiStart, SpiWoken, spiVars
  <2> QED
    BY <1>1, <1>00, <2>1, <2>2 DEF TypeOK, SpiStart, SpiWoken
<1>2. ASSUME NEW t \in Tasks, PlayCalled(t) \/ StopCalled(t) PROVE TypeOK'
  <2>1. \E l \in {"lock", "unlock"}, u \in {"play", "stop"} : Enter(t, u, l)
    BY <1>2 DEF PlayCalled, StopCalled
  <2>2. UNCHANGED <<lock, pm_mutex, loaded, bus, dma, audioVars, mode, panic, raced>>
    BY <1>2 DEF PlayCalled, StopCalled, spiVars
  <2>3. TaskTypes'
    BY <2>1, <2>2 DEF TypeOK, TaskTypes, Labels, Enter
  <2> QED
    BY <1>00, <2>2, <2>3 DEF TypeOK
<1>3. ASSUME NEW t \in Tasks, _audio_stop(t) PROVE TypeOK'
  <2>1. TaskTypes'
    BY <1>3 DEF TypeOK, TaskTypes, Labels, _audio_stop, GoTo
  <2>2. AudioTypes'
    <3>1. sample' \in BOOLEAN /\ irq' \in BOOLEAN /\ loop' = loop
      BY <1>3 DEF _audio_stop
    <3>2. buffers' = 0 /\ UNCHANGED <<length, remaining, plays>>
      BY <1>3 DEF _audio_stop
    <3> QED
      BY <3>1, <3>2 DEF TypeOK, AudioTypes
  <2> QED
    BY <1>3, <2>1, <2>2 DEF TypeOK, _audio_stop, spiVars
<1>4. ASSUME NEW t \in Tasks, NEW n \in Lengths, NEW l \in BOOLEAN, audio_play(t, n, l)
      PROVE  TypeOK'
  <2>1. n \in Nat \ {0}
    BY AudioAssumption
  <2>2. plays' \in 0 .. MaxPlays
    BY <1>4, AudioAssumption DEF audio_play, At, Uses, SpiLabels, TypeOK, TaskTypes, AudioTypes
  <2>3. AudioTypes'
    BY <1>4, <2>1, <2>2 DEF audio_play, AudioTypes
  <2>4. TaskTypes'
    BY <1>4 DEF TypeOK, TaskTypes, Labels, audio_play, GoTo
  <2> QED
    BY <1>4, <2>3, <2>4 DEF TypeOK, audio_play, spiVars
<1>5. ASSUME NEW t \in Tasks, PmLoad(t) PROVE TypeOK'
  <2>1. TaskTypes'
    BY <1>5 DEF TypeOK, TaskTypes, Labels, PmLoad, GoTo
  <2> QED
    BY <1>5, <1>00, <2>1 DEF TypeOK, PmLoad, spiVars
<1>6. ASSUME NEW t \in Tasks, pm_lock(t) \/ pm_unlock(t) PROVE TypeOK'
  <2>1. TaskTypes' /\ lock' \in Int
    BY <1>6 DEF TypeOK, TaskTypes, Labels, pm_lock, pm_unlock, GoTo
  <2>2. /\ bus' \in Tasks \cup {Nobody} /\ UNCHANGED <<dma, audioVars, mode, raced>>
    BY <1>6 DEF TypeOK, pm_lock, pm_unlock, spiVars
  <2>3. panic' \in BOOLEAN
    <3>1. CASE pm_lock(t)
      BY <3>1 DEF pm_lock, TypeOK
    <3>2. CASE pm_unlock(t)
      <4>1. panic' = (lock' < 0)
        BY <3>2 DEF pm_unlock
      <4> QED
        BY <4>1
    <3> QED
      BY <1>6, <3>1, <3>2
  <2> QED
    BY <1>00, <2>1, <2>2, <2>3 DEF TypeOK
<1>7. ASSUME AudioIsrRefill PROVE TypeOK'
  <2>1. AudioTypes'
    BY <1>7 DEF TypeOK, AudioTypes, AudioIsrRefill, Refill, Rewound
  <2> QED
    BY <1>0, <1>7, <2>1 DEF TypeOK, AudioIsrRefill, spiVars
<1>8. ASSUME audio_stop_isr PROVE TypeOK'
  <2>1. AudioTypes'
    <3>1. sample' \in BOOLEAN /\ irq' \in BOOLEAN /\ loop' = loop
      BY <1>8 DEF audio_stop_isr
    <3>2. buffers' = 0 /\ UNCHANGED <<length, remaining, plays>>
      BY <1>8 DEF audio_stop_isr
    <3> QED
      BY <3>1, <3>2 DEF TypeOK, AudioTypes
  <2>2. lock' \in Int /\ panic' \in BOOLEAN
    BY <1>8 DEF TypeOK, audio_stop_isr
  <2>3. raced' \in BOOLEAN
    BY <1>8, Zenon DEF audio_stop_isr
  <2>4. mode' = "awake" /\ UNCHANGED <<taskVars, bus, dma>>
    BY <1>8 DEF audio_stop_isr, spiVars
  <2> QED
    BY <1>0, <2>1, <2>2, <2>3, <2>4 DEF TypeOK
<1>9. ASSUME SPIIsr_Handler \/ Wake \/ vApplicationIdleHook PROVE TypeOK'
  BY <1>0, <1>00, <1>9 DEF TypeOK, SPIIsr_Handler, Wake, vApplicationIdleHook, spiVars
<1>10. CASE UNCHANGED vars
  BY <1>0, <1>00, <1>10 DEF TypeOK, vars, spiVars
<1> QED
  BY <1>1, <1>2, <1>3, <1>4, <1>5, <1>6, <1>7, <1>8, <1>9, <1>10 DEF Next, Task, Interrupt

-----------------------------------------------------------------------------
\* Every task keeps to its labels, its mutexes and its peripherals.
LEMMA PlacesInv ==
  ASSUME TypeOK, Places, [Next]_vars
  PROVE  Places'
<1> USE DEF Places
<1>0. /\ pc \in [Tasks -> Labels] /\ use \in [Tasks -> {"spi", "play", "stop"}]
      /\ Nobody \notin Tasks /\ \A s, t \in Players : s = t
  BY TasksAssumption, OnePlayer DEF TypeOK, TaskTypes
<1>1. ASSUME NEW t \in Tasks, SpiStart(t) PROVE Places'
  <2>1. /\ pc[t] = "idle" /\ bus = Nobody /\ bus' = t /\ dma' = TRUE
        /\ pc' = [pc EXCEPT ![t] = "lock"] /\ use' = [use EXCEPT ![t] = "spi"]
        /\ UNCHANGED <<pm_mutex, sample, irq, plays>>
    BY <1>1 DEF SpiStart, At, Enter, audioVars
  <2> QED
    BY <1>0, <2>1 DEF Uses, Owners, Peripherals, SpiLabels, AudioLabels
<1>2. ASSUME NEW t \in Tasks, SpiWoken(t) PROVE Places'
  <2>1. /\ pc[t] = "wait" /\ ~dma /\ pc' = [pc EXCEPT ![t] = "unlock"]
        /\ UNCHANGED <<pm_mutex, use, bus, dma, sample, irq, plays>>
    BY <1>2 DEF SpiWoken, At, GoTo, audioVars, spiVars
  <2> QED
    BY <1>0, <2>1 DEF Uses, Owners, Peripherals, SpiLabels, AudioLabels
<1>3. ASSUME NEW t \in Tasks, PlayCalled(t) PROVE Places'
  <2>1. /\ pc[t] = "idle" /\ t \in Players /\ plays < MaxPlays
        /\ pc' = [pc EXCEPT ![t] = IF sample THEN "unlock" ELSE "lock"]
        /\ use' = [use EXCEPT ![t] = "play"]
        /\ UNCHANGED <<pm_mutex, bus, dma, sample, irq, plays>>
    BY <1>3 DEF PlayCalled, At, Enter, audioVars, spiVars
  <2> QED
    BY <1>0, <2>1 DEF Uses, Owners, Peripherals, SpiLabels, AudioLabels
<1>4. ASSUME NEW t \in Tasks, StopCalled(t) PROVE Places'
  <2>1. /\ pc[t] = "idle" /\ t \in Players /\ sample
        /\ pc' = [pc EXCEPT ![t] = "unlock"] /\ use' = [use EXCEPT ![t] = "stop"]
        /\ UNCHANGED <<pm_mutex, bus, dma, sample, irq, plays>>
    BY <1>4 DEF StopCalled, At, Enter, audioVars, spiVars
  <2> QED
    BY <1>0, <2>1 DEF Uses, Owners, Peripherals, SpiLabels, AudioLabels
<1>5. ASSUME NEW t \in Tasks, _audio_stop(t) PROVE Places'
  <2>1. /\ pc[t] = "halt" /\ irq' = FALSE /\ sample' = FALSE
        /\ pc' = [pc EXCEPT ![t] = IF use[t] = "play" THEN "lock" ELSE "idle"]
        /\ UNCHANGED <<pm_mutex, use, bus, dma, plays>>
    BY <1>5 DEF _audio_stop, At, GoTo, spiVars
  <2> QED
    BY <1>0, <2>1 DEF Uses, Owners, Peripherals, SpiLabels, AudioLabels
<1>6. ASSUME NEW t \in Tasks, NEW n \in Lengths, NEW l \in BOOLEAN, audio_play(t, n, l)
      PROVE  Places'
  <2>1. /\ pc[t] = "enable" /\ irq' = TRUE /\ sample' = TRUE
        /\ pc' = [pc EXCEPT ![t] = "idle"]
        /\ UNCHANGED <<pm_mutex, use, bus, dma>>
    BY <1>6 DEF audio_play, At, GoTo, spiVars
  <2>2. use[t] = "play" /\ t \in Players
    BY <1>0, <2>1 DEF Uses, SpiLabels
  <2>3. \A s \in Tasks : use[s] # "spi" => s = t
    BY <1>0, <2>2 DEF Uses
  <2> QED
    BY <1>0, <2>1, <2>2, <2>3 DEF Uses, Owners, Peripherals, SpiLabels, AudioLabels
<1>7. ASSUME NEW t \in Tasks, PmLoad(t) PROVE Places'
  <2>1. /\ pc[t] \in {"lock", "unlock"} /\ pm_mutex = Nobody /\ pm_mutex' = t
        /\ pc' = [pc EXCEPT ![t] = IF pc[t] = "lock" THEN "inc" ELSE "dec"]
        /\ UNCHANGED <<use, bus, dma, sample, irq, plays>>
    BY <1>7 DEF PmLoad, MutexFree, At, GoTo, audioVars, spiVars
  <2> QED
    BY <1>0, <2>1 DEF Uses, Owners, Peripherals, SpiLabels, AudioLabels
<1>8. ASSUME NEW t \in Tasks, pm_lock(t) PROVE Places'
  <2>1. /\ pc[t] = "inc" /\ pm_mutex' = Nobody
        /\ pc' = [pc EXCEPT ![t] = IF use[t] = "spi" THEN "wait" ELSE "enable"]
        /\ UNCHANGED <<use, bus, dma, sample, irq, plays>>
    BY <1>8 DEF pm_lock, At, GoTo, audioVars, spiVars
  <2> QED
    BY <1>0, <2>1 DEF Uses, Owners, Peripherals, SpiLabels, AudioLabels
<1>9. ASSUME NEW t \in Tasks, pm_unlock(t) PROVE Places'
  <2>1. /\ pc[t] = "dec" /\ pm_mutex' = Nobody
        /\ pc' = [pc EXCEPT ![t] = IF use[t] = "spi" THEN "idle" ELSE "halt"]
        /\ bus' = IF use[t] = "spi" THEN Nobody ELSE bus
        /\ UNCHANGED <<use, dma, sample, irq, plays>>
    BY <1>9 DEF pm_unlock, At, GoTo, audioVars
  <2> QED
    BY <1>0, <2>1 DEF Uses, Owners, Peripherals, SpiLabels, AudioLabels
<1>10. ASSUME Interrupt \/ vApplicationIdleHook \/ UNCHANGED vars PROVE Places'
  <2>1. UNCHANGED <<pm_mutex, pc, use, bus, plays>>
    BY <1>10 DEF Interrupt, SPIIsr_Handler, AudioIsrRefill, audio_stop_isr, Wake,
       vApplicationIdleHook, vars, taskVars, spiVars, audioVars
  <2>2. \/ sample' = FALSE /\ irq' = FALSE
        \/ UNCHANGED <<sample, irq>>
    BY <1>10 DEF Interrupt, SPIIsr_Handler, AudioIsrRefill, audio_stop_isr, Wake,
       vApplicationIdleHook, vars, audioVars
  <2>3. dma' = FALSE \/ dma' = dma
    BY <1>10 DEF Interrupt, SPIIsr_Handler, AudioIsrRefill, audio_stop_isr, Wake,
       vApplicationIdleHook, vars, spiVars
  <2> QED
    BY <2>1, <2>2, <2>3 DEF Uses, Owners, Peripherals
<1> QED
  BY <1>1, <1>2, <1>3, <1>4, <1>5, <1>6, <1>7, <1>8, <1>9, <1>10 DEF Next, Task

-----------------------------------------------------------------------------
\* The count.  What a step does to the holders follows from where its task is.
LEMMA CountInv ==
  ASSUME IInv, [Next]_vars
  PROVE  Count' /\ First'
<1> USE DEF IInv, Places
<1>0. /\ pc \in [Tasks -> Labels] /\ use \in [Tasks -> {"spi", "play", "stop"}]
      /\ loaded \in [Tasks -> Int] /\ lock \in Int /\ plays \in Nat
      /\ Nobody \notin Tasks /\ \A s, t \in Players : s = t
  BY TasksAssumption, OnePlayer DEF TypeOK, TaskTypes, AudioTypes
<1>a. SpiCount \in {0, 1} /\ AudioHolders \in {0, 1}
  BY DEF SpiCount, AudioHolders
<1>1. ASSUME NEW t \in Tasks, SpiStart(t) PROVE Count' /\ First'
  <2>1. /\ pc[t] = "idle" /\ bus = Nobody /\ bus' = t
        /\ pc' = [pc EXCEPT ![t] = "lock"] /\ use' = [use EXCEPT ![t] = "spi"]
        /\ UNCHANGED <<lock, loaded, sample, plays, panic, raced>>
    BY <1>1 DEF SpiStart, At, Enter, audioVars
  <2>2. SpiCount' = SpiCount
    BY <1>0, <2>1 DEF SpiCount, Holding
  <2>3. AudioHolders' = AudioHolders
    BY <1>0, <2>1 DEF AudioHolders, Giving
  <2>4. Count'
    BY <1>0, <2>1, <2>2, <2>3 DEF Count
  <2>5. First'
    BY <1>0, <2>1, <2>2, <2>3 DEF First
  <2> QED
    BY <2>4, <2>5
<1>2. ASSUME NEW t \in Tasks, SpiWoken(t) PROVE Count' /\ First'
  <2>1. /\ pc[t] = "wait" /\ pc' = [pc EXCEPT ![t] = "unlock"] /\ use[t] = "spi"
        /\ UNCHANGED <<lock, loaded, use, sample, plays, panic, raced>>
    BY <1>0, <1>2 DEF SpiWoken, At, GoTo, audioVars, Uses, AudioLabels
  <2>2. SpiCount' = SpiCount
    BY <1>0, <2>1 DEF SpiCount, Holding
  <2>3. AudioHolders' = AudioHolders
    BY <1>0, <2>1 DEF AudioHolders, Giving
  <2>4. Count'
    BY <1>0, <2>1, <2>2, <2>3 DEF Count
  <2>5. First'
    BY <1>0, <2>1, <2>2, <2>3 DEF First
  <2> QED
    BY <2>4, <2>5
<1>3. ASSUME NEW t \in Tasks, PlayCalled(t) \/ StopCalled(t) PROVE Count' /\ First'
  <2>1. /\ pc[t] = "idle" /\ \A s \in Tasks : s # t => use[s] = "spi"
        /\ \E l \in {"lock", "unlock"}, u \in {"play", "stop"} :
             /\ l = "unlock" => sample
             /\ pc' = [pc EXCEPT ![t] = l] /\ use' = [use EXCEPT ![t] = u]
        /\ UNCHANGED <<lock, loaded, sample, plays, panic, raced>>
    BY <1>0, <1>3 DEF PlayCalled, StopCalled, At, Enter, audioVars, Uses
  <2>2. SpiCount' = SpiCount
    BY <1>0, <2>1 DEF SpiCount, Holding
  <2>3. AudioHolders' = AudioHolders
    BY <1>0, <2>1 DEF AudioHolders, Giving
  <2>4. Count'
    BY <1>0, <2>1, <2>2, <2>3 DEF Count
  <2>5. First'
    BY <1>0, <2>1, <2>2, <2>3 DEF First
  <2> QED
    BY <2>4, <2>5
<1>4. ASSUME NEW t \in Tasks, _audio_stop(t) PROVE Count' /\ First'
  <2>1. /\ pc[t] = "halt" /\ sample' = FALSE
        /\ pc' = [pc EXCEPT ![t] = IF use[t] = "play" THEN "lock" ELSE "idle"]
        /\ UNCHANGED <<lock, loaded, use, plays, panic, raced>>
    BY <1>4 DEF _audio_stop, At, GoTo
  <2>2. use[t] # "spi" /\ \A s \in Tasks : s # t => use[s] = "spi"
    BY <1>0, <2>1 DEF Uses, SpiLabels
  <2>3. \A s \in Tasks : pc[s] # "enable" /\ (s # t => pc[s] # "halt")
    BY <1>0, <2>1, <2>2 DEF Uses, SpiLabels
  <2>4. SpiCount' = SpiCount
    BY <1>0, <2>1, <2>2 DEF SpiCount, Holding
  <2>5. AudioHolders' = 0 /\ AudioHolders = 0
    BY <1>0, <2>1, <2>3 DEF AudioHolders, Giving
  <2>6. Count'
    BY <1>0, <2>1, <2>2, <2>4, <2>5 DEF Count
  <2>7. First'
    BY <1>0, <2>1, <2>2, <2>4, <2>5 DEF First
  <2> QED
    BY <2>6, <2>7
<1>5. ASSUME NEW t \in Tasks, NEW n \in Lengths, NEW l \in BOOLEAN, audio_play(t, n, l)
      PROVE  Count' /\ First'
  <2>1. /\ pc[t] = "enable" /\ sample' = TRUE /\ pc' = [pc EXCEPT ![t] = "idle"]
        /\ plays' = plays + 1
        /\ UNCHANGED <<lock, loaded, use, panic, raced>>
    BY <1>5 DEF audio_play, At, GoTo
  <2>2. use[t] # "spi" /\ \A s \in Tasks : s # t => use[s] = "spi"
    BY <1>0, <2>1 DEF Uses, SpiLabels
  <2>3. \A s \in Tasks : pc[s] # "halt"
    BY <1>0, <2>1, <2>2 DEF Uses, SpiLabels
  <2>4. SpiCount' = SpiCount
    BY <1>0, <2>1, <2>2 DEF SpiCount, Holding
  <2>5. AudioHolders' = 1 /\ AudioHolders = 1
    BY <1>0, <2>1, <2>3 DEF AudioHolders, Giving
  <2>6. Count'
    BY <1>0, <2>1, <2>2, <2>4, <2>5 DEF Count
  <2>7. First'
    BY <1>0, <2>1 DEF First
  <2> QED
    BY <2>6, <2>7
<1>6. ASSUME NEW t \in Tasks, PmLoad(t) PROVE Count' /\ First'
  <2>1. /\ pc[t] \in {"lock", "unlock"} /\ pm_mutex = Nobody
        /\ pc' = [pc EXCEPT ![t] = IF pc[t] = "lock" THEN "inc" ELSE "dec"]
        /\ loaded' = [loaded EXCEPT ![t] = lock]
        /\ UNCHANGED <<lock, use, sample, plays, panic, raced>>
    BY <1>6 DEF PmLoad, MutexFree, At, GoTo, audioVars
  <2>2. \A s \in Tasks : pc[s] \notin {"inc", "dec"}
    BY <1>0, <2>1 DEF Owners
  <2>3. SpiCount' = SpiCount
    BY <1>0, <2>1 DEF SpiCount, Holding
  <2>4. AudioHolders' = AudioHolders
    BY <1>0, <2>1 DEF AudioHolders, Giving
  <2>5. Count'
    BY <1>0, <2>1, <2>2, <2>3, <2>4 DEF Count
  <2>6. First'
    BY <1>0, <2>1, <2>2, <2>3, <2>4 DEF First
  <2> QED
    BY <2>5, <2>6
<1>7. ASSUME NEW t \in Tasks, pm_lock(t) PROVE Count' /\ First'
  <2>1. /\ pc[t] = "inc" /\ lock' = loaded[t] + 1
        /\ pc' = [pc EXCEPT ![t] = IF use[t] = "spi" THEN "wait" ELSE "enable"]
        /\ UNCHANGED <<loaded, use, sample, plays, panic, raced>>
    BY <1>7 DEF pm_lock, At, GoTo, audioVars
  <2>2. \A s \in Tasks : s # t => pc[s] \notin {"inc", "dec"}
    BY <1>0, <2>1 DEF Owners
  <2>3. CASE use[t] = "spi"
    <3>1. \A s \in Tasks : s # t => ~Holding(s)
      BY <1>0, <2>1, <2>3 DEF Owners, Holding
    <3>2. SpiCount = 0 /\ SpiCount' = 1
      BY <1>0, <2>1, <2>3, <3>1 DEF SpiCount, Holding
    <3>3. AudioHolders' = AudioHolders
      BY <1>0, <2>1, <2>3 DEF AudioHolders, Giving
    <3>4. Count'
      BY <1>0, <1>a, <2>1, <2>2, <2>3, <3>2, <3>3 DEF Count
    <3>5. First'
      BY <1>0, <1>a, <2>1, <2>2, <2>3, <3>2, <3>3 DEF First
    <3> QED
      BY <3>4, <3>5
  <2>4. CASE use[t] # "spi"
    <3>1. \A s \in Tasks : s # t => use[s] = "spi"
      BY <1>0, <2>4 DEF Uses
    <3>2. ~sample /\ \A s \in Tasks : pc[s] # "enable" /\ pc[s] # "halt"
      BY <1>0, <2>1, <2>4, <3>1 DEF Uses, Peripherals, SpiLabels
    <3>3. AudioHolders = 0 /\ AudioHolders' = 1
      BY <1>0, <2>1, <2>4, <3>2 DEF AudioHolders, Giving
    <3>4. SpiCount' = SpiCount
      BY <1>0, <2>1, <2>4 DEF SpiCount, Holding
    <3>5. Count'
      BY <1>0, <1>a, <2>1, <2>2, <2>4, <3>3, <3>4 DEF Count
    <3>6. First'
      BY <1>0, <1>a, <2>1, <2>2, <2>4, <3>3, <3>4 DEF First
    <3> QED
      BY <3>5, <3>6
  <2> QED
    BY <2>3, <2>4
<1>8. ASSUME NEW t \in Tasks, pm_unlock(t) PROVE Count' /\ First'
  <2>1. /\ pc[t] = "dec" /\ lock' = loaded[t] - 1 /\ panic' = (lock' < 0)
        /\ pc' = [pc EXCEPT ![t] = IF use[t] = "spi" THEN "idle" ELSE "halt"]
        /\ UNCHANGED <<loaded, use, sample, plays, raced>>
    BY <1>8 DEF pm_unlock, At, GoTo, audioVars
  <2>2. \A s \in Tasks : s # t => pc[s] \notin {"inc", "dec"}
    BY <1>0, <2>1 DEF Owners
  <2>3. CASE use[t] = "spi"
    <3>1. \A s \in Tasks : s # t => ~Holding(s)
      BY <1>0, <2>1, <2>3 DEF Owners, Holding
    <3>2. SpiCount = 1 /\ SpiCount' = 0
      BY <1>0, <2>1, <2>3, <3>1 DEF SpiCount, Holding
    <3>3. AudioHolders' = AudioHolders
      BY <1>0, <2>1, <2>3 DEF AudioHolders, Giving
    <3>4. ~raced => lock' >= SpiCount' + AudioHolders' /\ ~panic'
      <4>1. ~raced => loaded[t] >= lock /\ lock >= 1 + AudioHolders
        BY <2>1, <3>2 DEF Count
      <4>2. ~raced => lock' >= AudioHolders /\ ~(lock' < 0)
        BY ONLY <1>0, <1>a, <2>1, <4>1
      <4>3. SpiCount' + AudioHolders' = AudioHolders
        BY ONLY <1>a, <3>2, <3>3
      <4>4. panic' = (lock' < 0)
        BY <2>1
      <4> QED
        BY ONLY <4>2, <4>3, <4>4
    <3>5. Count'
      BY <1>0, <2>1, <2>2, <2>3, <3>4 DEF Count
    <3>6. First'
      BY <1>0, <1>a, <2>1, <2>2, <2>3, <3>2, <3>3 DEF First
    <3> QED
      BY <3>5, <3>6
  <2>4. CASE use[t] # "spi"
    <3>1. \A s \in Tasks : s # t => use[s] = "spi"
      BY <1>0, <2>4 DEF Uses
    <3>2. \A s \in Tasks : pc[s] # "enable" /\ pc[s] # "halt"
      BY <1>0, <2>1, <3>1 DEF Uses, SpiLabels
    <3>3. AudioHolders = (IF sample THEN 1 ELSE 0) /\ AudioHolders' = 0
      BY <1>0, <2>1, <2>4, <3>2 DEF AudioHolders, Giving
    <3>4. SpiCount' = SpiCount
      BY <1>0, <2>1, <2>4 DEF SpiCount, Holding
    <3>5. ~raced => lock' >= SpiCount' + AudioHolders' /\ ~panic'
      <4>1. ~raced => /\ loaded[t] >= lock /\ lock >= SpiCount + AudioHolders
                      /\ ~sample => loaded[t] >= lock + 1
        BY <2>1, <2>4 DEF Count
      <4>2. ~raced => lock' >= SpiCount /\ ~(lock' < 0)
        BY ONLY <1>0, <1>a, <2>1, <3>3, <4>1
      <4>3. SpiCount' + AudioHolders' = SpiCount
        BY ONLY <1>a, <3>3, <3>4
      <4>4. panic' = (lock' < 0)
        BY <2>1
      <4> QED
        BY ONLY <4>2, <4>3, <4>4
    <3>6. Count'
      BY <1>0, <2>1, <2>2, <2>4, <3>5 DEF Count
    <3>7. First'
      BY <1>0, <2>1, <2>4 DEF First
    <3> QED
      BY <3>6, <3>7
  <2> QED
    BY <2>3, <2>4
<1>9. ASSUME audio_stop_isr PROVE Count' /\ First'
  <2>1. /\ irq /\ sample /\ lock' = lock - 1 /\ panic' = (lock' < 0) /\ sample' = FALSE
        /\ UNCHANGED <<pc, use, loaded, plays>>
    BY <1>9 DEF audio_stop_isr, taskVars, Peripherals
  <2>2. ~raced' => ~raced /\ \A t \in Tasks : ~Stopping(t)
    BY <1>9, Zenon DEF audio_stop_isr
  <2>3. plays # 0
    BY <2>1 DEF First
  <2>4. SpiCount' = SpiCount
    BY <2>1 DEF SpiCount, Holding
  <2>5. \A s \in Tasks : pc[s] # "enable"
    BY <1>0, <2>1 DEF Uses, Peripherals, SpiLabels
  <2>6. AudioHolders' = 0
    BY <2>1, <2>5 DEF AudioHolders, Giving
  <2>7. ASSUME ~raced'
        PROVE  /\ lock' >= SpiCount' + AudioHolders' /\ ~panic'
               /\ \A t \in Tasks :
                    /\ pc[t] \in {"inc", "dec"} => loaded[t] >= lock
                    /\ use[t] # "spi" => pc[t] # "unlock"
    <3>1. ~raced /\ \A t \in Tasks : ~Stopping(t)
      BY <2>2, <2>7
    <3>2. \A t \in Tasks : pc[t] # "halt" /\ (use[t] # "spi" => pc[t] # "unlock")
      BY <1>0, <2>1, <3>1 DEF Stopping, Uses, SpiLabels
    <3>3. AudioHolders = 1
      BY <2>1, <3>2 DEF AudioHolders, Giving
    <3>4. lock >= SpiCount + 1
      BY <3>1, <3>3 DEF Count
    <3>5. lock' >= SpiCount /\ ~(lock' < 0)
      BY ONLY <1>0, <1>a, <2>1, <3>4
    <3>6. lock' >= SpiCount' + AudioHolders' /\ ~panic'
      <4>1. SpiCount' + AudioHolders' = SpiCount
        BY ONLY <1>a, <2>4, <2>6
      <4>2. panic' = (lock' < 0)
        BY <2>1
      <4> QED
        BY ONLY <3>5, <4>1, <4>2
    <3>7. \A t \in Tasks : pc[t] \in {"inc", "dec"} => loaded[t] >= lock
      BY <3>1 DEF Count
    <3> QED
      BY <3>2, <3>6, <3>7
  <2>8. Count'
    BY <1>0, <2>1, <2>7 DEF Count
  <2> QED
    BY <2>1, <2>3, <2>8 DEF First
<1>10. ASSUME SPIIsr_Handler \/ AudioIsrRefill \/ Wake \/ vApplicationIdleHook \/ UNCHANGED vars
       PROVE  Count' /\ First'
  <2>1. UNCHANGED <<lock, pc, use, loaded, sample, plays, panic, raced>>
    BY <1>10 DEF SPIIsr_Handler, AudioIsrRefill, Wake, vApplicationIdleHook, vars, taskVars,
       audioVars
  <2>2. SpiCount' = SpiCount /\ AudioHolders' = AudioHolders
    BY <2>1 DEF SpiCount, Holding, AudioHolders, Giving
  <2> QED
    BY <2>1, <2>2 DEF Count, First
<1> QED
  BY <1>1, <1>2, <1>3, <1>4, <1>5, <1>6, <1>7, <1>8, <1>9, <1>10 DEF Next, Task, Interrupt

LEMMA Invariant == Spec => []IInv
<1>1. IInv /\ [Next]_vars => IInv'
  BY TypeInv, PlacesInv, CountInv DEF IInv, Places
<1> QED
  BY InitInv, <1>1, PTL DEF Spec

-----------------------------------------------------------------------------
\* Every variable keeps its type.
THEOREM TypeCorrect == Spec => []TypeOK
<1>1. IInv => TypeOK
  BY DEF IInv
<1> QED
  BY <1>1, Invariant, PTL

\* The count of the power lock covers its holders and is not negative, and it is exact
\* before the first sample, unless a sample has ended in the middle of audio_stop.
THEOREM CountAlwaysCovers == Spec => []CountCovers
<1>1. IInv => CountCovers
  <2> SUFFICES ASSUME IInv PROVE CountCovers
    OBVIOUS
  <2>1. Holders = SpiCount + AudioHolders
    BY OneHolder DEF IInv, Places, Holders
  <2> QED
    BY <2>1 DEF IInv, Count, First, CountCovers
<1> QED
  BY <1>1, Invariant, PTL

\* Deep sleep never comes under a DMA transfer or a sample, with the same exception:
\* when every task is blocked, whoever uses a peripheral holds the lock.
THEOREM DeepSleepAlwaysSafe == Spec => DeepSleepIsSafe
<1> DEFINE Safe == mode' = "deep" /\ mode # "deep" => raced \/ (~dma /\ ~irq)
<1>1. IInv /\ [Next]_vars => [Safe]_vars
  <2> SUFFICES ASSUME IInv, Next, mode' = "deep", mode # "deep", ~raced
               PROVE  ~dma /\ ~irq
    BY DEF vars
  <2>1. vApplicationIdleHook
    BY DEF Next, Task, Interrupt, SpiStart, SpiWoken, PlayCalled, StopCalled, _audio_stop,
       audio_play, PmLoad, pm_lock, pm_unlock, SPIIsr_Handler, AudioIsrRefill, audio_stop_isr, Wake
  <2>2. lock = 0 /\ \A t \in Tasks : Blocked(t)
    BY <2>1 DEF vApplicationIdleHook, DeepSleep
  <2>3. \A t \in Tasks : pc[t] \in {"idle", "wait"}
    BY <2>2 DEF Blocked
  <2>4. lock >= SpiCount + AudioHolders
    BY DEF IInv, Count
  <2>5. SpiCount \in {0, 1} /\ AudioHolders \in {0, 1}
    BY DEF SpiCount, AudioHolders
  <2>6. SpiCount = 0 /\ AudioHolders = 0
    BY <2>2, <2>4, <2>5
  <2>7. ~dma
    BY <2>3, <2>6 DEF IInv, Places, Peripherals, SpiCount, Holding
  <2>8. ~irq
    BY <2>3, <2>6 DEF IInv, Places, Peripherals, AudioHolders, Giving
  <2> QED
    BY <2>7, <2>8
<1> QED
  BY <1>1, Invariant, PTL DEF Spec, DeepSleepIsSafe
=============================================================================
