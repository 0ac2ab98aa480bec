---------------------------- MODULE FileEndProofs ----------------------------
(* Proofs about the end of the work in FileCrypt: where the end mark can be,     *)
(* who is there to wake a task that sleeps, what is left behind, and what the     *)
(* output holds when the write task reports it.                                  *)
EXTENDS FileCryptProofs, DataInduction

EndIn(blocks) == \E i \in 1 .. Len(blocks) : blocks[i].end

(* The loops of crypt and write have ended. *)
CryptLeft == pc["crypt"] \in {"close", "return", "ended"}
WriteLeft == pc["write"] \in {"return", "ended"}

(* What a task that waits knows, and what is known of it. *)
KnowEachOther ==
    /\ pc["read"] \in ReadPc \ {"new", "queued", "flag", "return", "ended"} =>
           prevStatus["crypt"]
    /\ pc["read"] \in {"check", "park", "asleep"} => nextStatus["read"]
    /\ nextStatus["read"] => pc["crypt"] \notin {"new", "queued"}
    /\ pc["crypt"] \in CryptPc \ {"new", "queued", "flag", "return", "ended"} =>
           prevStatus["write"]
    /\ pc["crypt"] \in {"check", "park", "asleep"} => nextStatus["crypt"]
    /\ nextStatus["crypt"] => pc["write"] \notin {"new", "queued"}

(* The end mark comes when all has been read, and a task that has seen it leaves. *)
AllRead == totalRead >= dataBytes /\ pc["read"] \notin {"new", "queued"}
MarkUpstream == EndIn(hand["read"]) \/ EndIn(datas["crypt"]) \/ EndIn(hand["crypt"])
MarkTravels ==
    /\ MarkUpstream => AllRead
    /\ CryptLeft /\ "throw" \notin faults => AllRead
    /\ EndIn(datas["write"]) => CryptLeft
    /\ WriteLeft /\ "openOut" \notin faults => CryptLeft

EndInv == ChainInv /\ KnowEachOther /\ MarkTravels

------------------------------------------------------------------------------
LEMMA InitEndInv == Init => EndInv
  <1> SUFFICES ASSUME Init PROVE EndInv
    OBVIOUS
  <1>1. KnowEachOther
    BY DEF Init, KnowEachOther, Tasks
  <1>2. MarkTravels
    <2>1. \A t \in Tasks : ~EndIn(hand[t]) /\ ~EndIn(datas[t]) /\ pc[t] = "new"
      BY DEF Init, EndIn, Tasks
    <2> QED BY <2>1 DEF MarkTravels, MarkUpstream, CryptLeft, WriteLeft, Tasks
  <1> QED BY <1>1, <1>2, InitChainInv DEF EndInv

(* A flag is set before its owner waits, and reset when it has left its loop.     *)
LEMMA KnowStep ==
    ASSUME EndInv, [Next]_vars
    PROVE  KnowEachOther'
  <1> USE DEF EndInv, ChainInv, TypeOK, Tasks, ReadPc, CryptPc, WritePc, KnowEachOther
  <1>1. ASSUME NEW t \in Tasks, AddTask(t) PROVE KnowEachOther'
    BY <1>1 DEF AddTask, Step, Advance, env, reader, output, flags, Down
  <1>2. ASSUME NEW t \in Tasks, Wait(t) PROVE KnowEachOther'
    BY <1>2 DEF Wait, Advance, env, reader, output, flags, Down
  <1>3. CASE ReadOpen
    BY <1>3, SMTT(30) DEF ReadOpen, Step, Return, env, output, flags
  <1>4. CASE ReadFlag
    BY <1>4 DEF ReadFlag, Step, env, reader, output
  <1>5. CASE ReadLoop
    BY <1>5 DEF ReadLoop, Step, env, reader, output, flags
  <1>6. CASE Gate("read")
    BY <1>6 DEF Gate, Step, AfterGate, env, reader, output, flags
  <1>7. CASE Check("read")
    BY <1>7 DEF Check, Step, AfterGate, env, reader, output, flags
  <1>8. CASE Park("read")
    BY <1>8 DEF Park, Step, env, reader, output, flags
  <1>9. CASE Fetch
    BY <1>9, SMTT(30) DEF Fetch, Step, env, output, flags
  <1>10. CASE ReadPush
    BY <1>10 DEF ReadPush, Step, PushBack, env, reader, output, flags
  <1>11. CASE ReadClose
    BY <1>11 DEF ReadClose, Step, env, reader, output
  <1>12. CASE ReadReturn
    BY <1>12 DEF ReadReturn, Step, Return, env, reader, output, flags
  <1>13. CASE CryptEnter
    BY <1>13 DEF CryptEnter, Step, env, reader, output
  <1>14. CASE CryptFlag
    BY <1>14 DEF CryptFlag, Step, env, reader, output
  <1>15. CASE Status("crypt")
    BY <1>15 DEF Status, Step, AfterNotify, env, reader, output, flags
  <1>16. CASE Count("crypt")
    BY <1>16 DEF Count, Step, AfterNotify, env, reader, output, flags
  <1>17. CASE Notify("crypt")
    BY <1>17 DEF Notify, Up, AfterNotify, env, reader, output, flags
  <1>18. CASE Gate("crypt")
    BY <1>18 DEF Gate, Step, AfterGate, env, reader, output, flags
  <1>19. CASE Check("crypt")
    BY <1>19 DEF Check, Step, AfterGate, env, reader, output, flags
  <1>20. CASE Park("crypt")
    BY <1>20 DEF Park, Step, env, reader, output, flags
  <1>21. CASE PopNothing("crypt")
    BY <1>21 DEF PopNothing, Step, env, reader, output, flags
  <1>22. CASE CryptPop
    BY <1>22 DEF CryptPop, Step, env, reader, output, flags
  <1>23. CASE CryptWork
    BY <1>23, SMTT(30) DEF CryptWork, Step, PushBack, env, reader, flags
  <1>24. CASE CryptClose
    BY <1>24 DEF CryptClose, Step, env, reader, output
  <1>25. CASE CryptReturn
    BY <1>25 DEF CryptReturn, Step, Return, env, reader, output, flags
  <1>26. CASE WriteEnter
    BY <1>26 DEF WriteEnter, Step, env, reader, output
  <1>27. CASE WriteOpen
    BY <1>27, SMTT(30) DEF WriteOpen, Step, Return, env, reader, output, flags
  <1>28. CASE Status("write")
    BY <1>28 DEF Status, Step, AfterNotify, env, reader, output, flags
  <1>29. CASE Count("write")
    BY <1>29 DEF Count, Step, AfterNotify, env, reader, output, flags
  <1>30. CASE Notify("write")
    BY <1>30 DEF Notify, Up, AfterNotify, env, reader, output, flags
  <1>31. CASE PopNothing("write")
    BY <1>31 DEF PopNothing, Step, env, reader, output, flags
  <1>32. CASE WritePop
    BY <1>32, SMTT(30) DEF WritePop, Step, env, reader, flags
  <1>33. CASE WriteReturn
    BY <1>33 DEF WriteReturn, Step, Return, env, reader, output, flags
  <1>34. ASSUME NEW t \in {"read", "crypt"}, SpuriousWake(t) PROVE KnowEachOther'
    BY <1>34 DEF SpuriousWake, Step, env, reader, output, flags
  <1>35. ASSUME NEW t \in {"read", "crypt"}, Throw(t) PROVE KnowEachOther'
    BY <1>35, SMTT(30) DEF Throw, Step, env, reader, output, flags
  <1>36. CASE Resize
    BY <1>36 DEF Resize, reader, output, flags
  <1>37. CASE StopPool
    BY <1>37 DEF StopPool, reader, output, flags
  <1>38. CASE UNCHANGED vars
    BY <1>38 DEF vars, env, reader, output, flags
  <1> QED
    BY <1>1, <1>2, <1>3, <1>4, <1>5, <1>6, <1>7, <1>8, <1>9, <1>10,
       <1>11, <1>12, <1>13, <1>14, <1>15, <1>16, <1>17, <1>18, <1>19, <1>20,
       <1>21, <1>22, <1>23, <1>24, <1>25, <1>26, <1>27, <1>28, <1>29, <1>30,
       <1>31, <1>32, <1>33, <1>34, <1>35, <1>36, <1>37, <1>38
    DEF Next, Main, Read, Crypt, Write, Outside
(* The mark goes from hand to list to hand; Fetch puts it on the block with which *)
(* all has been read, and who takes it leaves its loop.                          *)
LEMMA MarkFacts ==
    /\ ~EndIn(<<>>)
    /\ \A block \in Blocks : EndIn(<<block>>) <=> block.end
    /\ \A blocks \in Seq(Blocks), block \in Blocks :
           EndIn(Append(blocks, block)) <=> EndIn(blocks) \/ block.end
    /\ \A blocks \in Seq(Blocks) : blocks # <<>> =>
           (EndIn(blocks) <=> Head(blocks).end \/ EndIn(Tail(blocks)))
  <1>1. ~EndIn(<<>>)
    BY DEF EndIn
  <1>2. ASSUME NEW block \in Blocks PROVE EndIn(<<block>>) <=> block.end
    <2>1. Len(<<block>>) = 1 /\ <<block>>[1] = block
      OBVIOUS
    <2>2. \A i \in 1 .. 1 : i = 1
      OBVIOUS
    <2> QED BY <2>1, <2>2 DEF EndIn
  <1>3. ASSUME NEW blocks \in Seq(Blocks), NEW block \in Blocks
        PROVE  EndIn(Append(blocks, block)) <=> EndIn(blocks) \/ block.end
    <2>1. Len(Append(blocks, block)) = Len(blocks) + 1 /\ Len(blocks) \in Nat
      OBVIOUS
    <2>2. Append(blocks, block)[Len(blocks) + 1] = block
      OBVIOUS
    <2>3. \A i \in 1 .. Len(blocks) : Append(blocks, block)[i] = blocks[i]
      OBVIOUS
    <2>4. \A i \in 1 .. Len(blocks) + 1 : i \in 1 .. Len(blocks) \/ i = Len(blocks) + 1
      BY <2>1
    <2>5. Len(blocks) + 1 \in 1 .. Len(blocks) + 1 /\ 1 .. Len(blocks) \subseteq 1 .. Len(blocks) + 1
      BY <2>1
    <2> QED BY <2>1, <2>2, <2>3, <2>4, <2>5, Zenon DEF EndIn
  <1>4. ASSUME NEW blocks \in Seq(Blocks), blocks # <<>>
        PROVE  EndIn(blocks) <=> Head(blocks).end \/ EndIn(Tail(blocks))
    <2>1. /\ Len(blocks) \in Nat /\ Len(blocks) >= 1 /\ Head(blocks) = blocks[1]
          /\ Len(Tail(blocks)) = Len(blocks) - 1
          /\ \A i \in 1 .. Len(Tail(blocks)) : Tail(blocks)[i] = blocks[i + 1]
      BY <1>4, HeadAndTail
    <2>2. ASSUME EndIn(blocks), ~Head(blocks).end PROVE EndIn(Tail(blocks))
      <3>1. PICK i \in 1 .. Len(blocks) : blocks[i].end
        BY <2>2 DEF EndIn
      <3>2. i - 1 \in 1 .. Len(Tail(blocks)) /\ (i - 1) + 1 = i
        BY <2>1, <2>2, <3>1
      <3> QED BY <2>1, <3>1, <3>2 DEF EndIn
    <2>3. ASSUME EndIn(Tail(blocks)) PROVE EndIn(blocks)
      <3>1. PICK i \in 1 .. Len(Tail(blocks)) : Tail(blocks)[i].end
        BY <2>3 DEF EndIn
      <3>2. i + 1 \in 1 .. Len(blocks)
        BY <2>1
      <3> QED BY <2>1, <3>1, <3>2 DEF EndIn
    <2>4. ASSUME Head(blocks).end PROVE EndIn(blocks)
      <3>1. 1 \in 1 .. Len(blocks)
        BY <2>1
      <3> QED BY <2>1, <2>4, <3>1 DEF EndIn
    <2> QED BY <2>2, <2>3, <2>4
  <1> QED BY <1>1, <1>2, <1>3, <1>4

LEMMA MarkStep ==
    ASSUME EndInv, [Next]_vars
    PROVE  MarkTravels'
  <1> USE DEF EndInv, ChainInv, TypeOK, Tasks, ReadPc, CryptPc, WritePc,
              MarkTravels, MarkUpstream, AllRead, CryptLeft, WriteLeft
  <1>1. ASSUME NEW t \in Tasks, AddTask(t) PROVE MarkTravels'
    BY <1>1 DEF AddTask, Step, Advance, env, reader, output, flags, Down
  <1>2. ASSUME NEW t \in Tasks, Wait(t) PROVE MarkTravels'
    BY <1>2 DEF Wait, Advance, env, reader, output, flags, Down
  <1>3. CASE ReadOpen
    <2>1. ~MarkUpstream /\ ~(CryptLeft /\ "throw" \notin faults)
      BY <1>3 DEF ReadOpen, Step
    <2>2. /\ UNCHANGED <<hand, datas, faults>>
          /\ pc'["crypt"] = pc["crypt"] /\ pc'["write"] = pc["write"]
      BY <1>3 DEF ReadOpen, Step, env
    <2> QED BY <2>1, <2>2
  <1>4. CASE ReadFlag
    BY <1>4 DEF ReadFlag, Step, env, reader, output
  <1>5. CASE ReadLoop
    BY <1>5 DEF ReadLoop, Step, env, reader, output, flags
  <1>6. CASE Gate("read")
    BY <1>6 DEF Gate, Step, AfterGate, env, reader, output, flags
  <1>7. CASE Check("read")
    BY <1>7 DEF Check, Step, AfterGate, env, reader, output, flags
  <1>8. CASE Park("read")
    BY <1>8 DEF Park, Step, env, reader, output, flags
  <1>9. CASE Fetch
    <2> DEFINE left == IF fileLen > totalRead THEN fileLen - totalRead ELSE 0
    <2> DEFINE got == IF left < ReadDataSize THEN left ELSE ReadDataSize
    <2>1. /\ pc["read"] = "fetch"
          /\ pc' = [pc EXCEPT !["read"] = IF got = 0 THEN "close" ELSE "push"]
          /\ UNCHANGED <<datas, dataBytes, faults>>
      BY <1>9 DEF Fetch, Step, env
    <2>2. got \in Nat
      <3>1. ReadDataSize \in Nat
        BY SizeAssumption
      <3>2. fileLen \in Nat /\ totalRead \in Nat
        OBVIOUS
      <3> QED BY <3>1, <3>2
    <2>3. CASE got = 0
      <3>1. UNCHANGED <<hand, totalRead>>
        BY <1>9, <2>3 DEF Fetch
      <3> QED BY <2>1, <3>1
    <2>4. CASE got # 0
      <3> DEFINE block == NewData(chunks + 1, got, ReachedEnd(totalRead + got))
      <3>1. hand' = [hand EXCEPT !["read"] = <<block>>] /\ totalRead' = totalRead + got
        BY <1>9, <2>4 DEF Fetch
      <3>2. block \in Blocks /\ (block.end <=> totalRead + got = dataBytes)
        <4>1. chunks + 1 \in Nat \ {0} /\ got \in Nat \ {0}
          BY <2>2, <2>4
        <4> HIDE DEF got, left
        <4> QED BY <4>1, Zenon DEF NewData, ReachedEnd, Blocks
      <3> HIDE DEF got, left, block
      <3>3. hand'["read"] = <<block>> /\ hand'["crypt"] = hand["crypt"]
        BY <3>1
      <3>4. EndIn(hand'["read"]) => totalRead' >= dataBytes'
        BY <2>1, <2>2, <3>1, <3>2, <3>3, MarkFacts
      <3>5. totalRead' >= totalRead
        BY <2>2, <3>1
      <3>6. pc["read"] = "fetch" /\ pc'["read"] \in {"close", "push"}
            /\ pc'["crypt"] = pc["crypt"] /\ pc'["write"] = pc["write"]
        BY <2>1
      <3>7. EndIn(datas["crypt"]) \/ EndIn(hand["crypt"]) => totalRead >= dataBytes
        OBVIOUS
      <3>8. dataBytes' = dataBytes /\ dataBytes \in Nat /\ totalRead \in Nat /\ totalRead' \in Nat
        BY <2>1, <2>2, <3>1
      <3>9. EndIn(datas'["crypt"]) \/ EndIn(hand'["crypt"]) => totalRead' >= dataBytes'
        BY <2>1, <3>3, <3>5, <3>7, <3>8
      <3>10. AllRead => AllRead'
        <4>1. totalRead >= dataBytes => totalRead' >= dataBytes'
          BY <3>5, <3>8
        <4> QED BY <3>6, <4>1
      <3>11. MarkUpstream' => AllRead'
        BY <3>4, <3>6, <3>9
      <3> QED BY <2>1, <3>6, <3>10, <3>11
    <2> QED BY <2>3, <2>4
  <1>10. CASE ReadPush
    <2>1. hand["read"] # <<>> /\ hand["read"] \in Seq(Blocks) /\ Len(hand["read"]) <= 1
      BY <1>10 DEF ReadPush, Step, Hands
    <2>2. PICK block \in Blocks :
             block = Head(hand["read"]) /\ (EndIn(hand["read"]) <=> block.end)
      <3>1. /\ Len(hand["read"]) = 1 /\ Head(hand["read"]) \in Blocks
            /\ Head(hand["read"]) = hand["read"][1]
        BY <2>1, OneInHand
      <3>2. \A i \in 1 .. 1 : i = 1
        OBVIOUS
      <3> QED BY <3>1, <3>2 DEF EndIn
    <2>3. /\ datas'["crypt"] = Append(datas["crypt"], block) /\ datas'["write"] = datas["write"]
          /\ hand'["read"] = <<>> /\ hand'["crypt"] = hand["crypt"]
          /\ pc["read"] = "push" /\ pc' = [pc EXCEPT !["read"] = "loop"]
          /\ UNCHANGED <<totalRead, dataBytes, faults>>
      BY <1>10, <2>2 DEF ReadPush, Step, PushBack, reader, env
    <2>4. MarkUpstream' => MarkUpstream
      <3>1. datas["crypt"] \in Seq(Blocks)
        OBVIOUS
      <3>2. EndIn(Append(datas["crypt"], block)) <=> EndIn(datas["crypt"]) \/ block.end
        BY <3>1, MarkFacts
      <3>3. ~EndIn(<<>>)
        BY MarkFacts
      <3> QED BY <2>2, <2>3, <3>2, <3>3
    <2> QED BY <2>3, <2>4
  <1>11. CASE ReadClose
    BY <1>11 DEF ReadClose, Step, env, reader, output
  <1>12. CASE ReadReturn
    BY <1>12 DEF ReadReturn, Step, Return, env, reader, output, flags
  <1>13. CASE CryptEnter
    BY <1>13 DEF CryptEnter, Step, env, reader, output
  <1>14. CASE CryptFlag
    BY <1>14 DEF CryptFlag, Step, env, reader, output
  <1>15. CASE Status("crypt")
    BY <1>15 DEF Status, Step, AfterNotify, env, reader, output, flags
  <1>16. CASE Count("crypt")
    BY <1>16 DEF Count, Step, AfterNotify, env, reader, output, flags
  <1>17. CASE Notify("crypt")
    BY <1>17 DEF Notify, Up, AfterNotify, env, reader, output, flags
  <1>18. CASE Gate("crypt")
    BY <1>18 DEF Gate, Step, AfterGate, env, reader, output, flags
  <1>19. CASE Check("crypt")
    BY <1>19 DEF Check, Step, AfterGate, env, reader, output, flags
  <1>20. CASE Park("crypt")
    BY <1>20 DEF Park, Step, env, reader, output, flags
  <1>21. CASE PopNothing("crypt")
    BY <1>21 DEF PopNothing, Step, env, reader, output, flags
  <1>22. CASE CryptPop
    <2>1. /\ datas["crypt"] # <<>> /\ datas["crypt"] \in Seq(Blocks)
          /\ Head(datas["crypt"]) \in Blocks
      BY <1>22, HeadAndTail DEF CryptPop
    <2>2. /\ datas'["crypt"] = Tail(datas["crypt"]) /\ datas'["write"] = datas["write"]
          /\ hand'["crypt"] = <<Head(datas["crypt"])>> /\ hand'["read"] = hand["read"]
          /\ pc["crypt"] = "pop" /\ pc' = [pc EXCEPT !["crypt"] = "work"]
          /\ UNCHANGED <<totalRead, dataBytes, faults>>
      BY <1>22 DEF CryptPop, Step, reader, env
    <2>3. EndIn(hand'["crypt"]) \/ EndIn(datas'["crypt"]) => EndIn(datas["crypt"])
      <3>1. EndIn(hand'["crypt"]) <=> Head(datas["crypt"]).end
        BY <2>1, <2>2, MarkFacts, SMTT(30)
      <3>2. EndIn(datas["crypt"]) <=> Head(datas["crypt"]).end \/ EndIn(datas'["crypt"])
        BY <2>1, <2>2, MarkFacts, SMTT(30)
      <3> QED BY <3>1, <3>2
    <2>4. MarkUpstream' => MarkUpstream
      BY <2>2, <2>3
    <2> QED BY <2>2, <2>4
  <1>23. CASE CryptWork
    <2>1. hand["crypt"] # <<>> /\ hand["crypt"] \in Seq(Blocks) /\ Len(hand["crypt"]) <= 1
      BY <1>23 DEF CryptWork, Step, Hands
    <2> DEFINE block == Head(hand["crypt"])
    <2>2. block \in Blocks /\ (EndIn(hand["crypt"]) <=> block.end)
      <3>1. /\ Len(hand["crypt"]) = 1 /\ Head(hand["crypt"]) \in Blocks
            /\ Head(hand["crypt"]) = hand["crypt"][1]
        BY <2>1, OneInHand
      <3>2. \A i \in 1 .. 1 : i = 1
        OBVIOUS
      <3> QED BY <3>1, <3>2 DEF EndIn
    <2>3. PICK size \in CryptSizes(isEncrypt, block.len, block.end) :
             datas'["write"] = Append(datas["write"], [block EXCEPT !.size = size])
      BY <1>23 DEF CryptWork, PushBack
    <2>4. /\ datas'["crypt"] = datas["crypt"]
          /\ hand'["crypt"] = <<>> /\ hand'["read"] = hand["read"]
          /\ pc["crypt"] = "work"
          /\ pc' = [pc EXCEPT !["crypt"] = IF block.end THEN "close" ELSE "status"]
          /\ UNCHANGED <<totalRead, dataBytes, faults>>
      BY <1>23 DEF CryptWork, Step, PushBack, reader, env
    <2>5. EndIn(datas'["write"]) => EndIn(datas["write"]) \/ block.end
      <3>1. block.len \in Nat \ {0} /\ block.end \in BOOLEAN /\ isEncrypt \in BOOLEAN
        BY <2>2 DEF Blocks
      <3>2. size \in Nat
        BY <3>1, CryptSizesAreNat
      <3> DEFINE sized == [block EXCEPT !.size = size]
      <3>3. sized \in Blocks /\ sized.end = block.end
        BY <2>2, <3>2 DEF Blocks
      <3>4. datas["write"] \in Seq(Blocks) /\ datas'["write"] = Append(datas["write"], sized)
        BY <2>3
      <3> HIDE DEF sized, block
      <3>5. EndIn(Append(datas["write"], sized)) <=> EndIn(datas["write"]) \/ sized.end
        BY <3>3, <3>4, MarkFacts
      <3> QED BY <3>3, <3>4, <3>5
    <2> HIDE DEF block
    <2>6. MarkUpstream' => MarkUpstream
      BY <2>2, <2>4, MarkFacts
    <2>7. pc'["read"] = pc["read"] /\ pc'["write"] = pc["write"] /\ (CryptLeft' <=> block.end)
      BY <2>4
    <2>8. ~CryptLeft /\ (block.end => AllRead)
      BY <2>2, <2>4
    <2>9. AllRead' <=> AllRead
      BY <2>4, <2>7
    <2> QED BY <2>4, <2>5, <2>6, <2>7, <2>8, <2>9
  <1>24. CASE CryptClose
    BY <1>24 DEF CryptClose, Step, env, reader, output
  <1>25. CASE CryptReturn
    BY <1>25 DEF CryptReturn, Step, Return, env, reader, output, flags
  <1>26. CASE WriteEnter
    BY <1>26 DEF WriteEnter, Step, env, reader, output
  <1>27. CASE WriteOpen
    BY <1>27 DEF WriteOpen, Step, Return, env, reader, output, flags
  <1>28. CASE Status("write")
    BY <1>28 DEF Status, Step, AfterNotify, env, reader, output, flags
  <1>29. CASE Count("write")
    BY <1>29 DEF Count, Step, AfterNotify, env, reader, output, flags
  <1>30. CASE Notify("write")
    BY <1>30 DEF Notify, Up, AfterNotify, env, reader, output, flags
  <1>31. CASE PopNothing("write")
    BY <1>31 DEF PopNothing, Step, env, reader, output, flags
  <1>32. CASE WritePop
    <2>1. /\ datas["write"] # <<>> /\ datas["write"] \in Seq(Blocks)
          /\ Head(datas["write"]) \in Blocks
      BY <1>32, HeadAndTail DEF WritePop
    <2>2. /\ datas'["write"] = Tail(datas["write"]) /\ datas'["crypt"] = datas["crypt"]
          /\ pc["write"] = "pop"
          /\ pc' = [pc EXCEPT !["write"] = IF Head(datas["write"]).end THEN "return" ELSE "status"]
          /\ UNCHANGED <<hand, totalRead, dataBytes, faults>>
      BY <1>32 DEF WritePop, Step, reader, env
    <2>3. EndIn(datas'["write"]) \/ Head(datas["write"]).end => EndIn(datas["write"])
      BY <2>1, <2>2, MarkFacts
    <2>4. pc'["read"] = pc["read"] /\ pc'["crypt"] = pc["crypt"]
          /\ (WriteLeft' => Head(datas["write"]).end)
      BY <2>2
    <2> QED BY <2>2, <2>3, <2>4
  <1>33. CASE WriteReturn
    BY <1>33 DEF WriteReturn, Step, Return, env, reader, output, flags
  <1>34. ASSUME NEW t \in {"read", "crypt"}, SpuriousWake(t) PROVE MarkTravels'
    BY <1>34 DEF SpuriousWake, Step, env, reader, output, flags
  <1>35. ASSUME NEW t \in {"read", "crypt"}, Throw(t) PROVE MarkTravels'
    BY <1>35 DEF Throw, Step, env, reader, output, flags
  <1>36. CASE Resize
    BY <1>36 DEF Resize, reader, output, flags
  <1>37. CASE StopPool
    BY <1>37 DEF StopPool, reader, output, flags
  <1>38. CASE UNCHANGED vars
    BY <1>38 DEF vars, env, reader, output, flags
  <1> QED
    BY <1>1, <1>2, <1>3, <1>4, <1>5, <1>6, <1>7, <1>8, <1>9, <1>10,
       <1>11, <1>12, <1>13, <1>14, <1>15, <1>16, <1>17, <1>18, <1>19, <1>20,
       <1>21, <1>22, <1>23, <1>24, <1>25, <1>26, <1>27, <1>28, <1>29, <1>30,
       <1>31, <1>32, <1>33, <1>34, <1>35, <1>36, <1>37, <1>38
    DEF Next, Main, Read, Crypt, Write, Outside

(* EndInv is inductive. *)
THEOREM EndSafety == Spec => []EndInv
  <1>1. ASSUME EndInv, [Next]_vars PROVE EndInv'
    <2>1. ChainInv' 
      BY <1>1, TypeStep, HandsStep, OrderStep DEF EndInv, ChainInv
    <2> QED BY <1>1, <2>1, KnowStep, MarkStep DEF EndInv
  <1> QED BY InitEndInv, <1>1, PTL DEF Spec

(* SleeperHasNotifier, for every length, block size and bound and all faults but  *)
(* those the property names: whoever is needed to wake a task knows of it and is  *)
(* still at work (read_task.cc:57, crypt_task.cc:46-54, write_task.cc:51).        *)
THEOREM SleepersHaveNotifiers == Spec => []SleeperHasNotifier
  <1>1. EndInv => SleeperHasNotifier
    <2> SUFFICES ASSUME EndInv PROVE SleeperHasNotifier
      OBVIOUS
    <2> USE DEF EndInv, KnowEachOther, MarkTravels, Blocked, ReadPc, CryptPc
    <2>1. ASSUME Blocked("read"), totalRead < dataBytes, "throw" \notin faults
          PROVE  /\ prevStatus["crypt"]
                 /\ pc["crypt"] \notin {"new", "queued", "close", "return", "ended"}
      <3>1. ~(totalRead >= dataBytes)
        BY <2>1 DEF ChainInv, TypeOK
      <3>2. ~CryptLeft
        BY <2>1, <3>1 DEF AllRead
      <3>3. prevStatus["crypt"] /\ pc["crypt"] \notin {"new", "queued"}
        BY <2>1
      <3> QED BY <3>2, <3>3 DEF CryptLeft
    <2>2. ASSUME Blocked("crypt"), "openOut" \notin faults
          PROVE  prevStatus["write"] /\ pc["write"] \notin {"new", "queued", "return", "ended"}
      <3>1. ~CryptLeft
        BY <2>2 DEF CryptLeft
      <3>2. ~WriteLeft
        BY <2>2, <3>1
      <3>3. prevStatus["write"] /\ pc["write"] \notin {"new", "queued"}
        BY <2>2
      <3> QED BY <3>2, <3>3 DEF WriteLeft
    <2> QED BY <2>1, <2>2 DEF SleeperHasNotifier
  <1> QED BY <1>1, EndSafety, PTL

------------------------------------------------------------------------------
(* The end mark is on the last block that is read, so that nothing can be behind  *)
(* it when the write task has taken it.                                          *)
Calm == \A fault \in {"openOut", "throw", "resize", "resized"} : fault \notin faults

EndsAt(blocks, n) == \A i \in 1 .. Len(blocks) : blocks[i].end => blocks[i].no = n

MarkIsLast ==
    /\ pc["read"] \notin {"new", "queued", "ended"} => dataBytes = fileLen
    /\ MarkUpstream \/ EndIn(datas["write"]) \/ WriteLeft =>
           totalRead = fileLen /\ pc["read"] \notin {"new", "queued"}
    /\ EndsAt(hand["read"], chunks) /\ EndsAt(datas["crypt"], chunks)
    /\ EndsAt(hand["crypt"], chunks) /\ EndsAt(datas["write"], chunks)

NothingBehind ==
    WriteLeft => /\ hand["read"] = <<>> /\ datas["crypt"] = <<>>
                 /\ hand["crypt"] = <<>> /\ datas["write"] = <<>>

ReleaseInv ==
    /\ EndInv
    /\ datas["read"] = <<>> /\ hand["write"] = <<>>
    /\ Calm => MarkIsLast /\ NothingBehind

LEMMA LastFacts ==
    ASSUME NEW n \in Nat
    PROVE  /\ EndsAt(<<>>, n)
           /\ \A block \in Blocks : EndsAt(<<block>>, n) <=> (block.end => block.no = n)
           /\ \A blocks \in Seq(Blocks), block \in Blocks :
                  EndsAt(Append(blocks, block), n) <=>
                      EndsAt(blocks, n) /\ (block.end => block.no = n)
           /\ \A blocks \in Seq(Blocks) : blocks # <<>> =>
                  (EndsAt(blocks, n) => /\ Head(blocks).end => Head(blocks).no = n
                                        /\ EndsAt(Tail(blocks), n))
           /\ \A blocks \in Seq(Blocks) : ~EndIn(blocks) => EndsAt(blocks, n)
  <1>1. EndsAt(<<>>, n)
    BY DEF EndsAt
  <1>2. ASSUME NEW block \in Blocks PROVE EndsAt(<<block>>, n) <=> (block.end => block.no = n)
    <2>1. Len(<<block>>) = 1 /\ <<block>>[1] = block
      OBVIOUS
    <2>2. \A i \in 1 .. 1 : i = 1
      OBVIOUS
    <2> QED BY <2>1, <2>2 DEF EndsAt
  <1>3. ASSUME NEW blocks \in Seq(Blocks), NEW block \in Blocks
        PROVE  EndsAt(Append(blocks, block), n) <=>
                   EndsAt(blocks, n) /\ (block.end => block.no = n)
    <2>1. Len(Append(blocks, block)) = Len(blocks) + 1 /\ Len(blocks) \in Nat
      OBVIOUS
    <2>2. Append(blocks, block)[Len(blocks) + 1] = block
      OBVIOUS
    <2>3. \A i \in 1 .. Len(blocks) : Append(blocks, block)[i] = blocks[i]
      OBVIOUS
    <2>4. \A i \in 1 .. Len(blocks) + 1 : i \in 1 .. Len(blocks) \/ i = Len(blocks) + 1
      BY <2>1
    <2>5. Len(blocks) + 1 \in 1 .. Len(blocks) + 1 /\ 1 .. Len(blocks) \subseteq 1 .. Len(blocks) + 1
      BY <2>1
    <2> QED BY <2>1, <2>2, <2>3, <2>4, <2>5, Zenon DEF EndsAt
  <1>4. ASSUME NEW blocks \in Seq(Blocks), blocks # <<>>, EndsAt(blocks, n)
        PROVE  (Head(blocks).end => Head(blocks).no = n) /\ EndsAt(Tail(blocks), n)
    <2>1. /\ Len(blocks) \in Nat /\ Len(blocks) >= 1 /\ Head(blocks) = blocks[1]
          /\ Len(Tail(blocks)) = Len(blocks) - 1
          /\ \A i \in 1 .. Len(Tail(blocks)) : Tail(blocks)[i] = blocks[i + 1]
      BY <1>4, HeadAndTail
    <2>2. 1 \in 1 .. Len(blocks) /\ \A i \in 1 .. Len(Tail(blocks)) : i + 1 \in 1 .. Len(blocks)
      BY <2>1
    <2> QED BY <1>4, <2>1, <2>2 DEF EndsAt
  <1>5. ASSUME NEW blocks \in Seq(Blocks), ~EndIn(blocks) PROVE EndsAt(blocks, n)
    BY <1>5 DEF EndIn, EndsAt
  <1> QED BY <1>1, <1>2, <1>3, <1>4, <1>5

LEMMA EmptyIsEmpty ==
    ASSUME NEW blocks \in Seq(Blocks), Len(blocks) = 0
    PROVE  blocks = <<>>
  OBVIOUS

LEMMA InitReleaseInv == Init => ReleaseInv
  <1> SUFFICES ASSUME Init PROVE ReleaseInv
    OBVIOUS
  <1>1. /\ \A t \in Tasks : hand[t] = <<>> /\ datas[t] = <<>>
        /\ pc["read"] = "new" /\ pc["write"] = "new" /\ chunks = 0
    BY DEF Init, Tasks
  <1>2. MarkIsLast
    BY <1>1, MarkFacts, LastFacts DEF MarkIsLast, MarkUpstream, WriteLeft, Tasks
  <1>3. NothingBehind
    BY <1>1 DEF NothingBehind, WriteLeft
  <1> QED BY <1>1, <1>2, <1>3, InitEndInv DEF ReleaseInv, Tasks

(* A calm run stays as it is. *)
LEMMA CalmStep ==
    ASSUME [Next]_vars, Calm'
    PROVE  /\ Calm /\ UNCHANGED <<faults, fileLen>> /\ ~Resize
           /\ \A t \in Tasks : ~Throw(t)
  <1>1. ~Resize
    BY DEF Resize, Calm
  <1>2. UNCHANGED <<faults, fileLen>>
    <2>1. CASE Main
      BY <2>1 DEF Main, AddTask, Wait, env
    <2>2. CASE Read
      BY <2>2 DEF Read, ReadOpen, ReadFlag, ReadLoop, Gate, Check, Park, Fetch, ReadPush,
                  ReadClose, ReadReturn, env
    <2>3. CASE Crypt
      BY <2>3 DEF Crypt, CryptEnter, CryptFlag, Status, Count, Notify, Gate, Check, Park,
                  PopNothing, CryptPop, CryptWork, CryptClose, CryptReturn, env
    <2>4. CASE Write
      BY <2>4 DEF Write, WriteEnter, WriteOpen, Status, Count, Notify, PopNothing, WritePop,
                  WriteReturn, env
    <2>5. CASE Outside
      BY <1>1, <2>5 DEF Outside, SpuriousWake, Throw, StopPool, env
    <2>6. CASE UNCHANGED vars
      BY <2>6 DEF vars, env
    <2> QED BY <2>1, <2>2, <2>3, <2>4, <2>5, <2>6 DEF Next
  <1>3. Calm
    BY <1>2 DEF Calm
  <1>4. \A t \in Tasks : ~Throw(t)
    BY <1>3 DEF Throw, Calm
  <1> QED BY <1>1, <1>2, <1>3, <1>4

LEMMA UnusedStep ==
    ASSUME ReleaseInv, [Next]_vars
    PROVE  datas'["read"] = <<>> /\ hand'["write"] = <<>>
  <1>1. DOMAIN datas = Tasks /\ DOMAIN hand = Tasks /\ datas["read"] = <<>> /\ hand["write"] = <<>>
    BY DEF ReleaseInv, EndInv, ChainInv, TypeOK
  <1>2. CASE UNCHANGED order
    BY <1>1, <1>2 DEF order
  <1>3. CASE Fetch
    BY <1>1, <1>3 DEF Fetch, Tasks
  <1>4. CASE ReadPush
    BY <1>1, <1>4 DEF ReadPush, PushBack, Tasks
  <1>5. CASE CryptPop
    BY <1>1, <1>5 DEF CryptPop, Tasks
  <1>6. CASE CryptWork
    BY <1>1, <1>6 DEF CryptWork, PushBack, Tasks
  <1>7. CASE WritePop
    BY <1>1, <1>7 DEF WritePop, Tasks
  <1> QED BY <1>2, <1>3, <1>4, <1>5, <1>6, <1>7, OrderChangers

LEMMA LastStep ==
    ASSUME ReleaseInv, [Next]_vars, Calm'
    PROVE  MarkIsLast' /\ NothingBehind'
  <1>0. /\ Calm /\ UNCHANGED <<faults, fileLen>> /\ ~Resize /\ \A t \in Tasks : ~Throw(t)
        /\ MarkIsLast /\ NothingBehind /\ EndInv /\ TypeOK /\ Hands /\ InOrder
    BY CalmStep DEF ReleaseInv, EndInv, ChainInv
  <1> USE DEF TypeOK, Tasks, MarkIsLast, NothingBehind, MarkUpstream, WriteLeft, Calm
  <1>1. ASSUME NEW t \in Tasks, AddTask(t) PROVE MarkIsLast' /\ NothingBehind'
    BY <1>1, <1>0 DEF AddTask, Step, Advance, env, reader, output, flags, Down
  <1>2. ASSUME NEW t \in Tasks, Wait(t) PROVE MarkIsLast' /\ NothingBehind'
    BY <1>2, <1>0 DEF Wait, Advance, env, reader, output, flags, Down
  <1>3. CASE ReadOpen
    <2>1. /\ pc["read"] = "queued"
          /\ pc' = [pc EXCEPT !["read"] = IF "openIn" \in faults THEN "ended" ELSE "flag"]
          /\ UNCHANGED <<hand, datas, chunks, totalRead>>
          /\ "openIn" \notin faults => dataBytes' = fileLen'
      BY <1>0, <1>3 DEF ReadOpen, Step
    <2>2. ~MarkUpstream /\ ~EndIn(datas["write"]) /\ ~WriteLeft
      BY <1>0, <2>1
    <2>3. /\ pc'["write"] = pc["write"]
          /\ pc'["read"] = IF "openIn" \in faults THEN "ended" ELSE "flag"
      BY <1>0, <2>1
    <2> QED BY <1>0, <2>1, <2>2, <2>3
  <1>4. CASE ReadFlag
    BY <1>4, <1>0 DEF ReadFlag, Step, env, reader, output
  <1>5. CASE ReadLoop
    BY <1>5, <1>0 DEF ReadLoop, Step, env, reader, output, flags
  <1>6. CASE Gate("read")
    BY <1>6, <1>0 DEF Gate, Step, AfterGate, env, reader, output, flags
  <1>7. CASE Check("read")
    BY <1>7, <1>0 DEF Check, Step, AfterGate, env, reader, output, flags
  <1>8. CASE Park("read")
    BY <1>8, <1>0 DEF Park, Step, env, reader, output, flags
  <1>9. CASE Fetch
    <2> DEFINE left == IF fileLen > totalRead THEN fileLen - totalRead ELSE 0
    <2> DEFINE got == IF left < ReadDataSize THEN left ELSE ReadDataSize
    <2>1. /\ pc["read"] = "fetch"
          /\ pc' = [pc EXCEPT !["read"] = IF got = 0 THEN "close" ELSE "push"]
          /\ UNCHANGED <<datas, dataBytes, faults, fileLen>>
      BY <1>0, <1>9 DEF Fetch, Step, env
    <2>2. got \in Nat
      <3>1. ReadDataSize \in Nat
        BY SizeAssumption
      <3>2. fileLen \in Nat /\ totalRead \in Nat
        BY <1>0
      <3> QED BY <3>1, <3>2
    <2>3. CASE got = 0
      <3>1. UNCHANGED <<hand, totalRead, chunks>>
        BY <1>9, <2>3 DEF Fetch
      <3> HIDE DEF got, left
      <3> QED BY <1>0, <2>1, <3>1
    <2>4. CASE got # 0
      <3>1. totalRead # fileLen
        <4>1. ReadDataSize \in Nat /\ ReadDataSize > 0
          BY SizeAssumption
        <4>2. totalRead \in Nat
          BY <1>0
        <4> QED BY <2>4, <4>1, <4>2
      <3>2. /\ ~EndIn(hand["read"]) /\ ~EndIn(datas["crypt"]) /\ ~EndIn(hand["crypt"])
            /\ ~EndIn(datas["write"]) /\ ~WriteLeft
        BY <1>0, <3>1
      <3> DEFINE block == NewData(chunks + 1, got, ReachedEnd(totalRead + got))
      <3>3. /\ hand' = [hand EXCEPT !["read"] = <<block>>] /\ totalRead' = totalRead + got
            /\ chunks' = chunks + 1
        BY <1>9, <2>4 DEF Fetch
      <3>4. block \in Blocks /\ block.no = chunks' /\ (block.end <=> totalRead' = dataBytes)
        <4>1. chunks + 1 \in Nat \ {0} /\ got \in Nat \ {0}
          BY <1>0, <2>2, <2>4
        <4> HIDE DEF got, left
        <4> QED BY <3>3, <4>1, Zenon DEF NewData, ReachedEnd, Blocks
      <3> HIDE DEF got, left, block
      <3>5. dataBytes = fileLen /\ chunks' \in Nat /\ dataBytes' = fileLen'
        BY <1>0, <2>1, <3>3
      <3>6. /\ hand'["read"] = <<block>> /\ hand'["crypt"] = hand["crypt"]
            /\ pc'["write"] = pc["write"] /\ pc'["read"] \in {"close", "push"}
        BY <1>0, <2>1, <3>3
      <3>7. EndsAt(hand'["read"], chunks') /\ (EndIn(hand'["read"]) => totalRead' = fileLen')
        <4>1. EndsAt(<<block>>, chunks') /\ (EndIn(<<block>>) <=> block.end)
          BY <3>4, <3>5, LastFacts, MarkFacts
        <4>2. fileLen' = fileLen
          BY <1>0
        <4> QED BY <3>4, <3>5, <3>6, <4>1, <4>2
      <3>8. /\ EndsAt(datas'["crypt"], chunks') /\ EndsAt(hand'["crypt"], chunks')
            /\ EndsAt(datas'["write"], chunks')
        BY <1>0, <2>1, <3>2, <3>5, <3>6, LastFacts
      <3>9. /\ ~EndIn(datas'["crypt"]) /\ ~EndIn(hand'["crypt"])
            /\ ~EndIn(datas'["write"]) /\ ~WriteLeft'
        BY <2>1, <3>2, <3>6
      <3> QED BY <3>5, <3>6, <3>7, <3>8, <3>9
    <2> QED BY <2>3, <2>4
  <1>10. CASE ReadPush
    <2>1. hand["read"] # <<>> /\ hand["read"] \in Seq(Blocks) /\ Len(hand["read"]) <= 1
      BY <1>0, <1>10 DEF ReadPush, Step, Hands
    <2>2. PICK block \in Blocks : /\ block = Head(hand["read"]) /\ hand["read"] = <<block>>
      BY <2>1, OneInHand
    <2>3. /\ datas'["crypt"] = Append(datas["crypt"], block) /\ datas'["write"] = datas["write"]
          /\ hand'["read"] = <<>> /\ hand'["crypt"] = hand["crypt"]
          /\ pc["read"] = "push" /\ pc' = [pc EXCEPT !["read"] = "loop"]
          /\ UNCHANGED <<totalRead, dataBytes, chunks, faults, fileLen>>
      BY <1>0, <1>10, <2>2 DEF ReadPush, Step, PushBack, reader, env
    <2>4. chunks \in Nat /\ datas["crypt"] \in Seq(Blocks)
      BY <1>0
    <2>5. MarkUpstream' => MarkUpstream
      BY <2>2, <2>3, <2>4, MarkFacts
    <2>8. EndsAt(hand'["read"], chunks') /\ EndsAt(datas'["crypt"], chunks')
      <3>1. EndsAt(hand["read"], chunks) /\ EndsAt(datas["crypt"], chunks)
        BY <1>0
      <3>2. block.end => block.no = chunks
        <4>1. EndsAt(<<block>>, chunks)
          BY <2>2, <3>1
        <4> QED BY <2>2, <2>4, <4>1, LastFacts
      <3>3. EndsAt(Append(datas["crypt"], block), chunks) /\ EndsAt(<<>>, chunks)
        BY <2>2, <2>4, <3>1, <3>2, LastFacts
      <3> QED BY <2>3, <3>3
    <2>6. ~WriteLeft
      BY <1>0, <2>1
    <2>7. pc'["read"] = "loop" /\ pc'["write"] = pc["write"]
      BY <1>0, <2>3
    <2> QED BY <1>0, <2>3, <2>5, <2>6, <2>7, <2>8
  <1>11. CASE ReadClose
    BY <1>11, <1>0 DEF ReadClose, Step, env, reader, output
  <1>12. CASE ReadReturn
    BY <1>12, <1>0 DEF ReadReturn, Step, Return, env, reader, output, flags
  <1>13. CASE CryptEnter
    BY <1>13, <1>0 DEF CryptEnter, Step, env, reader, output
  <1>14. CASE CryptFlag
    BY <1>14, <1>0 DEF CryptFlag, Step, env, reader, output
  <1>15. CASE Status("crypt")
    BY <1>15, <1>0 DEF Status, Step, AfterNotify, env, reader, output, flags
  <1>16. CASE Count("crypt")
    BY <1>16, <1>0 DEF Count, Step, AfterNotify, env, reader, output, flags
  <1>17. CASE Notify("crypt")
    BY <1>17, <1>0 DEF Notify, Up, AfterNotify, env, reader, output, flags
  <1>18. CASE Gate("crypt")
    BY <1>18, <1>0 DEF Gate, Step, AfterGate, env, reader, output, flags
  <1>19. CASE Check("crypt")
    BY <1>19, <1>0 DEF Check, Step, AfterGate, env, reader, output, flags
  <1>20. CASE Park("crypt")
    BY <1>20, <1>0 DEF Park, Step, env, reader, output, flags
  <1>21. CASE PopNothing("crypt")
    BY <1>21, <1>0 DEF PopNothing, Step, env, reader, output, flags
  <1>22. CASE CryptPop
    <2>1. /\ datas["crypt"] # <<>> /\ datas["crypt"] \in Seq(Blocks)
          /\ Head(datas["crypt"]) \in Blocks /\ chunks \in Nat
      BY <1>0, <1>22, HeadAndTail DEF CryptPop
    <2>2. /\ datas'["crypt"] = Tail(datas["crypt"]) /\ datas'["write"] = datas["write"]
          /\ hand'["crypt"] = <<Head(datas["crypt"])>> /\ hand'["read"] = hand["read"]
          /\ pc'["read"] = pc["read"] /\ pc'["write"] = pc["write"]
          /\ UNCHANGED <<totalRead, dataBytes, chunks, faults, fileLen>>
      BY <1>0, <1>22 DEF CryptPop, Step, reader, env
    <2>3. EndIn(hand'["crypt"]) \/ EndIn(datas'["crypt"]) => EndIn(datas["crypt"])
      <3>1. EndIn(hand'["crypt"]) <=> Head(datas["crypt"]).end
        BY <2>1, <2>2, MarkFacts, SMTT(30)
      <3>2. EndIn(datas["crypt"]) <=> Head(datas["crypt"]).end \/ EndIn(datas'["crypt"])
        BY <2>1, <2>2, MarkFacts, SMTT(30)
      <3> QED BY <3>1, <3>2
    <2>4. EndsAt(hand'["crypt"], chunks') /\ EndsAt(datas'["crypt"], chunks')
      <3>1. EndsAt(datas["crypt"], chunks)
        BY <1>0
      <3>2. /\ Head(datas["crypt"]).end => Head(datas["crypt"]).no = chunks
            /\ EndsAt(Tail(datas["crypt"]), chunks)
        BY <2>1, <3>1, LastFacts
      <3>3. EndsAt(<<Head(datas["crypt"])>>, chunks)
        BY <2>1, <3>2, LastFacts
      <3> QED BY <2>2, <3>2, <3>3
    <2>5. ~WriteLeft
      BY <1>0, <2>1
    <2> QED BY <1>0, <2>2, <2>3, <2>4, <2>5
  <1>23. CASE CryptWork
    <2>1. hand["crypt"] # <<>> /\ hand["crypt"] \in Seq(Blocks) /\ Len(hand["crypt"]) <= 1
      BY <1>0, <1>23 DEF CryptWork, Step, Hands
    <2>2. PICK block \in Blocks : block = Head(hand["crypt"]) /\ hand["crypt"] = <<block>>
      BY <2>1, OneInHand
    <2>3. PICK size \in CryptSizes(isEncrypt, block.len, block.end) :
             datas'["write"] = Append(datas["write"], [block EXCEPT !.size = size])
      BY <1>0, <1>23, <2>2 DEF CryptWork, PushBack
    <2>4. /\ datas'["crypt"] = datas["crypt"]
          /\ hand'["crypt"] = <<>> /\ hand'["read"] = hand["read"]
          /\ pc'["read"] = pc["read"] /\ pc'["write"] = pc["write"]
          /\ UNCHANGED <<totalRead, dataBytes, chunks, faults, fileLen>>
      BY <1>0, <1>23 DEF CryptWork, Step, PushBack, reader, env
    <2>5. block.len \in Nat \ {0} /\ block.end \in BOOLEAN /\ isEncrypt \in BOOLEAN
      BY <1>0, <2>2 DEF Blocks
    <2>6. size \in Nat
      BY <2>5, CryptSizesAreNat
    <2> DEFINE sized == [block EXCEPT !.size = size]
    <2>7. sized \in Blocks /\ sized.end = block.end /\ sized.no = block.no
      BY <2>2, <2>6 DEF Blocks
    <2>8. /\ datas["write"] \in Seq(Blocks) /\ datas'["write"] = Append(datas["write"], sized)
          /\ chunks \in Nat
      BY <1>0, <2>3
    <2> HIDE DEF sized
    <2>9. /\ EndIn(datas'["write"]) => EndIn(datas["write"]) \/ EndIn(hand["crypt"])
          /\ ~EndIn(hand'["crypt"])
      BY <2>2, <2>4, <2>7, <2>8, MarkFacts
    <2>10. EndsAt(hand'["crypt"], chunks') /\ EndsAt(datas'["write"], chunks')
      <3>1. EndsAt(<<block>>, chunks) /\ EndsAt(datas["write"], chunks)
        BY <1>0, <2>2
      <3>2. block.end => block.no = chunks
        BY <2>2, <2>8, <3>1, LastFacts
      <3>3. EndsAt(Append(datas["write"], sized), chunks) /\ EndsAt(<<>>, chunks)
        BY <2>7, <2>8, <3>1, <3>2, LastFacts
      <3> QED BY <2>4, <2>8, <3>3
    <2>11. ~WriteLeft
      BY <1>0, <2>1
    <2> QED BY <1>0, <2>4, <2>9, <2>10, <2>11
  <1>24. CASE CryptClose
    BY <1>24, <1>0 DEF CryptClose, Step, env, reader, output
  <1>25. CASE CryptReturn
    BY <1>25, <1>0 DEF CryptReturn, Step, Return, env, reader, output, flags
  <1>26. CASE WriteEnter
    BY <1>26, <1>0 DEF WriteEnter, Step, env, reader, output
  <1>27. CASE WriteOpen
    BY <1>27, <1>0 DEF WriteOpen, Step, Return, env, reader, output, flags
  <1>28. CASE Status("write")
    BY <1>28, <1>0 DEF Status, Step, AfterNotify, env, reader, output, flags
  <1>29. CASE Count("write")
    BY <1>29, <1>0 DEF Count, Step, AfterNotify, env, reader, output, flags
  <1>30. CASE Notify("write")
    BY <1>30, <1>0 DEF Notify, Up, AfterNotify, env, reader, output, flags
  <1>31. CASE PopNothing("write")
    BY <1>31, <1>0 DEF PopNothing, Step, env, reader, output, flags
  <1>32. CASE WritePop
    <2> DEFINE block == Head(datas["write"])
    <2>1. /\ datas["write"] # <<>> /\ datas["write"] \in Seq(Blocks) /\ block \in Blocks
          /\ Len(datas["write"]) >= 1 /\ block = datas["write"][1]
          /\ Len(Tail(datas["write"])) = Len(datas["write"]) - 1 /\ chunks \in Nat
      BY <1>0, <1>32, HeadAndTail DEF WritePop
    <2>2. /\ datas'["write"] = Tail(datas["write"]) /\ datas'["crypt"] = datas["crypt"]
          /\ pc["write"] = "pop" /\ pc'["read"] = pc["read"]
          /\ pc'["write"] = IF block.end THEN "return" ELSE "status"
          /\ UNCHANGED <<hand, totalRead, dataBytes, chunks, faults, fileLen>>
      BY <1>0, <1>32 DEF WritePop, Step, reader, env
    <2>3. (EndIn(datas'["write"]) \/ block.end => EndIn(datas["write"])) /\ (WriteLeft' => block.end)
      BY <2>1, <2>2, MarkFacts
    <2>4. EndsAt(datas'["write"], chunks') /\ (block.end => block.no = chunks)
      <3>1. EndsAt(datas["write"], chunks)
        BY <1>0
      <3>2. /\ Head(datas["write"]).end => Head(datas["write"]).no = chunks
            /\ EndsAt(Tail(datas["write"]), chunks)
        BY <2>1, <3>1, LastFacts
      <3> QED BY <2>2, <3>2
    <2>5. MarkIsLast'
      BY <1>0, <2>2, <2>3, <2>4
    <2>6. ASSUME block.end PROVE NothingBehind'
      <3>1. 1 \in 1 .. Len(datas["write"])
        BY <2>1
      <3>2. block.no = Written + 1
        BY <1>0, <2>1, <3>1 DEF InOrder
      <3>3. /\ Len(hand["read"]) \in Nat /\ Len(datas["crypt"]) \in Nat
            /\ Len(hand["crypt"]) \in Nat /\ Len(datas["write"]) \in Nat
        <4>1. \A s \in Seq(Blocks) : Len(s) \in Nat
          OBVIOUS
        <4> QED BY <1>0, <4>1, Zenon
      <3>4. /\ Len(hand["read"]) = 0 /\ Len(datas["crypt"]) = 0
            /\ Len(hand["crypt"]) = 0 /\ Len(datas["write"]) = 1
        <4>1. block.no = chunks
          BY <2>4, <2>6
        <4>2. Written = chunks - Len(hand["read"]) - Len(datas["crypt"]) - Len(hand["crypt"])
                            - Len(datas["write"])
          BY <3>3, <2>1 DEF Written, Crypted, Taken, Sent
        <4>3. chunks = Written + 1 /\ chunks \in Nat /\ Len(datas["write"]) >= 1
          BY <2>1, <3>2, <4>1
        <4> HIDE DEF block
        <4> DEFINE r == Len(hand["read"])
                   l == Len(datas["crypt"])
                   c == Len(hand["crypt"])
                   w == Len(datas["write"])
        <4>4. /\ r \in Nat /\ l \in Nat /\ c \in Nat /\ w \in Nat /\ chunks \in Nat
              /\ w >= 1 /\ chunks = (chunks - r - l - c - w) + 1
          BY <3>3, <4>2, <4>3, Zenon
        <4> HIDE DEF r, l, c, w
        <4>5. r = 0 /\ l = 0 /\ c = 0 /\ w = 1
          BY <4>4
        <4> QED BY <4>5 DEF r, l, c, w
      <3>5. hand["read"] = <<>> /\ datas["crypt"] = <<>> /\ hand["crypt"] = <<>>
        <4>1. /\ hand["read"] \in Seq(Blocks) /\ datas["crypt"] \in Seq(Blocks)
              /\ hand["crypt"] \in Seq(Blocks)
          BY <1>0
        <4> QED BY <3>4, <4>1, EmptyIsEmpty
      <3>6. datas'["write"] = <<>>
        <4>1. Tail(datas["write"]) \in Seq(Blocks)
          BY <2>1
        <4>2. Len(Tail(datas["write"])) = 0
          BY <2>1, <3>4
        <4> QED BY <2>2, <4>1, <4>2, EmptyIsEmpty
      <3> QED BY <2>2, <3>5, <3>6
    <2> QED BY <2>3, <2>5, <2>6
  <1>33. CASE WriteReturn
    BY <1>33, <1>0 DEF WriteReturn, Step, Return, env, reader, output, flags
  <1>34. ASSUME NEW t \in {"read", "crypt"}, SpuriousWake(t) PROVE MarkIsLast' /\ NothingBehind'
    BY <1>34, <1>0 DEF SpuriousWake, Step, env, reader, output, flags
  <1>35. ASSUME NEW t \in {"read", "crypt"}, Throw(t) PROVE MarkIsLast' /\ NothingBehind'
    BY <1>35, <1>0 DEF Throw, Step, env, reader, output, flags
  <1>36. CASE Resize
    BY <1>36, <1>0 DEF Resize, reader, output, flags
  <1>37. CASE StopPool
    BY <1>37, <1>0 DEF StopPool, reader, output, flags
  <1>38. CASE UNCHANGED vars
    BY <1>38, <1>0 DEF vars, env, reader, output, flags
  <1> QED
    BY <1>0, <1>1, <1>2, <1>3, <1>4, <1>5, <1>6, <1>7, <1>8, <1>9, <1>10,
       <1>11, <1>12, <1>13, <1>14, <1>15, <1>16, <1>17, <1>18, <1>19, <1>20,
       <1>21, <1>22, <1>23, <1>24, <1>25, <1>26, <1>27, <1>28, <1>29, <1>30,
       <1>31, <1>32, <1>33, <1>34, <1>35, <1>36, <1>37, <1>38
    DEF Next, Main, Read, Crypt, Write, Outside

(* ReleaseInv is inductive. *)
THEOREM ReleaseSafety == Spec => []ReleaseInv
  <1>1. ASSUME ReleaseInv, [Next]_vars PROVE ReleaseInv'
    <2>1. ChainInv'
      BY <1>1, TypeStep, HandsStep, OrderStep DEF ReleaseInv, EndInv, ChainInv
    <2>2. EndInv'
      BY <1>1, <2>1, KnowStep, MarkStep DEF ReleaseInv, EndInv
    <2> QED BY <1>1, <2>2, UnusedStep, LastStep DEF ReleaseInv
  <1> QED BY InitReleaseInv, <1>1, PTL DEF Spec

(* AllReleased: when the tasks have ended without one of the faults it names, no  *)
(* block is left in a list, where the tasks' shared_ptrs would keep it for ever   *)
(* (file_crypt.cc:60, task_base.h).                                              *)
THEOREM NothingIsKept == Spec => []AllReleased
  <1>1. ReleaseInv => AllReleased
    <2> SUFFICES ASSUME ReleaseInv, \A t \in Tasks : pc[t] = "ended",
                        faults \cap {"openOut", "throw", "resize", "resized"} = {}
                 PROVE  \A t \in Tasks : datas[t] = <<>> /\ hand[t] = <<>>
      BY DEF AllReleased
    <2>1. Calm
      BY DEF Calm
    <2>2. WriteLeft
      BY DEF WriteLeft, Tasks
    <2> QED BY <2>1, <2>2 DEF ReleaseInv, NothingBehind, Tasks
  <1> QED BY <1>1, ReleaseSafety, PTL

------------------------------------------------------------------------------
(* What the write task reports, whatever fails on the way.                       *)

BlocksIn(blocks) == {blocks[i] : i \in 1 .. Len(blocks)}
InChain ==
    BlocksIn(hand["read"]) \cup BlocksIn(datas["crypt"]) \cup BlocksIn(hand["crypt"])
        \cup BlocksIn(datas["write"]) \cup BlocksIn(outFile)

(* How many bytes of the input there are up to the end of a block.  All blocks    *)
(* but the last that was read are of full length, and the mark is on the one that *)
(* ends where the read task has found the input to end.                          *)
Reach(block) == (block.no - 1) * ReadDataSize + block.len
Placed(block) ==
    /\ block.no <= chunks
    /\ block.no < chunks => block.len = ReadDataSize
    /\ block.no = chunks => Reach(block) = totalRead
    /\ block.end <=> Reach(block) = dataBytes
AllPlaced == \A block \in InChain : Placed(block)
ReadInFull ==
    /\ pc["read"] \in {"new", "queued"} => chunks = 0
    /\ pc["read"] \in {"gate", "check", "park", "asleep", "fetch"} => ~eof
    /\ ~eof => totalRead = chunks * ReadDataSize

(* The numbers of bytes are those of the blocks, and the mark ends the output.    *)
Produced == outFile \o datas["write"]
EndsIn(blocks, closed) == \A i \in 1 .. Len(blocks) : blocks[i].end => i = Len(blocks) /\ closed
LenIs(blocks) == LenSum(blocks) = IF blocks = <<>> THEN 0 ELSE Reach(Last(blocks))
OutputAddsUp ==
    ofsGood =>
        /\ bytes["write"] = SizeSum(outFile)
        /\ bytes["crypt"] = SizeSum(Produced)
        /\ LenIs(outFile)
        /\ EndsIn(Produced, CryptLeft)

(* What has been returned is what has been counted. *)
EndWritten == ofsGood => outFile # <<>> /\ Last(outFile).end
Returned ==
    /\ value["crypt"] # <<>> => pc["crypt"] = "ended" /\ value["crypt"] = <<bytes["crypt"]>>
    /\ pc["write"] = "return" => EndWritten
    /\ value["write"] # <<>> => pc["write"] = "ended"
    /\ value["write"] # <<>> /\ value["write"] # <<0>> =>
           value["write"] = <<bytes["write"]>> /\ EndWritten

OutputInv == EndInv /\ AllPlaced /\ ReadInFull /\ OutputAddsUp /\ Returned

------------------------------------------------------------------------------
(* The sums over the blocks. *)

(* The folds of LenSum and SizeSum are sums in the sense of DataInduction.        *)
LEMMA LenSumIsSum ==
    ASSUME NEW blocks \in Seq(Blocks)
    PROVE  \E g : /\ IsSum(g, [i \in DOMAIN blocks |-> blocks[i].len], DOMAIN blocks)
                  /\ LenSum(blocks) = g[DOMAIN blocks]
  <1> DEFINE D == DOMAIN blocks
             w == [i \in D |-> blocks[i].len]
             Unfolds(g) == g = [s \in SUBSET D |->
                 IF s = {} THEN 0
                           ELSE blocks[CHOOSE x \in s : TRUE].len + g[s \ {CHOOSE x \in s : TRUE}]]
             sum == CHOOSE g : Unfolds(g)
  <1>1. IsFiniteSet(D) /\ \A i \in D : w[i] \in Nat
    <2>1. D = 1 .. Len(blocks) /\ Len(blocks) \in Nat
      OBVIOUS
    <2>2. \A i \in D : blocks[i] \in Blocks
      OBVIOUS
    <2>3. \A block \in Blocks : block.len \in Nat
      BY DEF Blocks
    <2>4. IsFiniteSet(D)
      BY <2>1, FS_Interval
    <2> QED BY <2>2, <2>3, <2>4
  <1>2. \A s \in SUBSET D : s # {} => w[Pick(s)] = blocks[Pick(s)].len
    BY DEF Pick
  <1>3. LenSum(blocks) = sum[D]
    BY DEF LenSum, FoldSeq, FoldFunction, FoldFunctionOnSet, MapThenFoldSet
  <1> HIDE DEF D, w
  <1>4. PICK g : IsSum(g, w, D)
    BY <1>1, SumExists
  <1>5. Unfolds(g)
    BY <1>2, <1>4 DEF IsSum, Adds, Pick
  <1>6. Unfolds(sum)
    <2> HIDE DEF Unfolds
    <2> QED BY <1>5
  <1>7. \A s \in SUBSET D :
            sum[s] = IF s = {} THEN 0 ELSE blocks[Pick(s)].len + sum[s \ {Pick(s)}]
    <2> HIDE DEF sum
    <2> QED BY <1>6 DEF Pick
  <1>8. PICK h : Adds(h, w, D) /\ LenSum(blocks) = h[D]
    <2> HIDE DEF sum
    <2> QED BY <1>2, <1>3, <1>7 DEF Adds
  <1>9. h[D] = g[D]
    BY <1>1, <1>4, <1>8, SumUnique
  <1>10. LenSum(blocks) = g[D]
    BY <1>8, <1>9
  <1> QED BY <1>4, <1>10 DEF D, w

LEMMA SizeSumIsSum ==
    ASSUME NEW blocks \in Seq(Blocks)
    PROVE  \E g : /\ IsSum(g, [i \in DOMAIN blocks |-> blocks[i].size], DOMAIN blocks)
                  /\ SizeSum(blocks) = g[DOMAIN blocks]
  <1> DEFINE D == DOMAIN blocks
             w == [i \in D |-> blocks[i].size]
             Unfolds(g) == g = [s \in SUBSET D |->
                 IF s = {} THEN 0
                           ELSE blocks[CHOOSE x \in s : TRUE].size + g[s \ {CHOOSE x \in s : TRUE}]]
             sum == CHOOSE g : Unfolds(g)
  <1>1. IsFiniteSet(D) /\ \A i \in D : w[i] \in Nat
    <2>1. D = 1 .. Len(blocks) /\ Len(blocks) \in Nat
      OBVIOUS
    <2>2. \A i \in D : blocks[i] \in Blocks
      OBVIOUS
    <2>3. \A block \in Blocks : block.size \in Nat
      BY DEF Blocks
    <2>4. IsFiniteSet(D)
      BY <2>1, FS_Interval
    <2> QED BY <2>2, <2>3, <2>4
  <1>2. \A s \in SUBSET D : s # {} => w[Pick(s)] = blocks[Pick(s)].size
    BY DEF Pick
  <1>3. SizeSum(blocks) = sum[D]
    BY DEF SizeSum, FoldSeq, FoldFunction, FoldFunctionOnSet, MapThenFoldSet
  <1> HIDE DEF D, w
  <1>4. PICK g : IsSum(g, w, D)
    BY <1>1, SumExists
  <1>5. Unfolds(g)
    BY <1>2, <1>4 DEF IsSum, Adds, Pick
  <1>6. Unfolds(sum)
    <2> HIDE DEF Unfolds
    <2> QED BY <1>5
  <1>7. \A s \in SUBSET D :
            sum[s] = IF s = {} THEN 0 ELSE blocks[Pick(s)].size + sum[s \ {Pick(s)}]
    <2> HIDE DEF sum
    <2> QED BY <1>6 DEF Pick
  <1>8. PICK h : Adds(h, w, D) /\ SizeSum(blocks) = h[D]
    <2> HIDE DEF sum
    <2> QED BY <1>2, <1>3, <1>7 DEF Adds
  <1>9. h[D] = g[D]
    BY <1>1, <1>4, <1>8, SumUnique
  <1>10. SizeSum(blocks) = g[D]
    BY <1>8, <1>9
  <1> QED BY <1>4, <1>10 DEF D, w

(* What a sum is of no block, and of one block more. *)
LEMMA SumFacts ==
    /\ LenSum(<<>>) = 0 /\ SizeSum(<<>>) = 0
    /\ \A blocks \in Seq(Blocks) : LenSum(blocks) \in Nat /\ SizeSum(blocks) \in Nat
    /\ \A blocks \in Seq(Blocks), block \in Blocks :
           /\ LenSum(Append(blocks, block)) = LenSum(blocks) + block.len
           /\ SizeSum(Append(blocks, block)) = SizeSum(blocks) + block.size
  <1>1. LenSum(<<>>) = 0 /\ SizeSum(<<>>) = 0
    <2>1. <<>> \in Seq(Blocks) /\ DOMAIN <<>> = {}
      OBVIOUS
    <2>2. \A g, w : IsSum(g, w, {}) => g[{}] = 0
      BY DEF IsSum, Adds
    <2> QED BY <2>1, <2>2, LenSumIsSum, SizeSumIsSum
  <1>2. ASSUME NEW blocks \in Seq(Blocks)
        PROVE  LenSum(blocks) \in Nat /\ SizeSum(blocks) \in Nat
    <2>1. \A g, w, D : IsSum(g, w, D) => g[D] \in Nat
      BY DEF IsSum, Adds
    <2> QED BY <2>1, LenSumIsSum, SizeSumIsSum
  <1>3. ASSUME NEW blocks \in Seq(Blocks), NEW block \in Blocks
        PROVE  /\ LenSum(Append(blocks, block)) = LenSum(blocks) + block.len
               /\ SizeSum(Append(blocks, block)) = SizeSum(blocks) + block.size
    <2> DEFINE longer == Append(blocks, block)
               last == Len(blocks) + 1
               D == DOMAIN blocks
               E == DOMAIN longer
    <2>1. longer \in Seq(Blocks) /\ longer[last] = block
      OBVIOUS
    <2>2. \A i \in D : longer[i] = blocks[i]
      OBVIOUS
    <2>3. D = 1 .. Len(blocks) /\ E = 1 .. Len(blocks) + 1 /\ Len(blocks) \in Nat
      OBVIOUS
    <2>4. last \in E /\ D = E \ {last} /\ IsFiniteSet(E)
      <3>1. \A n \in Nat : IsFiniteSet(1 .. n)
        BY FS_Interval
      <3>2. \A n \in Nat : n + 1 \in Nat /\ n + 1 \in 1 .. n + 1 /\ 1 .. n = (1 .. n + 1) \ {n + 1}
        OBVIOUS
      <3> HIDE DEF D, E, longer
      <3> QED BY <2>3, <3>1, <3>2
    <2>5. ASSUME NEW i \in E PROVE longer[i].len \in Nat /\ longer[i].size \in Nat
      <3>1. longer[i] \in Blocks
        BY <2>1
      <3> QED BY <3>1 DEF Blocks
    <2>6. D \subseteq E
      BY <2>4
    <2> HIDE DEF D, E, longer, last
    <2>7. LenSum(longer) = LenSum(blocks) + block.len
      <3> DEFINE w == [i \in D |-> blocks[i].len]
                 v == [i \in E |-> longer[i].len]
      <3>1. PICK g : IsSum(g, w, D) /\ LenSum(blocks) = g[D]
        BY LenSumIsSum DEF D
      <3>2. PICK h : IsSum(h, v, E) /\ LenSum(longer) = h[E]
        BY <2>1, LenSumIsSum DEF E
      <3>3. /\ \A i \in E : v[i] \in Nat
            /\ \A i \in D : w[i] = v[i]
            /\ v[last] = block.len
        BY <2>1, <2>2, <2>4, <2>5, <2>6
      <3> HIDE DEF w, v
      <3>4. h[E] = g[D] + v[last]
        BY <2>4, <3>1, <3>2, <3>3, SumOfOneMore
      <3> QED BY <3>1, <3>2, <3>3, <3>4
    <2>8. SizeSum(longer) = SizeSum(blocks) + block.size
      <3> DEFINE w == [i \in D |-> blocks[i].size]
                 v == [i \in E |-> longer[i].size]
      <3>1. PICK g : IsSum(g, w, D) /\ SizeSum(blocks) = g[D]
        BY SizeSumIsSum DEF D
      <3>2. PICK h : IsSum(h, v, E) /\ SizeSum(longer) = h[E]
        BY <2>1, SizeSumIsSum DEF E
      <3>3. /\ \A i \in E : v[i] \in Nat
            /\ \A i \in D : w[i] = v[i]
            /\ v[last] = block.size
        BY <2>1, <2>2, <2>4, <2>5, <2>6
      <3> HIDE DEF w, v
      <3>4. h[E] = g[D] + v[last]
        BY <2>4, <3>1, <3>2, <3>3, SumOfOneMore
      <3> QED BY <3>1, <3>2, <3>3, <3>4
    <2> QED BY <2>7, <2>8 DEF longer
  <1> QED BY <1>1, <1>2, <1>3

------------------------------------------------------------------------------
(* The place of the blocks in the input. *)

(* What is in a list that grows and shrinks. *)
LEMMA InFacts ==
    /\ BlocksIn(<<>>) = {}
    /\ \A block \in Blocks : BlocksIn(<<block>>) = {block}
    /\ \A blocks \in Seq(Blocks), block \in Blocks :
           BlocksIn(Append(blocks, block)) = BlocksIn(blocks) \cup {block}
    /\ \A blocks \in Seq(Blocks) : blocks # <<>> =>
           Head(blocks) \in BlocksIn(blocks) /\ BlocksIn(Tail(blocks)) \subseteq BlocksIn(blocks)
  <1>1. BlocksIn(<<>>) = {}
    BY DEF BlocksIn
  <1>2. ASSUME NEW block \in Blocks PROVE BlocksIn(<<block>>) = {block}
    <2>1. Len(<<block>>) = 1 /\ <<block>>[1] = block
      OBVIOUS
    <2>2. \A i : i \in 1 .. 1 <=> i = 1
      OBVIOUS
    <2> QED BY <2>1, <2>2 DEF BlocksIn
  <1>3. ASSUME NEW blocks \in Seq(Blocks), NEW block \in Blocks
        PROVE  BlocksIn(Append(blocks, block)) = BlocksIn(blocks) \cup {block}
    <2> DEFINE longer == Append(blocks, block)
    <2>1. Len(longer) = Len(blocks) + 1 /\ Len(blocks) \in Nat
      OBVIOUS
    <2>2. longer[Len(blocks) + 1] = block
      OBVIOUS
    <2>3. \A i \in 1 .. Len(blocks) : longer[i] = blocks[i]
      OBVIOUS
    <2>4. \A i : i \in 1 .. Len(blocks) + 1 <=> i \in 1 .. Len(blocks) \/ i = Len(blocks) + 1
      BY <2>1
    <2> HIDE DEF longer
    <2>5. BlocksIn(longer) = BlocksIn(blocks) \cup {block}
      BY <2>1, <2>2, <2>3, <2>4, ZenonT(30) DEF BlocksIn
    <2> QED BY <2>5 DEF longer
  <1>4. ASSUME NEW blocks \in Seq(Blocks), blocks # <<>>
        PROVE  Head(blocks) \in BlocksIn(blocks) /\ BlocksIn(Tail(blocks)) \subseteq BlocksIn(blocks)
    <2>1. /\ Len(blocks) \in Nat /\ Len(blocks) >= 1 /\ Head(blocks) = blocks[1]
          /\ Len(Tail(blocks)) = Len(blocks) - 1
          /\ \A i \in 1 .. Len(Tail(blocks)) : Tail(blocks)[i] = blocks[i + 1]
      BY <1>4, HeadAndTail
    <2>2. 1 \in 1 .. Len(blocks) /\ \A i \in 1 .. Len(Tail(blocks)) : i + 1 \in 1 .. Len(blocks)
      BY <2>1
    <2> QED BY <2>1, <2>2 DEF BlocksIn
  <1> QED BY <1>1, <1>2, <1>3, <1>4

LEMMA SizeFacts == ReadDataSize \in Nat /\ ReadDataSize >= 1
  BY SizeAssumption

(* What the invariants of the output say of the first states. *)
LEMMA InitOutputInv == Init => OutputInv
  <1> SUFFICES ASSUME Init PROVE OutputInv
    OBVIOUS
  <1>1. /\ \A t \in Tasks : hand[t] = <<>> /\ datas[t] = <<>> /\ value[t] = <<>> /\ bytes[t] = 0
        /\ outFile = <<>> /\ pc["write"] = "new" /\ pc["read"] = "new" /\ pc["crypt"] = "new"
        /\ chunks = 0 /\ totalRead = 0 /\ eof = FALSE
    BY DEF Init, Tasks
  <1>2. /\ hand["read"] = <<>> /\ hand["crypt"] = <<>> /\ datas["crypt"] = <<>>
        /\ datas["write"] = <<>> /\ value["crypt"] = <<>> /\ value["write"] = <<>>
        /\ bytes["crypt"] = 0 /\ bytes["write"] = 0
    BY <1>1 DEF Tasks
  <1>3. AllPlaced
    BY <1>1, <1>2, InFacts DEF AllPlaced, InChain
  <1>4. ReadInFull
    <2>1. 0 = 0 * ReadDataSize
      BY SizeFacts
    <2> QED BY <1>1, <2>1 DEF ReadInFull
  <1>5. OutputAddsUp
    <2>1. Produced = <<>> /\ Len(Produced) = 0
      BY <1>1, <1>2 DEF Produced
    <2>2. EndsIn(Produced, CryptLeft)
      BY <2>1 DEF EndsIn
    <2>3. LenIs(outFile)
      BY <1>1, SumFacts DEF LenIs
    <2> QED BY <1>1, <1>2, <2>1, <2>2, <2>3, SumFacts DEF OutputAddsUp
  <1>6. Returned
    BY <1>1, <1>2 DEF Returned
  <1> QED BY <1>3, <1>4, <1>5, <1>6, InitEndInv DEF OutputInv

(* What the read task has read when it has not seen the end of the file. *)
LEMMA ReadStep ==
    ASSUME OutputInv, [Next]_vars
    PROVE  ReadInFull'
  <1> USE DEF OutputInv, EndInv, ChainInv, TypeOK, Tasks, ReadPc, ReadInFull
  <1>1. ASSUME NEW t \in Tasks, AddTask(t) PROVE ReadInFull'
    BY <1>1 DEF AddTask, Step, Advance, env, reader, output, flags, Down
  <1>2. ASSUME NEW t \in Tasks, Wait(t) PROVE ReadInFull'
    BY <1>2 DEF Wait, Advance, env, reader, output, flags, Down
  <1>3. CASE ReadOpen
    BY <1>3 DEF ReadOpen, Step, Return, env, output, flags
  <1>4. CASE ReadFlag
    BY <1>4 DEF ReadFlag, Step, env, reader, output
  <1>5. CASE ReadLoop
    BY <1>5 DEF ReadLoop, Step, env, reader, output, flags
  <1>6. CASE Gate("read")
    BY <1>6 DEF Gate, Step, AfterGate, env, reader, output, flags
  <1>7. CASE Check("read")
    BY <1>7 DEF Check, Step, AfterGate, env, reader, output, flags
  <1>8. CASE Park("read")
    BY <1>8 DEF Park, Step, env, reader, output, flags
  <1>9. CASE Fetch
    <2>1. /\ chunks \in Nat /\ totalRead \in Nat /\ fileLen \in Nat
          /\ pc["read"] = "fetch" /\ ~eof /\ totalRead = chunks * ReadDataSize
      BY <1>9 DEF Fetch, Step
    <2>2. pc'["read"] \in {"push", "close"}
      BY <1>9 DEF Fetch, Step
    <2>3. ASSUME ~eof' PROVE totalRead' = chunks' * ReadDataSize
      <3> DEFINE left == IF fileLen > totalRead THEN fileLen - totalRead ELSE 0
                 got == IF left < ReadDataSize THEN left ELSE ReadDataSize
      <3>1. got = ReadDataSize
        <4>1. eof' = (got < ReadDataSize)
          BY <1>9, Zenon DEF Fetch
        <4>2. left \in Nat
          <5>1. \A a, b \in Nat : (IF a > b THEN a - b ELSE 0) \in Nat
            OBVIOUS
          <5> QED BY <2>1, <5>1, Zenon
        <4> HIDE DEF left
        <4> QED BY <2>3, <4>1, <4>2, SizeFacts
      <3>2. chunks' = chunks + 1 /\ totalRead' = chunks * ReadDataSize + ReadDataSize
        <4>1. got # 0 => chunks' = chunks + 1 /\ totalRead' = totalRead + got
          <5> HIDE DEF got
          <5>1. got = 0 \/ (chunks' = chunks + 1 /\ totalRead' = totalRead + got)
            BY <1>9, Zenon DEF Fetch, got
          <5> QED BY <5>1
        <4> HIDE DEF got
        <4> QED BY <2>1, <3>1, <4>1, SizeFacts
      <3>3. (chunks + 1) * ReadDataSize = chunks * ReadDataSize + ReadDataSize
        BY <2>1, SizeFacts
      <3> QED BY <3>2, <3>3
    <2> QED BY <2>2, <2>3
  <1>10. CASE ReadPush
    BY <1>10 DEF ReadPush, Step, PushBack, env, reader, output, flags
  <1>11. CASE ReadClose
    BY <1>11 DEF ReadClose, Step, env, reader, output
  <1>12. CASE ReadReturn
    BY <1>12 DEF ReadReturn, Step, Return, env, reader, output, flags
  <1>13. CASE CryptEnter
    BY <1>13 DEF CryptEnter, Step, env, reader, output
  <1>14. CASE CryptFlag
    BY <1>14 DEF CryptFlag, Step, env, reader, output
  <1>15. CASE Status("crypt")
    BY <1>15 DEF Status, Step, AfterNotify, env, reader, output, flags
  <1>16. CASE Count("crypt")
    BY <1>16 DEF Count, Step, AfterNotify, env, reader, output, flags
  <1>17. CASE Notify("crypt")
    BY <1>17 DEF Notify, Up, AfterNotify, env, reader, output, flags
  <1>18. CASE Gate("crypt")
    BY <1>18 DEF Gate, Step, AfterGate, env, reader, output, flags
  <1>19. CASE Check("crypt")
    BY <1>19 DEF Check, Step, AfterGate, env, reader, output, flags
  <1>20. CASE Park("crypt")
    BY <1>20 DEF Park, Step, env, reader, output, flags
  <1>21. CASE PopNothing("crypt")
    BY <1>21 DEF PopNothing, Step, env, reader, output, flags
  <1>22. CASE CryptPop
    BY <1>22 DEF CryptPop, Step, env, reader, output, flags
  <1>23. CASE CryptWork
    BY <1>23 DEF CryptWork, Step, PushBack, env, reader, flags
  <1>24. CASE CryptClose
    BY <1>24 DEF CryptClose, Step, env, reader, output
  <1>25. CASE CryptReturn
    BY <1>25 DEF CryptReturn, Step, Return, env, reader, output, flags
  <1>26. CASE WriteEnter
    BY <1>26 DEF WriteEnter, Step, env, reader, output
  <1>27. CASE WriteOpen
    BY <1>27 DEF WriteOpen, Step, Return, env, reader, output, flags
  <1>28. CASE Status("write")
    BY <1>28 DEF Status, Step, AfterNotify, env, reader, output, flags
  <1>29. CASE Count("write")
    BY <1>29 DEF Count, Step, AfterNotify, env, reader, output, flags
  <1>30. CASE Notify("write")
    BY <1>30 DEF Notify, Up, AfterNotify, env, reader, output, flags
  <1>31. CASE PopNothing("write")
    BY <1>31 DEF PopNothing, Step, env, reader, output, flags
  <1>32. CASE WritePop
    BY <1>32 DEF WritePop, Step, env, reader, flags
  <1>33. CASE WriteReturn
    BY <1>33 DEF WriteReturn, Step, Return, env, reader, output, flags
  <1>34. ASSUME NEW t \in {"read", "crypt"}, SpuriousWake(t) PROVE ReadInFull'
    BY <1>34 DEF SpuriousWake, Step, env, reader, output, flags
  <1>35. ASSUME NEW t \in {"read", "crypt"}, Throw(t) PROVE ReadInFull'
    BY <1>35 DEF Throw, Step, env, reader, output, flags
  <1>36. CASE Resize
    BY <1>36 DEF Resize, reader, output, flags
  <1>37. CASE StopPool
    BY <1>37 DEF StopPool, reader, output, flags
  <1>38. CASE UNCHANGED vars
    BY <1>38 DEF vars, env, reader, output, flags
  <1> QED
    BY <1>1, <1>2, <1>3, <1>4, <1>5, <1>6, <1>7, <1>8, <1>9, <1>10,
       <1>11, <1>12, <1>13, <1>14, <1>15, <1>16, <1>17, <1>18, <1>19, <1>20,
       <1>21, <1>22, <1>23, <1>24, <1>25, <1>26, <1>27, <1>28, <1>29, <1>30,
       <1>31, <1>32, <1>33, <1>34, <1>35, <1>36, <1>37, <1>38
    DEF Next, Main, Read, Crypt, Write, Outside

(* Only the crypt and the write task change what is on its way to the file.       *)
LEMMA OutputChangers ==
    ASSUME [Next]_vars, ~CryptWork, ~WritePop
    PROVE  UNCHANGED <<bytes, outFile, ofsGood>>
  <1> USE DEF env, reader, output, flags
  <1>1. ASSUME Main PROVE UNCHANGED <<bytes, outFile, ofsGood>>
    BY <1>1 DEF Main, AddTask, Wait
  <1>2. ASSUME Read PROVE UNCHANGED <<bytes, outFile, ofsGood>>
    BY <1>2 DEF Read, ReadOpen, ReadFlag, ReadLoop, Gate, Check, Park, Fetch, ReadPush,
                ReadClose, ReadReturn
  <1>3. ASSUME Crypt PROVE UNCHANGED <<bytes, outFile, ofsGood>>
    BY <1>3 DEF Crypt, CryptEnter, CryptFlag, Status, Count, Notify, Gate, Check, Park,
                PopNothing, CryptPop, CryptClose, CryptReturn
  <1>4. ASSUME Write PROVE UNCHANGED <<bytes, outFile, ofsGood>>
    BY <1>4 DEF Write, WriteEnter, WriteOpen, Status, Count, Notify, PopNothing, WriteReturn
  <1>5. ASSUME Outside PROVE UNCHANGED <<bytes, outFile, ofsGood>>
    BY <1>5 DEF Outside, SpuriousWake, Throw, Resize, StopPool
  <1>6. ASSUME UNCHANGED vars PROVE UNCHANGED <<bytes, outFile, ofsGood>>
    BY <1>6 DEF vars
  <1> QED BY <1>1, <1>2, <1>3, <1>4, <1>5, <1>6 DEF Next

(* Only ReadOpen and Fetch change what the place of a block depends on. *)
LEMMA PlaceChangers ==
    ASSUME [Next]_vars, ~ReadOpen, ~Fetch
    PROVE  UNCHANGED <<chunks, totalRead, dataBytes>>
  <1> USE DEF env, reader, output, flags
  <1>1. ASSUME Main PROVE UNCHANGED <<chunks, totalRead, dataBytes>>
    BY <1>1 DEF Main, AddTask, Wait
  <1>2. ASSUME Read PROVE UNCHANGED <<chunks, totalRead, dataBytes>>
    BY <1>2 DEF Read, ReadFlag, ReadLoop, Gate, Check, Park, ReadPush, ReadClose, ReadReturn
  <1>3. ASSUME Crypt PROVE UNCHANGED <<chunks, totalRead, dataBytes>>
    BY <1>3 DEF Crypt, CryptEnter, CryptFlag, Status, Count, Notify, Gate, Check, Park,
                PopNothing, CryptPop, CryptWork, CryptClose, CryptReturn
  <1>4. ASSUME Write PROVE UNCHANGED <<chunks, totalRead, dataBytes>>
    BY <1>4 DEF Write, WriteEnter, WriteOpen, Status, Count, Notify, PopNothing, WritePop,
                WriteReturn
  <1>5. ASSUME Outside PROVE UNCHANGED <<chunks, totalRead, dataBytes>>
    BY <1>5 DEF Outside, SpuriousWake, Throw, Resize, StopPool
  <1>6. ASSUME UNCHANGED vars PROVE UNCHANGED <<chunks, totalRead, dataBytes>>
    BY <1>6 DEF vars
  <1> QED BY <1>1, <1>2, <1>3, <1>4, <1>5, <1>6 DEF Next

(* What CryptWork and WritePop do, with the block that the crypt task makes.      *)
LEMMA CryptWorkFacts ==
    ASSUME ChainInv, CryptWork
    PROVE  \E block, new \in Blocks :
               /\ hand["crypt"] = <<block>> /\ hand' = [hand EXCEPT !["crypt"] = <<>>]
               /\ new.no = block.no /\ new.len = block.len /\ new.end = block.end
               /\ datas' = [datas EXCEPT !["write"] = Append(@, new)]
               /\ bytes' = [bytes EXCEPT !["crypt"] = @ + new.size]
               /\ pc["crypt"] = "work"
               /\ pc' = [pc EXCEPT !["crypt"] = IF new.end THEN "close" ELSE "status"]
               /\ UNCHANGED <<outFile, ofsGood>>
  <1> DEFINE block == Head(hand["crypt"])
  <1>1. PICK size \in CryptSizes(isEncrypt, block.len, block.end) :
           /\ PushBack("write", [block EXCEPT !.size = size])
           /\ bytes' = [bytes EXCEPT !["crypt"] = @ + size]
    BY DEF CryptWork
  <1> DEFINE new == [block EXCEPT !.size = size]
  <1>2. /\ hand["crypt"] # <<>> /\ hand["crypt"] \in Seq(Blocks) /\ Len(hand["crypt"]) <= 1
        /\ isEncrypt \in BOOLEAN
    BY DEF CryptWork, Step, ChainInv, Hands, TypeOK, Tasks
  <1>3. Len(hand["crypt"]) = 1 /\ block = hand["crypt"][1] /\ block \in Blocks
    BY <1>2, OneInHand
  <1>4. hand["crypt"] = <<block>>
    BY <1>2, <1>3
  <1>5. /\ hand' = [hand EXCEPT !["crypt"] = <<>>]
        /\ pc["crypt"] = "work"
        /\ pc' = [pc EXCEPT !["crypt"] = IF block.end THEN "close" ELSE "status"]
        /\ UNCHANGED <<outFile, ofsGood>>
    BY DEF CryptWork, Step
  <1> HIDE DEF block
  <1>6. size \in Nat
    <2>1. block.len \in Nat \ {0} /\ block.end \in BOOLEAN
      BY <1>3 DEF Blocks
    <2> QED BY <1>1, <1>2, <2>1, CryptSizesAreNat
  <1>7. /\ new \in Blocks /\ new.no = block.no /\ new.len = block.len /\ new.end = block.end
        /\ new.size = size
    BY <1>3, <1>6 DEF Blocks
  <1>8. datas' = [datas EXCEPT !["write"] = Append(@, new)]
    BY <1>1 DEF PushBack
  <1>9. bytes' = [bytes EXCEPT !["crypt"] = @ + new.size]
    BY <1>1, <1>7
  <1> HIDE DEF new
  <1>10. pc' = [pc EXCEPT !["crypt"] = IF new.end THEN "close" ELSE "status"]
    BY <1>5, <1>7
  <1> QED BY <1>3, <1>4, <1>5, <1>7, <1>8, <1>9, <1>10

LEMMA WritePopFacts ==
    ASSUME ChainInv, WritePop
    PROVE  \E block \in Blocks :
               /\ datas["write"] # <<>> /\ block = Head(datas["write"])
               /\ datas' = [datas EXCEPT !["write"] = Tail(@)]
               /\ bytes' = [bytes EXCEPT !["write"] = @ + block.size]
               /\ ofsGood' => ofsGood
               /\ outFile' = IF ofsGood' THEN Append(outFile, block) ELSE outFile
               /\ block.no = Written + 1
               /\ ofsGood => Len(outFile) = Written
               /\ pc["write"] = "pop"
               /\ pc' = [pc EXCEPT !["write"] = IF block.end THEN "return" ELSE "status"]
               /\ UNCHANGED <<hand, value>>
  <1> DEFINE block == Head(datas["write"])
  <1>1. /\ datas["write"] # <<>>
        /\ datas' = [datas EXCEPT !["write"] = Tail(@)]
        /\ bytes' = [bytes EXCEPT !["write"] = @ + block.size]
        /\ outFile' = IF ofsGood' THEN Append(outFile, block) ELSE outFile
        /\ UNCHANGED <<hand, value>>
    BY DEF WritePop
  <1>2. ofsGood' => ofsGood
    BY Zenon DEF WritePop
  <1>3. /\ pc["write"] = "pop"
        /\ pc' = [pc EXCEPT !["write"] = IF block.end THEN "return" ELSE "status"]
    BY DEF WritePop, Step
  <1>4. datas["write"] \in Seq(Blocks)
    BY DEF ChainInv, TypeOK, Tasks
  <1>5. Len(datas["write"]) >= 1 /\ block = datas["write"][1] /\ block \in Blocks
    BY <1>1, <1>4, HeadAndTail
  <1>6. block.no = Written + 1
    <2>1. 1 \in 1 .. Len(datas["write"])
      BY <1>4, <1>5
    <2> QED BY <1>5, <2>1 DEF ChainInv, InOrder
  <1>7. ofsGood => Len(outFile) = Written
    BY DEF ChainInv, InOrder
  <1> HIDE DEF block
  <1> QED BY <1>1, <1>2, <1>3, <1>5, <1>6, <1>7 DEF block

(* A step other than Fetch brings no block into the chain that has another place. *)
LEMMA InChainStep ==
    ASSUME ChainInv, [Next]_vars, ~Fetch
    PROVE  \A block \in InChain' : \E old \in InChain :
               block.no = old.no /\ block.len = old.len /\ block.end = old.end
  <1>0. /\ hand["read"] \in Seq(Blocks) /\ hand["crypt"] \in Seq(Blocks)
        /\ datas["crypt"] \in Seq(Blocks) /\ datas["write"] \in Seq(Blocks)
        /\ outFile \in Seq(Blocks) /\ Len(hand["read"]) <= 1
        /\ DOMAIN hand = Tasks /\ DOMAIN datas = Tasks
    BY DEF ChainInv, TypeOK, Tasks
  <1>1. CASE ReadPush
    <2> DEFINE block == Head(hand["read"])
    <2>1. /\ hand["read"] # <<>>
          /\ datas' = [datas EXCEPT !["crypt"] = Append(@, block)]
          /\ hand' = [hand EXCEPT !["read"] = <<>>]
          /\ outFile' = outFile
      BY <1>1 DEF ReadPush, PushBack, Step, output, ChainInv, Hands
    <2>2. block \in Blocks /\ block \in BlocksIn(hand["read"])
      BY <1>0, <2>1, HeadAndTail, InFacts
    <2> HIDE DEF block
    <2>3. /\ hand'["read"] = <<>> /\ hand'["crypt"] = hand["crypt"]
          /\ datas'["crypt"] = Append(datas["crypt"], block) /\ datas'["write"] = datas["write"]
      BY <1>0, <2>1 DEF Tasks
    <2>4. BlocksIn(datas'["crypt"]) = BlocksIn(datas["crypt"]) \cup {block}
      BY <1>0, <2>2, <2>3, InFacts
    <2>5. BlocksIn(hand'["read"]) = {}
      BY <2>3, InFacts
    <2>6. InChain' \subseteq InChain
      BY <2>1, <2>2, <2>3, <2>4, <2>5 DEF InChain
    <2> QED BY <2>6
  <1>2. CASE CryptPop
    <2> DEFINE block == Head(datas["crypt"])
    <2>1. /\ datas["crypt"] # <<>>
          /\ datas' = [datas EXCEPT !["crypt"] = Tail(@)]
          /\ hand' = [hand EXCEPT !["crypt"] = <<block>>]
          /\ outFile' = outFile
      BY <1>2 DEF CryptPop, output
    <2>2. block \in Blocks /\ block \in BlocksIn(datas["crypt"])
      BY <1>0, <2>1, HeadAndTail, InFacts
    <2> HIDE DEF block
    <2>3. /\ hand'["crypt"] = <<block>> /\ hand'["read"] = hand["read"]
          /\ datas'["crypt"] = Tail(datas["crypt"]) /\ datas'["write"] = datas["write"]
      BY <1>0, <2>1 DEF Tasks
    <2>4. BlocksIn(datas'["crypt"]) \subseteq BlocksIn(datas["crypt"])
      BY <1>0, <2>1, <2>3, InFacts
    <2>5. BlocksIn(hand'["crypt"]) = {block}
      BY <2>2, <2>3, InFacts
    <2>6. InChain' \subseteq InChain
      BY <2>1, <2>2, <2>3, <2>4, <2>5 DEF InChain
    <2> QED BY <2>6
  <1>3. CASE CryptWork
    <2>1. PICK block \in Blocks, new \in Blocks :
             /\ hand["crypt"] = <<block>> /\ hand' = [hand EXCEPT !["crypt"] = <<>>]
             /\ new.no = block.no /\ new.len = block.len /\ new.end = block.end
             /\ datas' = [datas EXCEPT !["write"] = Append(@, new)]
             /\ outFile' = outFile
      BY <1>3, CryptWorkFacts
    <2>2. /\ hand'["crypt"] = <<>> /\ hand'["read"] = hand["read"]
          /\ datas'["write"] = Append(datas["write"], new) /\ datas'["crypt"] = datas["crypt"]
      BY <1>0, <2>1 DEF Tasks
    <2>3. BlocksIn(datas'["write"]) = BlocksIn(datas["write"]) \cup {new}
      BY <1>0, <2>2, InFacts
    <2>4. BlocksIn(hand["crypt"]) = {block} /\ BlocksIn(hand'["crypt"]) = {}
      BY <2>1, <2>2, InFacts
    <2>5. InChain' \subseteq InChain \cup {new} /\ block \in InChain
      BY <2>1, <2>2, <2>3, <2>4 DEF InChain
    <2> QED BY <2>1, <2>5
  <1>4. CASE WritePop
    <2>1. PICK block \in Blocks :
             /\ datas["write"] # <<>> /\ block = Head(datas["write"])
             /\ datas' = [datas EXCEPT !["write"] = Tail(@)]
             /\ outFile' = IF ofsGood' THEN Append(outFile, block) ELSE outFile
             /\ hand' = hand
      BY <1>4, WritePopFacts
    <2>2. block \in BlocksIn(datas["write"])
      BY <1>0, <2>1, InFacts
    <2>3. datas'["write"] = Tail(datas["write"]) /\ datas'["crypt"] = datas["crypt"]
      BY <1>0, <2>1 DEF Tasks
    <2>4. BlocksIn(datas'["write"]) \subseteq BlocksIn(datas["write"])
      BY <1>0, <2>1, <2>3, InFacts
    <2>5. BlocksIn(outFile') \subseteq BlocksIn(outFile) \cup {block}
      <3>1. BlocksIn(Append(outFile, block)) = BlocksIn(outFile) \cup {block}
        BY <1>0, <2>1, InFacts
      <3> QED BY <2>1, <3>1
    <2>6. InChain' \subseteq InChain
      BY <2>1, <2>2, <2>3, <2>4, <2>5 DEF InChain
    <2> QED BY <2>6
  <1>5. CASE ~ReadPush /\ ~CryptPop /\ ~CryptWork /\ ~WritePop
    <2>1. UNCHANGED order
      BY <1>5, OrderChangers
    <2>2. InChain' = InChain
      BY <2>1 DEF InChain, order
    <2> QED BY <2>2
  <1> QED BY <1>1, <1>2, <1>3, <1>4, <1>5

(* The blocks in the chain are numbered blocks of at least one byte. *)
LEMMA InChainType ==
    ASSUME TypeOK
    PROVE  \A block \in InChain :
               /\ block.no \in Nat /\ block.no >= 1 /\ block.len \in Nat /\ block.len >= 1
               /\ block.end \in BOOLEAN /\ Reach(block) \in Nat
  <1>1. /\ hand["read"] \in Seq(Blocks) /\ hand["crypt"] \in Seq(Blocks)
        /\ datas["crypt"] \in Seq(Blocks) /\ datas["write"] \in Seq(Blocks)
        /\ outFile \in Seq(Blocks)
    BY DEF TypeOK, Tasks
  <1>2. \A blocks \in Seq(Blocks) : BlocksIn(blocks) \subseteq Blocks
    BY DEF BlocksIn
  <1>3. InChain \subseteq Blocks
    BY <1>1, <1>2 DEF InChain
  <1>4. ASSUME NEW block \in Blocks
        PROVE  /\ block.no \in Nat /\ block.no >= 1 /\ block.len \in Nat /\ block.len >= 1
               /\ block.end \in BOOLEAN
    BY DEF Blocks
  <1>5. ASSUME NEW n \in Nat, n >= 1, NEW len \in Nat
        PROVE  (n - 1) * ReadDataSize + len \in Nat
    <2>1. n - 1 \in Nat /\ ReadDataSize \in Nat
      BY <1>5, SizeFacts
    <2>2. (n - 1) * ReadDataSize \in Nat
      BY <2>1
    <2> QED BY <2>2
  <1> QED BY <1>3, <1>4, <1>5 DEF Reach

(* A block that Fetch brings into the chain is the next one and starts where the *)
(* last one ended; no other block is the last one then.                          *)
LEMMA FetchPlaces ==
    ASSUME OutputInv, Fetch
    PROVE  AllPlaced'
  <1> DEFINE left == IF fileLen > totalRead THEN fileLen - totalRead ELSE 0
             got == IF left < ReadDataSize THEN left ELSE ReadDataSize
             next == NewData(chunks + 1, got, ReachedEnd(totalRead + got))
  <1>0. /\ hand["read"] \in Seq(Blocks) /\ DOMAIN hand = Tasks
        /\ chunks \in Nat /\ totalRead \in Nat /\ fileLen \in Nat /\ dataBytes \in Nat
    BY DEF OutputInv, EndInv, ChainInv, TypeOK, Tasks
  <1>1. ReadDataSize \in Nat /\ ReadDataSize >= 1
    BY SizeFacts
  <1>2. totalRead = chunks * ReadDataSize
    BY DEF OutputInv, ReadInFull, Fetch, Step
  <1>3. got \in Nat /\ got <= ReadDataSize
    BY <1>0, <1>1
  <1>4. UNCHANGED <<datas, dataBytes, outFile>>
    BY DEF Fetch, output
  <1>5. CASE got = 0
    <2> HIDE DEF got
    <2>1. UNCHANGED <<hand, chunks, totalRead>>
      BY <1>5 DEF Fetch, got
    <2> QED BY <1>4, <2>1 DEF OutputInv, AllPlaced, Placed, Reach, InChain
  <1>6. CASE got # 0
    <2> HIDE DEF got
    <2>1. /\ chunks' = chunks + 1 /\ totalRead' = totalRead + got
          /\ hand' = [hand EXCEPT !["read"] = <<next>>]
      BY <1>6 DEF Fetch, got
    <2>2. PICK new \in Blocks : /\ new = next /\ new.no = chunks + 1 /\ new.len = got
                                /\ new.end = (totalRead + got = dataBytes)
      <3> DEFINE end == totalRead + got = dataBytes
      <3>1. end \in BOOLEAN /\ next = NewData(chunks + 1, got, end)
        BY DEF ReachedEnd
      <3> HIDE DEF end
      <3>2. next \in Blocks /\ next.no = chunks + 1 /\ next.len = got /\ next.end = end
        BY <1>0, <1>3, <1>6, <3>1 DEF NewData, Blocks
      <3> HIDE DEF next
      <3> QED BY <3>2 DEF end
    <2> HIDE DEF next
    <2>3. hand'["read"] = <<new>> /\ hand'["crypt"] = hand["crypt"]
      BY <1>0, <2>1, <2>2 DEF Tasks
    <2>4. BlocksIn(hand'["read"]) = {new}
      BY <2>2, <2>3, InFacts
    <2>5. InChain' \subseteq InChain \cup {new}
      BY <1>4, <2>3, <2>4 DEF InChain
    <2>6. Placed(new)'
      <3>1. ((chunks + 1) - 1) * ReadDataSize = chunks * ReadDataSize
        BY <1>0
      <3>2. Reach(new) = totalRead + got
        BY <1>2, <2>2, <3>1 DEF Reach
      <3>3. ~(chunks + 1 < chunks + 1) /\ chunks + 1 <= chunks + 1
        BY <1>0
      <3> QED BY <1>4, <2>1, <2>2, <3>2, <3>3 DEF Placed, Reach
    <2>7. ASSUME NEW old \in InChain PROVE Placed(old)'
      <3>1. /\ old.no \in Nat /\ old.no >= 1 /\ old.len \in Nat /\ Reach(old) \in Nat
        BY InChainType DEF OutputInv, EndInv, ChainInv
      <3>2. Placed(old)
        BY DEF OutputInv, AllPlaced
      <3>3. old.no <= chunks /\ old.no < chunks' /\ old.no # chunks' /\ old.no <= chunks'
        BY <1>0, <2>1, <3>1, <3>2 DEF Placed
      <3>4. old.len = ReadDataSize
        <4>1. CASE old.no < chunks
          BY <3>2, <4>1 DEF Placed
        <4>2. CASE old.no = chunks
          <5>1. (old.no - 1) * ReadDataSize + old.len = chunks * ReadDataSize
            BY <1>2, <3>2, <4>2 DEF Placed, Reach
          <5>2. chunks * ReadDataSize = (old.no - 1) * ReadDataSize + ReadDataSize
            BY <1>1, <3>1, <4>2
          <5>3. (old.no - 1) * ReadDataSize \in Int
            BY <1>1, <3>1
          <5> QED BY <1>1, <3>1, <5>1, <5>2, <5>3
        <4> QED BY <1>0, <3>1, <3>3, <4>1, <4>2
      <3> QED BY <1>4, <3>2, <3>3, <3>4 DEF Placed, Reach
    <2> QED BY <2>5, <2>6, <2>7 DEF AllPlaced
  <1> QED BY <1>5, <1>6

(* The blocks keep their places; when OpenFile sets the length there is none.     *)
LEMMA PlacesKept ==
    ASSUME OutputInv, [Next]_vars
    PROVE  AllPlaced'
  <1>1. CASE Fetch
    BY <1>1, FetchPlaces
  <1>2. CASE ~Fetch
    <2>1. \A block \in InChain' : \E old \in InChain :
             block.no = old.no /\ block.len = old.len /\ block.end = old.end
      BY <1>2, InChainStep DEF OutputInv, EndInv
    <2>2. CASE ReadOpen
      <3>1. chunks = 0
        BY <2>2 DEF ReadOpen, Step, OutputInv, ReadInFull
      <3>2. ASSUME NEW old \in InChain PROVE FALSE
        <4>1. old.no \in Nat /\ old.no >= 1
          BY InChainType DEF OutputInv, EndInv, ChainInv
        <4>2. old.no <= 0
          BY <3>1 DEF OutputInv, AllPlaced, Placed
        <4> QED BY <4>1, <4>2
      <3> QED BY <2>1, <3>2 DEF AllPlaced
    <2>3. CASE ~ReadOpen
      <3>1. UNCHANGED <<chunks, totalRead, dataBytes>>
        BY <1>2, <2>3, PlaceChangers
      <3>2. ASSUME NEW block \in InChain' PROVE Placed(block)'
        <4>1. PICK old \in InChain :
                 block.no = old.no /\ block.len = old.len /\ block.end = old.end
          BY <2>1
        <4>2. Placed(old)
          BY DEF OutputInv, AllPlaced
        <4> QED BY <3>1, <4>1, <4>2 DEF Placed, Reach
      <3> QED BY <3>2 DEF AllPlaced
    <2> QED BY <2>2, <2>3
  <1> QED BY <1>1, <1>2

(* What is written and what waits to be written, when a block comes or moves on.  *)
LEMMA ProducedFacts ==
    ASSUME NEW out \in Seq(Blocks), NEW blocks \in Seq(Blocks)
    PROVE  /\ out \o blocks \in Seq(Blocks)
           /\ Len(out) <= Len(out \o blocks)
           /\ Len(out \o blocks) = Len(out) + Len(blocks)
           /\ \A i \in 1 .. Len(out) : (out \o blocks)[i] = out[i]
           /\ \A block \in Blocks : out \o Append(blocks, block) = Append(out \o blocks, block)
           /\ blocks # <<>> => Append(out, Head(blocks)) \o Tail(blocks) = out \o blocks
  <1>1. ASSUME NEW block \in Blocks
        PROVE  out \o Append(blocks, block) = Append(out \o blocks, block)
    <2> DEFINE s == out \o Append(blocks, block)
               t == Append(out \o blocks, block)
    <2>1. s \in Seq(Blocks) /\ t \in Seq(Blocks) /\ Len(s) = Len(t)
      OBVIOUS
    <2>2. \A i \in 1 .. Len(s) : s[i] = t[i]
      OBVIOUS
    <2> QED BY <2>1, <2>2
  <1>2. ASSUME blocks # <<>>
        PROVE  Append(out, Head(blocks)) \o Tail(blocks) = out \o blocks
    <2> DEFINE s == Append(out, Head(blocks)) \o Tail(blocks)
               t == out \o blocks
    <2>1. /\ Len(blocks) >= 1 /\ Head(blocks) = blocks[1] /\ Head(blocks) \in Blocks
          /\ Len(Tail(blocks)) = Len(blocks) - 1 /\ Tail(blocks) \in Seq(Blocks)
          /\ \A i \in 1 .. Len(Tail(blocks)) : Tail(blocks)[i] = blocks[i + 1]
      BY <1>2, HeadAndTail
    <2>2. s \in Seq(Blocks) /\ t \in Seq(Blocks) /\ Len(s) = Len(t)
      BY <2>1
    <2>3. \A i \in 1 .. Len(s) : s[i] = t[i]
      BY <2>1
    <2> QED BY <2>2, <2>3
  <1>3. /\ out \o blocks \in Seq(Blocks)
        /\ Len(out) <= Len(out \o blocks)
        /\ Len(out \o blocks) = Len(out) + Len(blocks)
    OBVIOUS
  <1>4. \A i \in 1 .. Len(out) : (out \o blocks)[i] = out[i]
    OBVIOUS
  <1> QED BY <1>1, <1>2, <1>3, <1>4

(* One block more on the way to the file, when the crypt task has made it.        *)
LEMMA WorkAddsUp ==
    ASSUME OutputInv, CryptWork
    PROVE  OutputAddsUp'
  <1>0. /\ datas["write"] \in Seq(Blocks) /\ outFile \in Seq(Blocks)
        /\ DOMAIN datas = Tasks /\ bytes \in [Tasks -> Nat] /\ DOMAIN pc = Tasks
    BY DEF OutputInv, EndInv, ChainInv, TypeOK, Tasks
  <1>1. PICK block \in Blocks, new \in Blocks :
           /\ datas' = [datas EXCEPT !["write"] = Append(@, new)]
           /\ bytes' = [bytes EXCEPT !["crypt"] = @ + new.size]
           /\ pc["crypt"] = "work"
           /\ pc' = [pc EXCEPT !["crypt"] = IF new.end THEN "close" ELSE "status"]
           /\ UNCHANGED <<outFile, ofsGood>>
    BY CryptWorkFacts DEF OutputInv, EndInv
  <1>2. datas'["write"] = Append(datas["write"], new)
    BY <1>0, <1>1 DEF Tasks
  <1>3. bytes'["write"] = bytes["write"] /\ bytes'["crypt"] = bytes["crypt"] + new.size
    BY <1>0, <1>1 DEF Tasks
  <1>4. ~CryptLeft /\ (new.end => CryptLeft')
    BY <1>0, <1>1 DEF CryptLeft, Tasks
  <1>5. Produced \in Seq(Blocks) /\ Produced' = Append(Produced, new)
    BY <1>0, <1>1, <1>2, ProducedFacts DEF Produced
  <1> SUFFICES ASSUME ofsGood'
               PROVE  /\ bytes'["write"] = SizeSum(outFile')
                      /\ bytes'["crypt"] = SizeSum(Produced')
                      /\ LenIs(outFile)'
                      /\ EndsIn(Produced, CryptLeft)'
    BY DEF OutputAddsUp
  <1>6. /\ bytes["write"] = SizeSum(outFile) /\ bytes["crypt"] = SizeSum(Produced)
        /\ LenIs(outFile) /\ EndsIn(Produced, CryptLeft)
    BY <1>1 DEF OutputInv, OutputAddsUp
  <1>7. bytes'["write"] = SizeSum(outFile') /\ bytes'["crypt"] = SizeSum(Produced')
    BY <1>1, <1>3, <1>5, <1>6, SumFacts
  <1>8. LenIs(outFile)'
    BY <1>1, <1>6 DEF LenIs, Reach
  <1>9. EndsIn(Produced', CryptLeft')
    <2>1. /\ Len(Produced') = Len(Produced) + 1 /\ Produced'[Len(Produced) + 1] = new
          /\ \A i \in 1 .. Len(Produced) : Produced'[i] = Produced[i]
          /\ Len(Produced) \in Nat
      BY <1>5
    <2>2. ASSUME NEW i \in 1 .. Len(Produced'), Produced'[i].end
          PROVE  i = Len(Produced') /\ CryptLeft'
      <3>1. CASE i \in 1 .. Len(Produced)
        BY <1>4, <1>6, <2>1, <2>2, <3>1 DEF EndsIn
      <3>2. CASE i = Len(Produced) + 1
        BY <1>4, <2>1, <2>2, <3>2
      <3> QED BY <2>1, <3>1, <3>2
    <2> QED BY <2>2 DEF EndsIn
  <1> QED BY <1>7, <1>8, <1>9

(* A block reaches the file: it starts where the blocks before it ended.          *)
LEMMA PopAddsUp ==
    ASSUME OutputInv, WritePop
    PROVE  OutputAddsUp'
  <1>0. /\ datas["write"] \in Seq(Blocks) /\ outFile \in Seq(Blocks)
        /\ DOMAIN datas = Tasks /\ bytes \in [Tasks -> Nat] /\ DOMAIN pc = Tasks
        /\ Len(outFile) \in Nat /\ TypeOK /\ chunks \in Nat
    BY DEF OutputInv, EndInv, ChainInv, TypeOK, Tasks
  <1>1. PICK block \in Blocks :
           /\ datas["write"] # <<>> /\ block = Head(datas["write"])
           /\ datas' = [datas EXCEPT !["write"] = Tail(@)]
           /\ bytes' = [bytes EXCEPT !["write"] = @ + block.size]
           /\ ofsGood' => ofsGood
           /\ outFile' = IF ofsGood' THEN Append(outFile, block) ELSE outFile
           /\ block.no = Written + 1
           /\ ofsGood => Len(outFile) = Written
           /\ pc' = [pc EXCEPT !["write"] = IF block.end THEN "return" ELSE "status"]
    BY WritePopFacts DEF OutputInv, EndInv
  <1> SUFFICES ASSUME ofsGood'
               PROVE  /\ bytes'["write"] = SizeSum(outFile')
                      /\ bytes'["crypt"] = SizeSum(Produced')
                      /\ LenIs(outFile)'
                      /\ EndsIn(Produced, CryptLeft)'
    BY DEF OutputAddsUp
  <1>2. /\ bytes["write"] = SizeSum(outFile) /\ bytes["crypt"] = SizeSum(Produced)
        /\ LenIs(outFile) /\ EndsIn(Produced, CryptLeft)
    BY <1>1 DEF OutputInv, OutputAddsUp
  <1>3. outFile' = Append(outFile, block) /\ block.no = Len(outFile) + 1
    BY <1>1
  <1>4. datas'["write"] = Tail(datas["write"])
    BY <1>0, <1>1 DEF Tasks
  <1>5. bytes'["crypt"] = bytes["crypt"] /\ bytes'["write"] = bytes["write"] + block.size
    BY <1>0, <1>1 DEF Tasks
  <1>6. CryptLeft' = CryptLeft
    BY <1>0, <1>1 DEF CryptLeft, Tasks
  <1>7. Produced' = Produced
    <2>1. Append(outFile, Head(datas["write"])) \o Tail(datas["write"]) = outFile \o datas["write"]
      BY <1>0, <1>1, ProducedFacts
    <2> QED BY <1>1, <1>3, <1>4, <2>1 DEF Produced
  <1>8. bytes'["write"] = SizeSum(outFile') /\ bytes'["crypt"] = SizeSum(Produced')
    BY <1>0, <1>2, <1>3, <1>5, <1>7, SumFacts
  <1>9. LenSum(outFile') = Reach(block)
    <2>1. LenSum(outFile') = LenSum(outFile) + block.len
      BY <1>0, <1>3, SumFacts
    <2>2. block \in InChain
      BY <1>0, <1>1, InFacts DEF InChain
    <2>3. Placed(block) /\ block.len \in Nat
      BY <1>0, <2>2, InChainType DEF OutputInv, AllPlaced
    <2>4. CASE outFile = <<>>
      <3>1. LenSum(outFile) = 0 /\ Len(outFile) = 0
        BY <2>4, SumFacts
      <3>2. (block.no - 1) * ReadDataSize = 0
        BY <1>3, <3>1, SizeFacts
      <3> QED BY <2>1, <2>3, <3>1, <3>2 DEF Reach
    <2>5. CASE outFile # <<>>
      <3> DEFINE last == outFile[Len(outFile)]
      <3>1. Len(outFile) >= 1 /\ Len(outFile) \in 1 .. Len(outFile) /\ Last(outFile) = last
        BY <1>0, <2>5 DEF Last
      <3>2. last.no = Len(outFile)
        BY <3>1 DEF OutputInv, EndInv, ChainInv, InOrder
      <3>3. last \in InChain
        BY <3>1 DEF InChain, BlocksIn
      <3> HIDE DEF last
      <3>4. Placed(last)
        BY <3>3 DEF OutputInv, AllPlaced
      <3>5. last.no < chunks
        BY <1>0, <1>3, <2>3, <3>2 DEF Placed
      <3>6. last.len = ReadDataSize
        BY <3>4, <3>5 DEF Placed
      <3>7. LenSum(outFile) = (Len(outFile) - 1) * ReadDataSize + ReadDataSize
        BY <1>2, <2>5, <3>1, <3>2, <3>6 DEF LenIs, Reach
      <3>8. (Len(outFile) - 1) * ReadDataSize + ReadDataSize = Len(outFile) * ReadDataSize
        BY <1>0, SizeFacts
      <3>9. ((Len(outFile) + 1) - 1) * ReadDataSize = Len(outFile) * ReadDataSize
        BY <1>0
      <3>10. Reach(block) = Len(outFile) * ReadDataSize + block.len
        BY <1>3, <3>9 DEF Reach
      <3> QED BY <2>1, <3>7, <3>8, <3>10
    <2> QED BY <2>4, <2>5
  <1>10. LenIs(outFile')
    <2>1. Len(outFile') = Len(outFile) + 1 /\ outFile'[Len(outFile) + 1] = block
      BY <1>0, <1>3
    <2>2. outFile' # <<>> /\ Last(outFile') = block
      BY <1>0, <2>1 DEF Last
    <2> QED BY <1>9, <2>2 DEF LenIs
  <1>11. EndsIn(Produced', CryptLeft')
    BY <1>2, <1>6, <1>7
  <1> QED BY <1>8, <1>10, <1>11

(* A crypt task that has left its loop does not enter it again. *)
LEMMA CryptLeaves ==
    ASSUME TypeOK, [Next]_vars, CryptLeft
    PROVE  CryptLeft'
  <1> USE DEF TypeOK, Tasks, CryptLeft
  <1>1. ASSUME NEW t \in Tasks, AddTask(t) PROVE CryptLeft'
    BY <1>1 DEF AddTask, Step, Advance, env, reader, output, flags, Down
  <1>2. ASSUME NEW t \in Tasks, Wait(t) PROVE CryptLeft'
    BY <1>2 DEF Wait, Advance, env, reader, output, flags, Down
  <1>3. CASE ReadOpen
    BY <1>3 DEF ReadOpen, Step, Return, env, output, flags
  <1>4. CASE ReadFlag
    BY <1>4 DEF ReadFlag, Step, env, reader, output
  <1>5. CASE ReadLoop
    BY <1>5 DEF ReadLoop, Step, env, reader, output, flags
  <1>6. CASE Gate("read")
    BY <1>6 DEF Gate, Step, AfterGate, env, reader, output, flags
  <1>7. CASE Check("read")
    BY <1>7 DEF Check, Step, AfterGate, env, reader, output, flags
  <1>8. CASE Park("read")
    BY <1>8 DEF Park, Step, env, reader, output, flags
  <1>9. CASE Fetch
    BY <1>9 DEF Fetch, Step, env, output, flags
  <1>10. CASE ReadPush
    BY <1>10 DEF ReadPush, Step, PushBack, env, reader, output, flags
  <1>11. CASE ReadClose
    BY <1>11 DEF ReadClose, Step, env, reader, output
  <1>12. CASE ReadReturn
    BY <1>12 DEF ReadReturn, Step, Return, env, reader, output, flags
  <1>13. CASE CryptEnter
    BY <1>13 DEF CryptEnter, Step, env, reader, output
  <1>14. CASE CryptFlag
    BY <1>14 DEF CryptFlag, Step, env, reader, output
  <1>15. CASE Status("crypt")
    BY <1>15 DEF Status, Step, AfterNotify, env, reader, output, flags
  <1>16. CASE Count("crypt")
    BY <1>16 DEF Count, Step, AfterNotify, env, reader, output, flags
  <1>17. CASE Notify("crypt")
    BY <1>17 DEF Notify, Up, AfterNotify, env, reader, output, flags
  <1>18. CASE Gate("crypt")
    BY <1>18 DEF Gate, Step, AfterGate, env, reader, output, flags
  <1>19. CASE Check("crypt")
    BY <1>19 DEF Check, Step, AfterGate, env, reader, output, flags
  <1>20. CASE Park("crypt")
    BY <1>20 DEF Park, Step, env, reader, output, flags
  <1>21. CASE PopNothing("crypt")
    BY <1>21 DEF PopNothing, Step, env, reader, output, flags
  <1>22. CASE CryptPop
    BY <1>22 DEF CryptPop, Step, env, reader, output, flags
  <1>23. CASE CryptWork
    BY <1>23 DEF CryptWork, Step, PushBack, env, reader, flags
  <1>24. CASE CryptClose
    BY <1>24 DEF CryptClose, Step, env, reader, output
  <1>25. CASE CryptReturn
    BY <1>25 DEF CryptReturn, Step, Return, env, reader, output, flags
  <1>26. CASE WriteEnter
    BY <1>26 DEF WriteEnter, Step, env, reader, output
  <1>27. CASE WriteOpen
    BY <1>27 DEF WriteOpen, Step, Return, env, reader, output, flags
  <1>28. CASE Status("write")
    BY <1>28 DEF Status, Step, AfterNotify, env, reader, output, flags
  <1>29. CASE Count("write")
    BY <1>29 DEF Count, Step, AfterNotify, env, reader, output, flags
  <1>30. CASE Notify("write")
    BY <1>30 DEF Notify, Up, AfterNotify, env, reader, output, flags
  <1>31. CASE PopNothing("write")
    BY <1>31 DEF PopNothing, Step, env, reader, output, flags
  <1>32. CASE WritePop
    BY <1>32 DEF WritePop, Step, env, reader, flags
  <1>33. CASE WriteReturn
    BY <1>33 DEF WriteReturn, Step, Return, env, reader, output, flags
  <1>34. ASSUME NEW t \in {"read", "crypt"}, SpuriousWake(t) PROVE CryptLeft'
    BY <1>34 DEF SpuriousWake, Step, env, reader, output, flags
  <1>35. ASSUME NEW t \in {"read", "crypt"}, Throw(t) PROVE CryptLeft'
    BY <1>35 DEF Throw, Step, env, reader, output, flags
  <1>36. CASE Resize
    BY <1>36 DEF Resize, reader, output, flags
  <1>37. CASE StopPool
    BY <1>37 DEF StopPool, reader, output, flags
  <1>38. CASE UNCHANGED vars
    BY <1>38 DEF vars, env, reader, output, flags
  <1> QED
    BY <1>1, <1>2, <1>3, <1>4, <1>5, <1>6, <1>7, <1>8, <1>9, <1>10,
       <1>11, <1>12, <1>13, <1>14, <1>15, <1>16, <1>17, <1>18, <1>19, <1>20,
       <1>21, <1>22, <1>23, <1>24, <1>25, <1>26, <1>27, <1>28, <1>29, <1>30,
       <1>31, <1>32, <1>33, <1>34, <1>35, <1>36, <1>37, <1>38
    DEF Next, Main, Read, Crypt, Write, Outside

(* Only the crypt and the write task change the list between them. *)
LEMMA OtherStepsAddUp ==
    ASSUME OutputInv, [Next]_vars, ~CryptWork, ~WritePop
    PROVE  OutputAddsUp'
  <1>1. UNCHANGED <<bytes, outFile, ofsGood>>
    BY OutputChangers
  <1>2. datas'["write"] = datas["write"]
    <2>1. CASE ReadPush \/ CryptPop
      BY <2>1 DEF ReadPush, CryptPop, PushBack, OutputInv, EndInv, ChainInv, TypeOK, Tasks
    <2>2. CASE Fetch
      BY <2>2 DEF Fetch
    <2>3. CASE ~ReadPush /\ ~CryptPop /\ ~Fetch
      <3>1. UNCHANGED order
        BY <2>3, OrderChangers
      <3> QED BY <3>1 DEF order
    <2> QED BY <2>1, <2>2, <2>3
  <1>3. CryptLeft => CryptLeft'
    BY CryptLeaves DEF OutputInv, EndInv, ChainInv
  <1>4. Produced' = Produced
    BY <1>1, <1>2 DEF Produced
  <1> QED BY <1>1, <1>3, <1>4 DEF OutputInv, OutputAddsUp, LenIs, Reach, EndsIn

LEMMA LastOfLonger ==
    ASSUME NEW blocks \in Seq(Blocks), NEW block \in Blocks
    PROVE  Append(blocks, block) # <<>> /\ Last(Append(blocks, block)) = block
  <1>1. /\ Len(Append(blocks, block)) = Len(blocks) + 1 /\ Len(blocks) \in Nat
        /\ Append(blocks, block)[Len(blocks) + 1] = block
    OBVIOUS
  <1> QED BY <1>1 DEF Last

(* What a task returns is what has been counted when it leaves its loop.          *)
LEMMA ReturnedStep ==
    ASSUME OutputInv, [Next]_vars
    PROVE  Returned'
  <1> USE DEF OutputInv, EndInv, ChainInv, TypeOK, Tasks, ReadPc, CryptPc, WritePc,
              Returned, EndWritten
  <1>1. ASSUME NEW t \in Tasks, AddTask(t) PROVE Returned'
    BY <1>1 DEF AddTask, Step, Advance, env, reader, output, flags, Down
  <1>2. ASSUME NEW t \in Tasks, Wait(t) PROVE Returned'
    BY <1>2 DEF Wait, Advance, env, reader, output, flags, Down
  <1>3. CASE ReadOpen
    BY <1>3 DEF ReadOpen, Step, Return, env, output, flags
  <1>4. CASE ReadFlag
    BY <1>4 DEF ReadFlag, Step, env, reader, output
  <1>5. CASE ReadLoop
    BY <1>5 DEF ReadLoop, Step, env, reader, output, flags
  <1>6. CASE Gate("read")
    BY <1>6 DEF Gate, Step, AfterGate, env, reader, output, flags
  <1>7. CASE Check("read")
    BY <1>7 DEF Check, Step, AfterGate, env, reader, output, flags
  <1>8. CASE Park("read")
    BY <1>8 DEF Park, Step, env, reader, output, flags
  <1>9. CASE Fetch
    BY <1>9 DEF Fetch, Step, env, output, flags
  <1>10. CASE ReadPush
    BY <1>10 DEF ReadPush, Step, PushBack, env, reader, output, flags
  <1>11. CASE ReadClose
    BY <1>11 DEF ReadClose, Step, env, reader, output
  <1>12. CASE ReadReturn
    BY <1>12 DEF ReadReturn, Step, Return, env, reader, output, flags
  <1>13. CASE CryptEnter
    BY <1>13 DEF CryptEnter, Step, env, reader, output
  <1>14. CASE CryptFlag
    BY <1>14 DEF CryptFlag, Step, env, reader, output
  <1>15. CASE Status("crypt")
    BY <1>15 DEF Status, Step, AfterNotify, env, reader, output, flags
  <1>16. CASE Count("crypt")
    BY <1>16 DEF Count, Step, AfterNotify, env, reader, output, flags
  <1>17. CASE Notify("crypt")
    BY <1>17 DEF Notify, Up, AfterNotify, env, reader, output, flags
  <1>18. CASE Gate("crypt")
    BY <1>18 DEF Gate, Step, AfterGate, env, reader, output, flags
  <1>19. CASE Check("crypt")
    BY <1>19 DEF Check, Step, AfterGate, env, reader, output, flags
  <1>20. CASE Park("crypt")
    BY <1>20 DEF Park, Step, env, reader, output, flags
  <1>21. CASE PopNothing("crypt")
    BY <1>21 DEF PopNothing, Step, env, reader, output, flags
  <1>22. CASE CryptPop
    BY <1>22 DEF CryptPop, Step, env, reader, output, flags
  <1>23. CASE CryptWork
    BY <1>23 DEF CryptWork, Step, PushBack, env, reader, flags
  <1>24. CASE CryptClose
    BY <1>24 DEF CryptClose, Step, env, reader, output
  <1>25. CASE CryptReturn
    BY <1>25 DEF CryptReturn, Step, Return, env, reader, output, flags
  <1>26. CASE WriteEnter
    BY <1>26 DEF WriteEnter, Step, env, reader, output
  <1>27. CASE WriteOpen
    BY <1>27 DEF WriteOpen, Step, Return, env, reader, output, flags
  <1>28. CASE Status("write")
    BY <1>28 DEF Status, Step, AfterNotify, env, reader, output, flags
  <1>29. CASE Count("write")
    BY <1>29 DEF Count, Step, AfterNotify, env, reader, output, flags
  <1>30. CASE Notify("write")
    BY <1>30 DEF Notify, Up, AfterNotify, env, reader, output, flags
  <1>31. CASE PopNothing("write")
    BY <1>31 DEF PopNothing, Step, env, reader, output, flags
  <1>32. CASE WritePop
    <2>1. PICK block \in Blocks :
             /\ bytes' = [bytes EXCEPT !["write"] = @ + block.size]
             /\ ofsGood' => ofsGood
             /\ outFile' = IF ofsGood' THEN Append(outFile, block) ELSE outFile
             /\ pc["write"] = "pop"
             /\ pc' = [pc EXCEPT !["write"] = IF block.end THEN "return" ELSE "status"]
             /\ value' = value
      BY <1>32, WritePopFacts
    <2>2. value["write"] = <<>>
      <3>1. value["write"] # <<>> => pc["write"] = "ended"
        BY Zenon DEF OutputInv, Returned
      <3> QED BY <2>1, <3>1
    <2>3. bytes'["crypt"] = bytes["crypt"] /\ pc'["crypt"] = pc["crypt"]
      BY <2>1
    <2>4. ASSUME pc'["write"] = "return", ofsGood' PROVE outFile' # <<>> /\ Last(outFile').end
      <3>1. block.end
        BY <2>1, <2>4
      <3>2. outFile' = Append(outFile, block) /\ outFile \in Seq(Blocks)
        BY <2>1, <2>4
      <3>3. outFile' # <<>> /\ Last(outFile') = block
        BY <3>2, LastOfLonger
      <3> QED BY <3>1, <3>3
    <2> QED BY <2>1, <2>2, <2>3, <2>4
  <1>33. CASE WriteReturn
    BY <1>33 DEF WriteReturn, Step, Return, env, reader, output, flags
  <1>34. ASSUME NEW t \in {"read", "crypt"}, SpuriousWake(t) PROVE Returned'
    BY <1>34 DEF SpuriousWake, Step, env, reader, output, flags
  <1>35. ASSUME NEW t \in {"read", "crypt"}, Throw(t) PROVE Returned'
    BY <1>35 DEF Throw, Step, env, reader, output, flags
  <1>36. CASE Resize
    BY <1>36 DEF Resize, reader, output, flags
  <1>37. CASE StopPool
    BY <1>37 DEF StopPool, reader, output, flags
  <1>38. CASE UNCHANGED vars
    BY <1>38 DEF vars, env, reader, output, flags
  <1> QED
    BY <1>1, <1>2, <1>3, <1>4, <1>5, <1>6, <1>7, <1>8, <1>9, <1>10,
       <1>11, <1>12, <1>13, <1>14, <1>15, <1>16, <1>17, <1>18, <1>19, <1>20,
       <1>21, <1>22, <1>23, <1>24, <1>25, <1>26, <1>27, <1>28, <1>29, <1>30,
       <1>31, <1>32, <1>33, <1>34, <1>35, <1>36, <1>37, <1>38
    DEF Next, Main, Read, Crypt, Write, Outside

(* The invariant of the output is inductive. *)
THEOREM OutputSafety == Spec => []OutputInv
  <1>1. ASSUME OutputInv, [Next]_vars PROVE OutputInv'
    <2>1. ChainInv'
      BY <1>1, TypeStep, HandsStep, OrderStep DEF OutputInv, EndInv, ChainInv
    <2>2. EndInv'
      BY <1>1, <2>1, KnowStep, MarkStep DEF OutputInv, EndInv
    <2>3. OutputAddsUp'
      BY <1>1, WorkAddsUp, PopAddsUp, OtherStepsAddUp
    <2> QED BY <1>1, <2>2, <2>3, PlacesKept, ReadStep, ReturnedStep DEF OutputInv
  <1> QED BY InitOutputInv, <1>1, PTL DEF Spec

(* WholeOnReturn, for every length, block size and bound and all faults: when the *)
(* write task returns a number other than 0 and no write has failed, the output   *)
(* holds all that the read task has found the input to be long, ends with the     *)
(* mark, and is of the size that the write and the crypt task return             *)
(* (write_task.cc, crypt_task.cc).                                               *)
THEOREM OutputIsWhole == Spec => []WholeOnReturn
  <1>1. OutputInv => WholeOnReturn
    <2> DEFINE nothing == {<<>>, <<0>>}
    <2> SUFFICES ASSUME OutputInv, value["write"] \notin nothing, ofsGood
                 PROVE  /\ Last(outFile).end
                        /\ \A i \in 1 .. Len(outFile) - 1 : ~outFile[i].end
                        /\ LenSum(outFile) = dataBytes
                        /\ value["write"] = <<SizeSum(outFile)>>
                        /\ value["crypt"] \in {<<>>, value["write"]}
      BY DEF WholeOnReturn
    <2>0. /\ datas["write"] \in Seq(Blocks) /\ outFile \in Seq(Blocks)
          /\ Len(outFile) \in Nat /\ TypeOK
      BY DEF OutputInv, EndInv, ChainInv, TypeOK, Tasks
    <2>1. outFile # <<>> /\ Last(outFile).end /\ value["write"] = <<bytes["write"]>>
      BY DEF OutputInv, Returned, EndWritten
    <2>2. /\ bytes["write"] = SizeSum(outFile) /\ bytes["crypt"] = SizeSum(Produced)
          /\ LenIs(outFile) /\ EndsIn(Produced, CryptLeft)
      BY DEF OutputInv, OutputAddsUp
    <2>3. Len(outFile) >= 1 /\ Last(outFile) = outFile[Len(outFile)]
      BY <2>0, <2>1 DEF Last
    <2>4. /\ Len(Produced) = Len(outFile) + Len(datas["write"]) /\ Len(datas["write"]) \in Nat
          /\ \A i \in 1 .. Len(outFile) : i \in 1 .. Len(Produced) /\ Produced[i] = outFile[i]
      BY <2>0, ProducedFacts DEF Produced
    <2>5. Len(datas["write"]) = 0
      BY <2>0, <2>1, <2>2, <2>3, <2>4 DEF EndsIn
    <2>6. Produced = outFile
      BY <2>0, <2>5 DEF Produced
    <2>7. ASSUME NEW i \in 1 .. Len(outFile) - 1 PROVE ~outFile[i].end
      BY <2>0, <2>2, <2>4, <2>5 DEF EndsIn
    <2>8. LenSum(outFile) = dataBytes
      <3>1. Last(outFile) \in InChain
        BY <2>0, <2>3 DEF InChain, BlocksIn
      <3>2. Reach(Last(outFile)) = dataBytes
        BY <2>1, <3>1 DEF OutputInv, AllPlaced, Placed
      <3> QED BY <2>1, <2>2, <3>2 DEF LenIs
    <2>9. value["crypt"] \in {<<>>, value["write"]}
      BY <2>1, <2>2, <2>6 DEF OutputInv, Returned
    <2> QED BY <2>1, <2>2, <2>7, <2>8, <2>9
  <1> QED BY OutputSafety, <1>1, PTL

==============================================================================
