--------------------------- MODULE FileCryptProofs ---------------------------
(***************************************************************************)
(* The safety of the chain read -> crypt -> write, for every length of the  *)
(* file, every block size and bound, and every combination of faults.       *)
(***************************************************************************)
EXTENDS FileCrypt, TLAPS

(* The block a task has in its hand, by its place. *)
Hands ==
    /\ pc["read"] = "push" <=> hand["read"] # <<>>
    /\ hand["crypt"] # <<>> => pc["crypt"] \in {"work", "ended"}
    /\ pc["crypt"] = "work" => hand["crypt"] # <<>>

ChainInv == TypeOK /\ Hands /\ InOrder

------------------------------------------------------------------------------
(* The number of bytes the cipher returns for a block is a natural number, also  *)
(* when the padding is taken off.                                               *)
LEMMA RoundUpBounds ==
    ASSUME NEW n \in Nat \ {0}
    PROVE  RoundUp(n) \in Nat /\ RoundUp(n) >= BlockSize
  <1> DEFINE q == (n + BlockSize - 1) \div BlockSize
  <1>1. BlockSize \in Nat /\ BlockSize >= 1 /\ n + BlockSize - 1 >= BlockSize
    BY BlockSizeAssumption
  <1>2. q \in Nat /\ q >= 1
    BY <1>1
  <1>3. q * BlockSize >= BlockSize /\ q * BlockSize \in Nat
    BY <1>1, <1>2
  <1> QED BY <1>3 DEF RoundUp

LEMMA CryptSizesAreNat ==
    ASSUME NEW n \in Nat \ {0}, NEW encrypt \in BOOLEAN, NEW end \in BOOLEAN,
           NEW size \in CryptSizes(encrypt, n, end)
    PROVE  size \in Nat
  <1>1. BlockSize \in Nat /\ BlockSize >= 1
    BY BlockSizeAssumption
  <1>2. GetMaxPaddingSize(n) \in Nat
    BY <1>1 DEF GetMaxPaddingSize
  <1>3. RoundUp(n) \in Nat /\ RoundUp(n) >= BlockSize
    BY RoundUpBounds
  <1> QED BY <1>1, <1>2, <1>3 DEF CryptSizes

LEMMA InitChainInv == Init => ChainInv
  <1> SUFFICES ASSUME Init PROVE ChainInv
    OBVIOUS
  <1> USE DEF Init, Tasks
  <1>1. TypeOK
    <2>1. fileLen \in Nat /\ main \in {"add", "wait", "done"} \X Tasks
      BY LengthAssumption
    <2>2. /\ pc \in [Tasks -> ReadPc \cup CryptPc \cup WritePc]
          /\ pc["read"] \in ReadPc /\ pc["crypt"] \in CryptPc /\ pc["write"] \in WritePc
      BY DEF ReadPc, CryptPc, WritePc
    <2>3. /\ datas \in [Tasks -> Seq(Blocks)] /\ hand \in [Tasks -> Seq(Blocks)]
          /\ \A t \in Tasks : Len(hand[t]) <= 1
          /\ outFile \in Seq(Blocks) /\ value \in [Tasks -> Seq(Nat)]
      OBVIOUS
    <2>4. /\ nextStatus \in [Tasks -> BOOLEAN] /\ prevStatus \in [Tasks -> BOOLEAN]
          /\ bytes \in [Tasks -> Nat]
      OBVIOUS
    <2>5. /\ isEncrypt \in BOOLEAN /\ isRunning \in BOOLEAN
          /\ eof \in BOOLEAN /\ ofsGood \in BOOLEAN
      OBVIOUS
    <2>6. dataBytes \in Nat /\ chunks \in Nat /\ totalRead \in Nat
      OBVIOUS
    <2> HIDE DEF Init
    <2> QED BY <2>1, <2>2, <2>3, <2>4, <2>5, <2>6 DEF TypeOK
  <1>2. Hands
    BY DEF Hands
  <1>3. InOrder
    <2>1. /\ hand["read"] = <<>> /\ hand["crypt"] = <<>>
          /\ datas["crypt"] = <<>> /\ datas["write"] = <<>> /\ outFile = <<>>
      OBVIOUS
    <2>2. ofsGood /\ chunks = 0
      OBVIOUS
    <2> HIDE DEF Init
    <2>3. /\ Len(datas["crypt"]) = 0 /\ Len(datas["write"]) = 0 /\ Len(hand["read"]) = 0
          /\ Len(hand["crypt"]) = 0 /\ Len(outFile) = 0
      BY <2>1
    <2>4. Sent = 0 /\ Taken = 0 /\ Crypted = 0 /\ Written = 0
      BY <2>2, <2>3 DEF Sent, Taken, Crypted, Written
    <2> QED BY <2>1, <2>2, <2>3, <2>4 DEF InOrder
  <1> QED BY <1>1, <1>2, <1>3 DEF ChainInv

(* Every step keeps the types. *)
LEMMA TypeStep ==
    ASSUME ChainInv, [Next]_vars
    PROVE  TypeOK'
  <1> USE DEF ChainInv, TypeOK, Tasks, ReadPc, CryptPc, WritePc
  <1>1. ASSUME NEW t \in Tasks, AddTask(t) PROVE TypeOK'
    BY <1>1, SMTT(30) DEF AddTask, Step, Advance, env, reader, output, flags, Down
  <1>2. ASSUME NEW t \in Tasks, Wait(t) PROVE TypeOK'
    BY <1>2 DEF Wait, Advance, env, reader, output, flags, Down
  <1>3. CASE ReadOpen
    <2>1. CASE "openIn" \in faults
      <3>1. value' \in [Tasks -> Seq(Nat)]
        <4>1. <<0>> \in Seq(Nat) /\ value' = [value EXCEPT !["read"] = <<0>>]
          BY <1>3, <2>1 DEF ReadOpen, Return
        <4> QED BY <4>1
      <3>2. /\ Step("read", "queued", "ended")
            /\ UNCHANGED <<env, main, flags, datas, hand, reader, output>>
        BY <1>3, <2>1 DEF ReadOpen, reader
      <3> QED BY <3>1, <3>2 DEF Step, env, reader, output, flags
    <2>2. CASE "openIn" \notin faults
      BY <1>3, <2>2, SMTT(30) DEF ReadOpen, Step, Return, env, output, flags
    <2> QED BY <2>1, <2>2
  <1>4. CASE ReadFlag
    BY <1>4 DEF ReadFlag, Step, env, reader, output
  <1>5. CASE ReadLoop
    BY <1>5 DEF ReadLoop, Step, env, reader, output, flags
  <1>6. CASE Gate("read")
    BY <1>6 DEF Gate, Step, AfterGate, env, reader, output, flags
  <1>7. CASE Check("read")
    BY <1>7 DEF Check, Step, AfterGate, env, reader, output, flags
  <1>8. CASE Park("read")
    BY <1>8 DEF Park, Step, env, reader, output, flags
  <1>9. CASE Fetch
    <2> DEFINE left == IF fileLen > totalRead THEN fileLen - totalRead ELSE 0
               got == IF left < ReadDataSize THEN left ELSE ReadDataSize
               block == [no |-> chunks + 1, len |-> got, size |-> got,
                         end |-> ReachedEnd(totalRead + got)]
    <2>1. got \in Nat
      BY SizeAssumption
    <2> HIDE DEF got
    <2>2. eof' \in BOOLEAN
      BY <1>9 DEF Fetch, got
    <2>3. CASE got = 0
      BY <1>9, <2>2, <2>3, SMTT(30) DEF Fetch, Step, env, output, flags, got
    <2>4. CASE got # 0
      <3>1. ReachedEnd(totalRead + got) \in BOOLEAN
        BY DEF ReachedEnd
      <3>2. block \in Blocks
        BY <2>1, <2>4, <3>1 DEF Blocks
      <3>3. /\ Step("read", "fetch", "push") /\ chunks' = chunks + 1
            /\ totalRead' = totalRead + got
            /\ hand' = [hand EXCEPT !["read"] = <<block>>]
            /\ UNCHANGED <<env, main, flags, datas, dataBytes, output, value>>
        BY <1>9, <2>4 DEF Fetch, got, NewData
      <3>4. hand' \in [Tasks -> Seq(Blocks)] /\ \A t \in Tasks : Len(hand'[t]) <= 1
        <4> HIDE DEF block
        <4> QED BY <3>2, <3>3, SMTT(30)
      <3> QED BY <2>1, <2>2, <3>3, <3>4, SMTT(30) DEF Step, env, output, flags
    <2> QED BY <2>3, <2>4
  <1>10. CASE ReadPush
    <2>1. hand["read"] # <<>> /\ Head(hand["read"]) \in Blocks
      BY <1>10 DEF ReadPush, Step, Hands
    <2>2. datas' \in [Tasks -> Seq(Blocks)]
      BY <1>10, <2>1, SMTT(30) DEF ReadPush, PushBack
    <2>3. hand' \in [Tasks -> Seq(Blocks)] /\ \A t \in Tasks : Len(hand'[t]) <= 1
      BY <1>10 DEF ReadPush
    <2> QED BY <1>10, <2>2, <2>3 DEF ReadPush, Step, env, reader, output, flags
  <1>11. CASE ReadClose
    BY <1>11 DEF ReadClose, Step, env, reader, output
  <1>12. CASE ReadReturn
    BY <1>12 DEF ReadReturn, Step, Return, env, reader, output, flags
  <1>13. CASE CryptEnter
    BY <1>13 DEF CryptEnter, Step, env, reader, output
  <1>14. CASE CryptFlag
    BY <1>14 DEF CryptFlag, Step, env, reader, output
  <1>15. CASE Status("crypt")
    BY <1>15 DEF Status, Step, AfterNotify, env, reader, output, flags
  <1>16. CASE Count("crypt")
    BY <1>16 DEF Count, Step, AfterNotify, env, reader, output, flags
  <1>17. CASE Notify("crypt")
    BY <1>17 DEF Notify, Up, AfterNotify, env, reader, output, flags
  <1>18. CASE Gate("crypt")
    BY <1>18 DEF Gate, Step, AfterGate, env, reader, output, flags
  <1>19. CASE Check("crypt")
    BY <1>19 DEF Check, Step, AfterGate, env, reader, output, flags
  <1>20. CASE Park("crypt")
    BY <1>20 DEF Park, Step, env, reader, output, flags
  <1>21. CASE PopNothing("crypt")
    BY <1>21 DEF PopNothing, Step, env, reader, output, flags
  <1>22. CASE CryptPop
    BY <1>22, SMTT(30) DEF CryptPop, Step, env, reader, output, flags
  <1>23. CASE CryptWork
    <2> DEFINE block == Head(hand["crypt"])
    <2>1. block \in Blocks
      BY <1>23, SMTT(30) DEF CryptWork, Step, Hands
    <2>2. PICK size \in CryptSizes(isEncrypt, block.len, block.end) :
             /\ PushBack("write", [block EXCEPT !.size = size])
             /\ bytes' = [bytes EXCEPT !["crypt"] = @ + size]
      BY <1>23 DEF CryptWork
    <2>3. size \in Nat
      <3>1. block.len \in Nat \ {0} /\ block.end \in BOOLEAN /\ isEncrypt \in BOOLEAN
        BY <2>1 DEF Blocks
      <3> QED BY <3>1, CryptSizesAreNat
    <2>4. [block EXCEPT !.size = size] \in Blocks
      BY <2>1, <2>3 DEF Blocks
    <2>5. datas' \in [Tasks -> Seq(Blocks)]
      <3> DEFINE new == [block EXCEPT !.size = size]
      <3>1. new \in Blocks /\ datas' = [datas EXCEPT !["write"] = Append(@, new)]
        BY <2>2, <2>4 DEF PushBack
      <3> HIDE DEF new
      <3> QED BY <3>1, SMTT(30)
    <2>6. bytes' \in [Tasks -> Nat]
      <3>1. bytes["crypt"] + size \in Nat
        BY <2>3, SMTT(30)
      <3> QED BY <2>2, <3>1
    <2>7. hand' \in [Tasks -> Seq(Blocks)] /\ \A t \in Tasks : Len(hand'[t]) <= 1
      <3>1. hand' = [hand EXCEPT !["crypt"] = <<>>]
        BY <1>23 DEF CryptWork
      <3> QED BY <3>1
    <2>8. /\ Step("crypt", "work", "close") \/ Step("crypt", "work", "status")
          /\ UNCHANGED <<env, main, flags, reader, outFile, ofsGood, value>>
      BY <1>23 DEF CryptWork
    <2> HIDE DEF block
    <2>9. /\ pc' \in [Tasks -> ReadPc \cup CryptPc \cup WritePc]
          /\ pc'["read"] \in ReadPc /\ pc'["crypt"] \in CryptPc /\ pc'["write"] \in WritePc
      BY <2>8 DEF Step
    <2>10. UNCHANGED <<env, main, flags, reader, outFile, ofsGood, value>>
      BY <2>8
    <2>11. datas' \in [Tasks -> Seq(Blocks)]
      BY <2>5
    <2> HIDE DEF ReadPc, CryptPc, WritePc, Tasks
    <2> QED BY <2>6, <2>7, <2>9, <2>10, <2>11 DEF env, reader, flags
  <1>24. CASE CryptClose
    BY <1>24 DEF CryptClose, Step, env, reader, output
  <1>25. CASE CryptReturn
    BY <1>25 DEF CryptReturn, Step, Return, env, reader, output, flags
  <1>26. CASE WriteEnter
    BY <1>26 DEF WriteEnter, Step, env, reader, output
  <1>27. CASE WriteOpen
    <2>1. CASE "openOut" \in faults
      <3>1. value' \in [Tasks -> Seq(Nat)]
        <4>1. <<0>> \in Seq(Nat) /\ value' = [value EXCEPT !["write"] = <<0>>]
          BY <1>27, <2>1 DEF WriteOpen, Return
        <4> QED BY <4>1
      <3>2. /\ Step("write", "open", "ended")
            /\ UNCHANGED <<env, main, flags, datas, hand, reader, output>>
        BY <1>27, <2>1 DEF WriteOpen
      <3> QED BY <3>1, <3>2 DEF Step, env, reader, output, flags
    <2>2. CASE "openOut" \notin faults
      BY <1>27, <2>2 DEF WriteOpen, Step, Return, env, reader, output, flags
    <2> QED BY <2>1, <2>2
  <1>28. CASE Status("write")
    BY <1>28 DEF Status, Step, AfterNotify, env, reader, output, flags
  <1>29. CASE Count("write")
    BY <1>29 DEF Count, Step, AfterNotify, env, reader, output, flags
  <1>30. CASE Notify("write")
    BY <1>30 DEF Notify, Up, AfterNotify, env, reader, output, flags
  <1>31. CASE PopNothing("write")
    BY <1>31 DEF PopNothing, Step, env, reader, output, flags
  <1>32. CASE WritePop
    <2> DEFINE block == Head(datas["write"])
    <2>1. block \in Blocks /\ block.size \in Nat
      <3>1. datas["write"] # <<>> /\ datas["write"] \in Seq(Blocks)
        BY <1>32 DEF WritePop
      <3>2. block \in Blocks
        BY <3>1
      <3> HIDE DEF block
      <3> QED BY <3>2 DEF Blocks
    <2>2. datas' \in [Tasks -> Seq(Blocks)]
      BY <1>32, SMTT(30) DEF WritePop
    <2>3. bytes' \in [Tasks -> Nat]
      <3>1. bytes["write"] + block.size \in Nat
        <4>1. bytes["write"] \in Nat /\ block.size \in Nat
          BY <2>1
        <4> HIDE DEF block, ChainInv
        <4> QED BY <4>1
      <3>2. bytes' = [bytes EXCEPT !["write"] = @ + block.size]
        BY <1>32 DEF WritePop
      <3> QED BY <3>1, <3>2
    <2>4. ofsGood' \in BOOLEAN
      BY <1>32 DEF WritePop
    <2>5. outFile' \in Seq(Blocks)
      BY <1>32, <2>1 DEF WritePop
    <2>6. /\ Step("write", "pop", "return") \/ Step("write", "pop", "status")
          /\ UNCHANGED <<env, main, flags, hand, reader, value>>
      <3>1. Step("write", "pop", IF block.end THEN "return" ELSE "status")
        BY <1>32 DEF WritePop
      <3>2. UNCHANGED <<env, main, flags, hand, reader, value>>
        BY <1>32 DEF WritePop
      <3> QED BY <3>1, <3>2
    <2>7. /\ pc' \in [Tasks -> ReadPc \cup CryptPc \cup WritePc]
          /\ pc'["read"] \in ReadPc /\ pc'["crypt"] \in CryptPc /\ pc'["write"] \in WritePc
      BY <2>6 DEF Step
    <2>8. UNCHANGED <<isEncrypt, fileLen, isRunning, main, nextStatus, prevStatus, hand,
                      dataBytes, chunks, totalRead, eof, value>>
      BY <2>6 DEF env, reader, flags
    <2> HIDE DEF block
    <2> QED BY <2>2, <2>3, <2>4, <2>5, <2>7, <2>8
  <1>33. CASE WriteReturn
    BY <1>33 DEF WriteReturn, Step, Return, env, reader, output, flags
  <1>34. ASSUME NEW t \in {"read", "crypt"}, SpuriousWake(t) PROVE TypeOK'
    BY <1>34 DEF SpuriousWake, Step, env, reader, output, flags
  <1>35. ASSUME NEW t \in {"read", "crypt"}, Throw(t) PROVE TypeOK'
    BY <1>35 DEF Throw, Step, env, reader, output, flags
  <1>36. CASE Resize
    <2>1. fileLen' \in Nat
      BY <1>36, LengthAssumption DEF Resize
    <2> QED BY <1>36, <2>1 DEF Resize, reader, output, flags
  <1>37. CASE StopPool
    <2>1. isRunning' \in BOOLEAN
      BY <1>37 DEF StopPool
    <2>2. UNCHANGED <<isEncrypt, fileLen, main, pc, nextStatus, prevStatus, datas, hand,
                      dataBytes, chunks, totalRead, eof, bytes, outFile, ofsGood, value>>
      BY <1>37 DEF StopPool, reader, output, flags
    <2> QED BY <2>1, <2>2
  <1>38. CASE UNCHANGED vars
    BY <1>38 DEF vars, env, reader, output, flags
  <1> QED
    BY <1>1, <1>2, <1>3, <1>4, <1>5, <1>6, <1>7, <1>8, <1>9, <1>10,
       <1>11, <1>12, <1>13, <1>14, <1>15, <1>16, <1>17, <1>18, <1>19, <1>20,
       <1>21, <1>22, <1>23, <1>24, <1>25, <1>26, <1>27, <1>28, <1>29, <1>30,
       <1>31, <1>32, <1>33, <1>34, <1>35, <1>36, <1>37, <1>38
    DEF Next, Main, Read, Crypt, Write, Outside

(* A block is in a hand only between taking it and passing it on. *)
LEMMA HandsStep ==
    ASSUME ChainInv, [Next]_vars
    PROVE  Hands'
  <1> USE DEF ChainInv, TypeOK, Tasks, Hands
  <1>1. ASSUME NEW t \in Tasks, AddTask(t) PROVE Hands'
    BY <1>1 DEF AddTask, Step, Advance, env, reader, output, flags, Down
  <1>2. ASSUME NEW t \in Tasks, Wait(t) PROVE Hands'
    BY <1>2 DEF Wait, Advance, env, reader, output, flags, Down
  <1>3. CASE ReadOpen
    BY <1>3 DEF ReadOpen, Step, Return, env, output, flags
  <1>4. CASE ReadFlag
    BY <1>4 DEF ReadFlag, Step, env, reader, output
  <1>5. CASE ReadLoop
    BY <1>5 DEF ReadLoop, Step, env, reader, output, flags
  <1>6. CASE Gate("read")
    BY <1>6 DEF Gate, Step, AfterGate, env, reader, output, flags
  <1>7. CASE Check("read")
    BY <1>7 DEF Check, Step, AfterGate, env, reader, output, flags
  <1>8. CASE Park("read")
    BY <1>8 DEF Park, Step, env, reader, output, flags
  <1>9. CASE Fetch
    <2>1. CASE Step("read", "fetch", "close") /\ UNCHANGED hand
      BY <2>1 DEF Step
    <2>2. CASE /\ Step("read", "fetch", "push")
               /\ \E block : hand' = [hand EXCEPT !["read"] = <<block>>]
      BY <2>2 DEF Step
    <2> QED BY <1>9, <2>1, <2>2 DEF Fetch
  <1>10. CASE ReadPush
    BY <1>10 DEF ReadPush, Step, PushBack, env, reader, output, flags
  <1>11. CASE ReadClose
    BY <1>11 DEF ReadClose, Step, env, reader, output
  <1>12. CASE ReadReturn
    BY <1>12 DEF ReadReturn, Step, Return, env, reader, output, flags
  <1>13. CASE CryptEnter
    BY <1>13 DEF CryptEnter, Step, env, reader, output
  <1>14. CASE CryptFlag
    BY <1>14 DEF CryptFlag, Step, env, reader, output
  <1>15. CASE Status("crypt")
    BY <1>15 DEF Status, Step, AfterNotify, env, reader, output, flags
  <1>16. CASE Count("crypt")
    BY <1>16 DEF Count, Step, AfterNotify, env, reader, output, flags
  <1>17. CASE Notify("crypt")
    BY <1>17 DEF Notify, Up, AfterNotify, env, reader, output, flags
  <1>18. CASE Gate("crypt")
    BY <1>18 DEF Gate, Step, AfterGate, env, reader, output, flags
  <1>19. CASE Check("crypt")
    BY <1>19 DEF Check, Step, AfterGate, env, reader, output, flags
  <1>20. CASE Park("crypt")
    BY <1>20 DEF Park, Step, env, reader, output, flags
  <1>21. CASE PopNothing("crypt")
    BY <1>21 DEF PopNothing, Step, env, reader, output, flags
  <1>22. CASE CryptPop
    BY <1>22 DEF CryptPop, Step, env, reader, output, flags
  <1>23. CASE CryptWork
    BY <1>23 DEF CryptWork, Step, PushBack, env, reader, flags
  <1>24. CASE CryptClose
    BY <1>24 DEF CryptClose, Step, env, reader, output
  <1>25. CASE CryptReturn
    BY <1>25 DEF CryptReturn, Step, Return, env, reader, output, flags
  <1>26. CASE WriteEnter
    BY <1>26 DEF WriteEnter, Step, env, reader, output
  <1>27. CASE WriteOpen
    BY <1>27 DEF WriteOpen, Step, Return, env, reader, output, flags
  <1>28. CASE Status("write")
    BY <1>28 DEF Status, Step, AfterNotify, env, reader, output, flags
  <1>29. CASE Count("write")
    BY <1>29 DEF Count, Step, AfterNotify, env, reader, output, flags
  <1>30. CASE Notify("write")
    BY <1>30 DEF Notify, Up, AfterNotify, env, reader, output, flags
  <1>31. CASE PopNothing("write")
    BY <1>31 DEF PopNothing, Step, env, reader, output, flags
  <1>32. CASE WritePop
    BY <1>32 DEF WritePop, Step, env, reader, flags
  <1>33. CASE WriteReturn
    BY <1>33 DEF WriteReturn, Step, Return, env, reader, output, flags
  <1>34. ASSUME NEW t \in {"read", "crypt"}, SpuriousWake(t) PROVE Hands'
    BY <1>34 DEF SpuriousWake, Step, env, reader, output, flags
  <1>35. ASSUME NEW t \in {"read", "crypt"}, Throw(t) PROVE Hands'
    BY <1>35 DEF Throw, Step, env, reader, output, flags
  <1>36. CASE Resize
    BY <1>36 DEF Resize, reader, output, flags
  <1>37. CASE StopPool
    BY <1>37 DEF StopPool, reader, output, flags
  <1>38. CASE UNCHANGED vars
    BY <1>38 DEF vars, env, reader, output, flags
  <1> QED
    BY <1>1, <1>2, <1>3, <1>4, <1>5, <1>6, <1>7, <1>8, <1>9, <1>10,
       <1>11, <1>12, <1>13, <1>14, <1>15, <1>16, <1>17, <1>18, <1>19, <1>20,
       <1>21, <1>22, <1>23, <1>24, <1>25, <1>26, <1>27, <1>28, <1>29, <1>30,
       <1>31, <1>32, <1>33, <1>34, <1>35, <1>36, <1>37, <1>38
    DEF Next, Main, Read, Crypt, Write, Outside

(* What the order of the blocks is about. *)
order == <<chunks, hand, datas, outFile, ofsGood>>

LEMMA OrderUnchanged ==
    ASSUME InOrder, UNCHANGED order
    PROVE  InOrder'
  BY DEF InOrder, order, Sent, Taken, Crypted, Written

LEMMA CountsAreInt ==
    ASSUME TypeOK
    PROVE  Sent \in Int /\ Taken \in Int /\ Crypted \in Int /\ Written \in Int
  <1>1. /\ chunks \in Int /\ Len(hand["read"]) \in Int /\ Len(hand["crypt"]) \in Int
        /\ Len(datas["crypt"]) \in Int /\ Len(datas["write"]) \in Int
    BY DEF TypeOK, Tasks
  <1> QED BY <1>1 DEF Sent, Taken, Crypted, Written

(* What PopFront takes off a list and leaves in it. *)
LEMMA HeadAndTail ==
    ASSUME NEW s \in Seq(Blocks), s # <<>>
    PROVE  /\ Len(s) >= 1 /\ Head(s) = s[1] /\ Head(s) \in Blocks
           /\ Len(Tail(s)) = Len(s) - 1
           /\ \A i \in 1 .. Len(Tail(s)) : Tail(s)[i] = s[i + 1]
  <1>1. Len(s) \in Nat /\ Len(s) >= 1
    OBVIOUS
  <1>2. Head(s) = s[1] /\ s[1] \in Blocks
    BY <1>1
  <1>3. Len(Tail(s)) = Len(s) - 1
    BY <1>1
  <1>4. ASSUME NEW i \in 1 .. Len(Tail(s)) PROVE Tail(s)[i] = s[i + 1]
    BY <1>1, <1>3
  <1> QED BY <1>1, <1>2, <1>3, <1>4

(* What a hand that is not empty holds. *)
LEMMA OneInHand ==
    ASSUME NEW s \in Seq(Blocks), s # <<>>, Len(s) <= 1
    PROVE  Len(s) = 1 /\ Head(s) = s[1] /\ Head(s) \in Blocks
  <1>1. Len(s) \in Nat /\ Len(s) >= 1
    BY HeadAndTail
  <1>2. \A n \in Nat : n >= 1 /\ n <= 1 => n = 1
    OBVIOUS
  <1> QED BY <1>1, <1>2, HeadAndTail

(* Only the actions that pass a block on change what the order is about. *)
LEMMA OrderChangers ==
    ASSUME [Next]_vars, ~Fetch, ~ReadPush, ~CryptPop, ~CryptWork, ~WritePop
    PROVE  UNCHANGED order
  <1> USE DEF order, env, reader, output, flags
  <1>1. ASSUME Main PROVE UNCHANGED order
    BY <1>1 DEF Main, AddTask, Wait
  <1>2. ASSUME Read PROVE UNCHANGED order
    BY <1>2 DEF Read, ReadOpen, ReadFlag, ReadLoop, Gate, Check, Park, ReadClose, ReadReturn
  <1>3. ASSUME Crypt PROVE UNCHANGED order
    BY <1>3 DEF Crypt, CryptEnter, CryptFlag, Status, Count, Notify, Gate, Check, Park,
                PopNothing, CryptClose, CryptReturn
  <1>4. ASSUME Write PROVE UNCHANGED order
    BY <1>4 DEF Write, WriteEnter, WriteOpen, Status, Count, Notify, PopNothing, WriteReturn
  <1>5. ASSUME Outside PROVE UNCHANGED order
    BY <1>5 DEF Outside, SpuriousWake, Throw, Resize, StopPool
  <1>6. ASSUME UNCHANGED vars PROVE UNCHANGED order
    BY <1>6 DEF vars
  <1> QED BY <1>1, <1>2, <1>3, <1>4, <1>5, <1>6 DEF Next

(* A step of the chain passes the first block on, and gives it no other place. *)
LEMMA OrderStep ==
    ASSUME ChainInv, [Next]_vars
    PROVE  InOrder'
  <1>1. Sent \in Int /\ Taken \in Int /\ Crypted \in Int /\ Written \in Int
    BY CountsAreInt DEF ChainInv
  <1>2. /\ chunks \in Nat
        /\ datas["crypt"] \in Seq(Blocks) /\ datas["write"] \in Seq(Blocks)
        /\ hand["read"] \in Seq(Blocks) /\ hand["crypt"] \in Seq(Blocks)
        /\ Len(hand["read"]) <= 1 /\ Len(hand["crypt"]) <= 1
        /\ outFile \in Seq(Blocks)
        /\ DOMAIN hand = Tasks /\ DOMAIN datas = Tasks
    BY DEF ChainInv, TypeOK, Tasks
  <1>3. CASE Fetch
    <2>1. CASE UNCHANGED order
      BY <2>1, OrderUnchanged DEF ChainInv
    <2>2. ASSUME NEW block, block.no = chunks + 1, chunks' = chunks + 1,
                 hand' = [hand EXCEPT !["read"] = <<block>>],
                 UNCHANGED <<datas, outFile, ofsGood>>
          PROVE  InOrder'
      <3>1. hand["read"] = <<>>
        BY <1>3 DEF ChainInv, Hands, Fetch, Step
      <3>2. Len(hand["read"]) = 0 /\ hand'["read"] = <<block>> /\ hand'["crypt"] = hand["crypt"]
        BY <1>2, <2>2, <3>1 DEF Tasks
      <3>3. Sent' = Sent
        <4>1. Len(hand'["read"]) = 1
          BY <3>2
        <4>2. chunks \in Nat /\ chunks' = chunks + 1 /\ Len(hand["read"]) = 0
          BY <1>2, <2>2, <3>2
        <4> QED BY <4>1, <4>2 DEF Sent
      <3>4. Taken' = Taken /\ Crypted' = Crypted /\ Written' = Written
        BY <2>2, <3>2, <3>3 DEF Taken, Crypted, Written
      <3> QED BY <2>2, <3>2, <3>4 DEF ChainInv, InOrder
    <2> QED
      <3>1. \/ UNCHANGED order
            \/ \E block : /\ block.no = chunks + 1 /\ chunks' = chunks + 1
                          /\ hand' = [hand EXCEPT !["read"] = <<block>>]
                          /\ UNCHANGED <<datas, outFile, ofsGood>>
        BY <1>3 DEF Fetch, NewData, order, output
      <3> QED BY <2>1, <2>2, <3>1
  <1>4. CASE ReadPush
    <2> DEFINE block == Head(hand["read"])
    <2>1. /\ hand["read"] # <<>>
          /\ datas' = [datas EXCEPT !["crypt"] = Append(@, block)]
          /\ hand' = [hand EXCEPT !["read"] = <<>>]
          /\ UNCHANGED <<chunks, outFile, ofsGood>>
      BY <1>4 DEF ChainInv, Hands, ReadPush, PushBack, Step, reader, output
    <2>2. Len(hand["read"]) = 1 /\ block = hand["read"][1] /\ block \in Blocks
      BY <1>2, <2>1, OneInHand
    <2>3. block.no = chunks
      BY <2>1, <2>2 DEF ChainInv, InOrder
    <2> HIDE DEF block
    <2>4. /\ datas'["crypt"] = Append(datas["crypt"], block)
          /\ datas'["write"] = datas["write"]
          /\ hand'["read"] = <<>> /\ hand'["crypt"] = hand["crypt"]
      BY <1>2, <2>1 DEF Tasks
    <2>5. Sent' = Sent + 1 /\ Sent = chunks - 1
      BY <1>2, <2>1, <2>2, <2>4 DEF Sent
    <2>6. Len(datas'["crypt"]) = Len(datas["crypt"]) + 1
      BY <1>2, <2>2, <2>4
    <2>7. Taken' = Taken /\ Taken + Len(datas["crypt"]) = Sent
      BY <1>1, <1>2, <2>5, <2>6 DEF Taken
    <2>8. Crypted' = Crypted /\ Written' = Written
      BY <2>4, <2>7 DEF Crypted, Written
    <2>9. ASSUME NEW i \in 1 .. Len(datas'["crypt"])
          PROVE  datas'["crypt"][i].no = Taken + i
      <3>1. CASE i \in 1 .. Len(datas["crypt"])
        BY <1>2, <2>2, <2>4, <3>1 DEF ChainInv, InOrder
      <3>2. CASE i = Len(datas["crypt"]) + 1
        <4>1. datas'["crypt"][i] = block
          BY <1>2, <2>2, <2>4, <3>2
        <4> QED BY <1>1, <1>2, <2>3, <2>5, <2>7, <3>2, <4>1
      <3> QED BY <1>2, <2>6, <3>1, <3>2
    <2> QED BY <2>1, <2>4, <2>7, <2>8, <2>9 DEF ChainInv, InOrder
  <1>5. CASE CryptPop
    <2>1. /\ datas["crypt"] # <<>> /\ hand["crypt"] = <<>>
          /\ hand' = [hand EXCEPT !["crypt"] = <<Head(datas["crypt"])>>]
          /\ datas' = [datas EXCEPT !["crypt"] = Tail(@)]
          /\ UNCHANGED <<chunks, outFile, ofsGood>>
      BY <1>5 DEF ChainInv, Hands, CryptPop, Step, reader, output
    <2>2. /\ datas'["crypt"] = Tail(datas["crypt"]) /\ datas'["write"] = datas["write"]
          /\ hand'["read"] = hand["read"] /\ hand'["crypt"] = <<datas["crypt"][1]>>
      BY <1>2, <2>1 DEF Tasks
    <2>3. /\ Len(datas'["crypt"]) = Len(datas["crypt"]) - 1 /\ Len(datas["crypt"]) >= 1
          /\ \A i \in 1 .. Len(datas'["crypt"]) : datas'["crypt"][i] = datas["crypt"][i + 1]
      <3> DEFINE s == datas["crypt"]
      <3>1. s \in Seq(Blocks) /\ s # <<>>
        BY <1>2, <2>1
      <3>2. datas'["crypt"] = Tail(s)
        BY <2>2
      <3> HIDE DEF s
      <3>3. /\ Len(s) >= 1 /\ Len(Tail(s)) = Len(s) - 1
            /\ \A i \in 1 .. Len(Tail(s)) : Tail(s)[i] = s[i + 1]
        BY <3>1, HeadAndTail
      <3>4. /\ Len(datas'["crypt"]) = Len(s) - 1 /\ Len(s) >= 1
            /\ \A i \in 1 .. Len(datas'["crypt"]) : datas'["crypt"][i] = s[i + 1]
        BY <3>2, <3>3, Zenon
      <3> QED BY <3>4 DEF s
    <2>4. Sent' = Sent
      BY <2>1, <2>2 DEF Sent
    <2>5. Taken' = Taken + 1
      BY <1>1, <1>2, <2>3, <2>4 DEF Taken
    <2>6. Len(hand["crypt"]) = 0 /\ Len(hand'["crypt"]) = 1
      BY <2>1, <2>2
    <2>7. Crypted' = Crypted
      BY <1>1, <2>5, <2>6 DEF Crypted
    <2>8. Written' = Written
      BY <2>2, <2>7 DEF Written
    <2>9. hand'["crypt"][1].no = Taken'
      <3>1. datas["crypt"][1].no = Taken + 1
        BY <1>2, <2>3 DEF ChainInv, InOrder
      <3> QED BY <2>2, <2>5, <3>1
    <2>10. ASSUME NEW i \in 1 .. Len(datas'["crypt"])
           PROVE  datas'["crypt"][i].no = Taken' + i
      <3>1. i + 1 \in 1 .. Len(datas["crypt"])
        BY <1>2, <2>3
      <3>2. datas["crypt"][i + 1].no = Taken + (i + 1)
        BY <3>1 DEF ChainInv, InOrder
      <3> QED BY <1>1, <2>3, <2>5, <3>2
    <2> QED BY <2>1, <2>2, <2>8, <2>9, <2>10 DEF ChainInv, InOrder
  <1>6. CASE CryptWork
    <2> DEFINE block == Head(hand["crypt"])
    <2>1. PICK size \in CryptSizes(isEncrypt, block.len, block.end) :
             PushBack("write", [block EXCEPT !.size = size])
      BY <1>6 DEF CryptWork
    <2> DEFINE new == [block EXCEPT !.size = size]
    <2>2. /\ hand["crypt"] # <<>>
          /\ datas' = [datas EXCEPT !["write"] = Append(@, new)]
          /\ hand' = [hand EXCEPT !["crypt"] = <<>>]
          /\ UNCHANGED <<chunks, outFile, ofsGood>>
      BY <1>6, <2>1 DEF ChainInv, Hands, CryptWork, PushBack, Step, reader
    <2>3. Len(hand["crypt"]) = 1 /\ block = hand["crypt"][1] /\ block \in Blocks
      BY <1>2, <2>2, OneInHand
    <2>4. block.no = Taken
      BY <2>2, <2>3 DEF ChainInv, InOrder
    <2> HIDE DEF block
    <2>5. new.no = Taken
      BY <2>3, <2>4 DEF Blocks
    <2> HIDE DEF new
    <2>6. /\ datas'["write"] = Append(datas["write"], new)
          /\ datas'["crypt"] = datas["crypt"]
          /\ hand'["crypt"] = <<>> /\ hand'["read"] = hand["read"]
      BY <1>2, <2>2 DEF Tasks
    <2>7. Sent' = Sent /\ Taken' = Taken
      BY <2>2, <2>6 DEF Sent, Taken
    <2>8. Crypted' = Crypted + 1 /\ Crypted = Taken - 1
      BY <1>1, <2>3, <2>6, <2>7 DEF Crypted
    <2>9. /\ Len(datas'["write"]) = Len(datas["write"]) + 1
          /\ \A i \in 1 .. Len(datas["write"]) : datas'["write"][i] = datas["write"][i]
          /\ datas'["write"][Len(datas["write"]) + 1] = new
      BY <1>2, <2>6
    <2>10. Written' = Written /\ Written + Len(datas["write"]) = Crypted
      BY <1>1, <1>2, <2>8, <2>9 DEF Written
    <2>11. ASSUME NEW i \in 1 .. Len(datas'["write"])
           PROVE  datas'["write"][i].no = Written + i
      <3>1. CASE i \in 1 .. Len(datas["write"])
        BY <2>9, <3>1 DEF ChainInv, InOrder
      <3>2. CASE i = Len(datas["write"]) + 1
        BY <1>1, <1>2, <2>5, <2>8, <2>9, <2>10, <3>2
      <3> QED BY <1>2, <2>9, <3>1, <3>2
    <2> QED BY <2>2, <2>6, <2>7, <2>10, <2>11 DEF ChainInv, InOrder
  <1>7. CASE WritePop
    <2> DEFINE block == Head(datas["write"])
    <2>1. /\ datas["write"] # <<>>
          /\ datas' = [datas EXCEPT !["write"] = Tail(@)]
          /\ UNCHANGED <<chunks, hand>>
      BY <1>7 DEF WritePop, reader
    <2>2. outFile' = IF ofsGood' THEN Append(outFile, block) ELSE outFile
      BY <1>7 DEF WritePop
    <2>3. ofsGood' => ofsGood
      BY <1>7, Zenon DEF WritePop
    <2>4. Len(datas["write"]) >= 1 /\ block = datas["write"][1] /\ block \in Blocks
      <3>1. datas["write"] \in Seq(Blocks) /\ datas["write"] # <<>>
        BY <1>2, <2>1
      <3> QED BY <3>1, HeadAndTail
    <2>5. block.no = Written + 1
      BY <1>2, <2>4 DEF ChainInv, InOrder
    <2>6. datas'["write"] = Tail(datas["write"]) /\ datas'["crypt"] = datas["crypt"]
      BY <1>2, <2>1 DEF Tasks
    <2>7. /\ Len(datas'["write"]) = Len(datas["write"]) - 1
          /\ \A i \in 1 .. Len(datas'["write"]) : datas'["write"][i] = datas["write"][i + 1]
      <3> DEFINE s == datas["write"]
      <3>1. s \in Seq(Blocks) /\ s # <<>>
        BY <1>2, <2>1
      <3>2. datas'["write"] = Tail(s)
        BY <2>6
      <3> HIDE DEF s
      <3>3. /\ Len(s) >= 1 /\ Len(Tail(s)) = Len(s) - 1
            /\ \A i \in 1 .. Len(Tail(s)) : Tail(s)[i] = s[i + 1]
        BY <3>1, HeadAndTail
      <3>4. /\ Len(datas'["write"]) = Len(s) - 1 /\ Len(s) >= 1
            /\ \A i \in 1 .. Len(datas'["write"]) : datas'["write"][i] = s[i + 1]
        BY <3>2, <3>3, Zenon
      <3> QED BY <3>4 DEF s
    <2>8. Sent' = Sent /\ Taken' = Taken /\ Crypted' = Crypted
      BY <2>1, <2>6 DEF Sent, Taken, Crypted
    <2>9. Written' = Written + 1
      BY <1>1, <1>2, <2>7, <2>8 DEF Written
    <2>10. ASSUME NEW i \in 1 .. Len(datas'["write"])
           PROVE  datas'["write"][i].no = Written' + i
      <3>1. i + 1 \in 1 .. Len(datas["write"])
        BY <1>2, <2>7
      <3>2. datas["write"][i + 1].no = Written + (i + 1)
        BY <3>1 DEF ChainInv, InOrder
      <3> QED BY <1>1, <2>7, <2>9, <3>2
    <2> HIDE DEF block
    <2>11. /\ \A i \in 1 .. Len(outFile') : outFile'[i].no = i
           /\ IF ofsGood' THEN Len(outFile') = Written' ELSE Len(outFile') < Written'
      <3>1. CASE ofsGood'
        <4>1. /\ outFile' = Append(outFile, block) /\ Len(outFile) = Written
              /\ \A i \in 1 .. Len(outFile) : outFile[i].no = i
          BY <2>2, <2>3, <3>1 DEF ChainInv, InOrder
        <4>2. /\ Len(outFile') = Written + 1
              /\ \A i \in 1 .. Len(outFile) : outFile'[i] = outFile[i]
              /\ outFile'[Written + 1] = block
          BY <1>2, <2>4, <4>1
        <4>3. ASSUME NEW i \in 1 .. Len(outFile') PROVE outFile'[i].no = i
          <5>1. i \in 1 .. Len(outFile) \/ i = Written + 1
            BY <1>1, <4>1, <4>2
          <5> QED BY <2>5, <4>1, <4>2, <5>1
        <4> QED BY <2>9, <3>1, <4>2, <4>3
      <3>2. CASE ~ofsGood'
        <4>1. outFile' = outFile
          BY <2>2, <3>2
        <4>2. /\ \A i \in 1 .. Len(outFile) : outFile[i].no = i
              /\ Len(outFile) = Written \/ Len(outFile) < Written
          BY DEF ChainInv, InOrder
        <4>3. Len(outFile) < Written + 1
          BY <1>1, <1>2, <4>2
        <4> QED BY <2>9, <3>2, <4>1, <4>2, <4>3
      <3> QED BY <3>1, <3>2
    <2> QED BY <2>1, <2>6, <2>8, <2>10, <2>11 DEF ChainInv, InOrder
  <1>8. CASE ~Fetch /\ ~ReadPush /\ ~CryptPop /\ ~CryptWork /\ ~WritePop
    BY <1>8, OrderChangers, OrderUnchanged DEF ChainInv
  <1> QED BY <1>3, <1>4, <1>5, <1>6, <1>7, <1>8

------------------------------------------------------------------------------
(* The invariant of the chain holds in every state, whatever the lengths, the   *)
(* sizes of the blocks, the bounds of the lists and the faults.                 *)
THEOREM ChainSafety == Spec => []ChainInv
  <1>1. ASSUME ChainInv, [Next]_vars PROVE ChainInv'
    <2>1. TypeOK' /\ Hands' /\ InOrder'
      BY <1>1, TypeStep, HandsStep, OrderStep
    <2> QED BY <2>1 DEF ChainInv
  <1> QED BY InitChainInv, <1>1, PTL DEF Spec

(* The variables of ReadTask, CryptTask and WriteTask keep their types; above all *)
(* the size that the cipher returns for the last block is not negative.          *)
THEOREM ChainTyping == Spec => []TypeOK
  <1>1. ChainInv => TypeOK
    BY DEF ChainInv
  <1> QED BY ChainSafety, <1>1, PTL

(* From ReadTask to the output file no block is lost, doubled or overtaken, and   *)
(* only a failed write leaves one out.                                           *)
THEOREM BlocksInOrder == Spec => []InOrder
  <1>1. ChainInv => InOrder
    BY DEF ChainInv
  <1> QED BY ChainSafety, <1>1, PTL

------------------------------------------------------------------------------
(* How far a list can grow. *)

(* A task that has found room downstream, or has not asked, passes one block on.  *)
Going == [read |-> {"fetch", "push"}, crypt |-> {"pop", "work"}]
Coming(t) == IF pc[t] \in Going[t] THEN 1 ELSE 0
WithinBound(t) == nextStatus[t] /\ Backlog(t) + Coming(t) <= DownLimit[t] + 1

LEMMA DownLimitFacts == DownLimit["read"] \in Nat /\ DownLimit["crypt"] \in Nat
  <1>1. /\ DownLimitSize \in Nat /\ ReadDataSize \in Nat \ {0} /\ CryptDataSize \in Nat \ {0}
    BY SizeAssumption
  <1>2. DownLimitSize \div ReadDataSize \in Nat /\ DownLimitSize \div CryptDataSize \in Nat
    BY <1>1
  <1> QED BY <1>2 DEF DownLimit, LimitNum

LEMMA ReadWithinBound ==
    ASSUME ChainInv, [Next]_vars, WithinBound("read")
    PROVE  WithinBound("read")'
  <1>0. /\ datas["crypt"] \in Seq(Blocks) /\ Len(datas["crypt"]) \in Nat
        /\ DOMAIN datas = Tasks /\ DOMAIN pc = Tasks /\ DOMAIN nextStatus = Tasks
        /\ DownLimit["read"] \in Nat
    BY DownLimitFacts DEF ChainInv, TypeOK, Tasks
  <1> USE <1>0 DEF WithinBound, Backlog, Coming, Going, Down, Tasks
  <1>1. ASSUME NEW t \in Tasks, AddTask(t) PROVE WithinBound("read")'
    BY <1>1 DEF AddTask, Step, Advance, env, reader, output, flags, Down
  <1>2. ASSUME NEW t \in Tasks, Wait(t) PROVE WithinBound("read")'
    BY <1>2 DEF Wait, Advance, env, reader, output, flags, Down
  <1>3. CASE ReadOpen
    BY <1>3 DEF ReadOpen, Step, Return, env, output, flags
  <1>4. CASE ReadFlag
    BY <1>4 DEF ReadFlag, Step, env, reader, output
  <1>5. CASE ReadLoop
    BY <1>5 DEF ReadLoop, Step, env, reader, output, flags
  <1>6. CASE Gate("read")
    BY <1>6 DEF Gate, Step, AfterGate, env, reader, output, flags
  <1>7. CASE Check("read")
    BY <1>7 DEF Check, HasRoom, Step, AfterGate, flags
  <1>8. CASE Park("read")
    BY <1>8 DEF Park, Step, env, reader, output, flags
  <1>9. CASE Fetch
    BY <1>9 DEF Fetch, Step, env, output, flags
  <1>10. CASE ReadPush
    <2>1. datas'["crypt"] = Append(datas["crypt"], Head(hand["read"]))
      BY <1>10 DEF ReadPush, PushBack
    <2>2. Len(datas'["crypt"]) = Len(datas["crypt"]) + 1
      BY <2>1
    <2>3. pc["read"] = "push" /\ pc'["read"] = "loop" /\ nextStatus' = nextStatus
      BY <1>10 DEF ReadPush, Step, flags
    <2> QED BY <2>2, <2>3
  <1>11. CASE ReadClose
    BY <1>11 DEF ReadClose, Step, env, reader, output
  <1>12. CASE ReadReturn
    BY <1>12 DEF ReadReturn, Step, Return, env, reader, output, flags
  <1>13. CASE CryptEnter
    BY <1>13 DEF CryptEnter, Step, env, reader, output
  <1>14. CASE CryptFlag
    BY <1>14 DEF CryptFlag, Step, env, reader, output
  <1>15. CASE Status("crypt")
    BY <1>15 DEF Status, Step, AfterNotify, env, reader, output, flags
  <1>16. CASE Count("crypt")
    BY <1>16 DEF Count, Step, AfterNotify, env, reader, output, flags
  <1>17. CASE Notify("crypt")
    BY <1>17 DEF Notify, Up, AfterNotify, env, reader, output, flags
  <1>18. CASE Gate("crypt")
    BY <1>18 DEF Gate, Step, AfterGate, env, reader, output, flags
  <1>19. CASE Check("crypt")
    BY <1>19 DEF Check, Step, AfterGate, env, reader, output, flags
  <1>20. CASE Park("crypt")
    BY <1>20 DEF Park, Step, env, reader, output, flags
  <1>21. CASE PopNothing("crypt")
    BY <1>21 DEF PopNothing, Step, env, reader, output, flags
  <1>22. CASE CryptPop
    <2>1. datas'["crypt"] = Tail(datas["crypt"]) /\ datas["crypt"] # <<>>
      BY <1>22 DEF CryptPop
    <2>2. Len(datas'["crypt"]) = Len(datas["crypt"]) - 1
      BY <2>1
    <2>3. pc'["read"] = pc["read"] /\ nextStatus' = nextStatus
      BY <1>22 DEF CryptPop, Step, flags
    <2>4. Coming("read")' = Coming("read") /\ Coming("read") \in {0, 1}
      BY <2>3
    <2> HIDE DEF Coming
    <2> QED BY <2>2, <2>3, <2>4
  <1>23. CASE CryptWork
    BY <1>23 DEF CryptWork, Step, PushBack, env, reader, flags
  <1>24. CASE CryptClose
    BY <1>24 DEF CryptClose, Step, env, reader, output
  <1>25. CASE CryptReturn
    BY <1>25 DEF CryptReturn, Step, Return, env, reader, output, flags
  <1>26. CASE WriteEnter
    BY <1>26 DEF WriteEnter, Step, env, reader, output
  <1>27. CASE WriteOpen
    BY <1>27 DEF WriteOpen, Step, Return, env, reader, output, flags
  <1>28. CASE Status("write")
    BY <1>28 DEF Status, Step, AfterNotify, env, reader, output, flags
  <1>29. CASE Count("write")
    BY <1>29 DEF Count, Step, AfterNotify, env, reader, output, flags
  <1>30. CASE Notify("write")
    BY <1>30 DEF Notify, Up, AfterNotify, env, reader, output, flags
  <1>31. CASE PopNothing("write")
    BY <1>31 DEF PopNothing, Step, env, reader, output, flags
  <1>32. CASE WritePop
    BY <1>32 DEF WritePop, Step, env, reader, flags
  <1>33. CASE WriteReturn
    BY <1>33 DEF WriteReturn, Step, Return, env, reader, output, flags
  <1>34. ASSUME NEW t \in {"read", "crypt"}, SpuriousWake(t) PROVE WithinBound("read")'
    BY <1>34 DEF SpuriousWake, Step, env, reader, output, flags
  <1>35. ASSUME NEW t \in {"read", "crypt"}, Throw(t) PROVE WithinBound("read")'
    BY <1>35 DEF Throw, Step, env, reader, output, flags
  <1>36. CASE Resize
    BY <1>36 DEF Resize, reader, output, flags
  <1>37. CASE StopPool
    BY <1>37 DEF StopPool, reader, output, flags
  <1>38. CASE UNCHANGED vars
    BY <1>38 DEF vars, env, reader, output, flags
  <1> QED
    BY <1>1, <1>2, <1>3, <1>4, <1>5, <1>6, <1>7, <1>8, <1>9, <1>10,
       <1>11, <1>12, <1>13, <1>14, <1>15, <1>16, <1>17, <1>18, <1>19, <1>20,
       <1>21, <1>22, <1>23, <1>24, <1>25, <1>26, <1>27, <1>28, <1>29, <1>30,
       <1>31, <1>32, <1>33, <1>34, <1>35, <1>36, <1>37, <1>38
    DEF Next, Main, Read, Crypt, Write, Outside

LEMMA CryptWithinBound ==
    ASSUME ChainInv, [Next]_vars, WithinBound("crypt")
    PROVE  WithinBound("crypt")'
  <1>0. /\ datas["write"] \in Seq(Blocks) /\ Len(datas["write"]) \in Nat
        /\ DOMAIN datas = Tasks /\ DOMAIN pc = Tasks /\ DOMAIN nextStatus = Tasks
        /\ DownLimit["crypt"] \in Nat
    BY DownLimitFacts DEF ChainInv, TypeOK, Tasks
  <1> USE <1>0 DEF WithinBound, Backlog, Coming, Going, Down, Tasks
  <1>1. ASSUME NEW t \in Tasks, AddTask(t) PROVE WithinBound("crypt")'
    BY <1>1 DEF AddTask, Step, Advance, env, reader, output, flags, Down
  <1>2. ASSUME NEW t \in Tasks, Wait(t) PROVE WithinBound("crypt")'
    BY <1>2 DEF Wait, Advance, env, reader, output, flags, Down
  <1>3. CASE ReadOpen
    BY <1>3 DEF ReadOpen, Step, Return, env, output, flags
  <1>4. CASE ReadFlag
    BY <1>4 DEF ReadFlag, Step, env, reader, output
  <1>5. CASE ReadLoop
    BY <1>5 DEF ReadLoop, Step, env, reader, output, flags
  <1>6. CASE Gate("read")
    BY <1>6 DEF Gate, Step, AfterGate, env, reader, output, flags
  <1>7. CASE Check("read")
    BY <1>7 DEF Check, Step, AfterGate, env, reader, output, flags
  <1>8. CASE Park("read")
    BY <1>8 DEF Park, Step, env, reader, output, flags
  <1>9. CASE Fetch
    BY <1>9 DEF Fetch, Step, env, output, flags
  <1>10. CASE ReadPush
    BY <1>10 DEF ReadPush, Step, PushBack, env, reader, output, flags
  <1>11. CASE ReadClose
    BY <1>11 DEF ReadClose, Step, env, reader, output
  <1>12. CASE ReadReturn
    BY <1>12 DEF ReadReturn, Step, Return, env, reader, output, flags
  <1>13. CASE CryptEnter
    BY <1>13 DEF CryptEnter, Step, env, reader, output
  <1>14. CASE CryptFlag
    BY <1>14 DEF CryptFlag, Step, env, reader, output
  <1>15. CASE Status("crypt")
    BY <1>15 DEF Status, Step, AfterNotify, env, reader, output, flags
  <1>16. CASE Count("crypt")
    BY <1>16 DEF Count, Step, AfterNotify, env, reader, output, flags
  <1>17. CASE Notify("crypt")
    BY <1>17 DEF Notify, Up, AfterNotify, env, reader, output, flags
  <1>18. CASE Gate("crypt")
    BY <1>18 DEF Gate, Step, AfterGate, env, reader, output, flags
  <1>19. CASE Check("crypt")
    BY <1>19 DEF Check, HasRoom, Step, AfterGate, flags
  <1>20. CASE Park("crypt")
    BY <1>20 DEF Park, Step, env, reader, output, flags
  <1>21. CASE PopNothing("crypt")
    BY <1>21 DEF PopNothing, Step, env, reader, output, flags
  <1>22. CASE CryptPop
    BY <1>22 DEF CryptPop, Step, env, reader, output, flags
  <1>23. CASE CryptWork
    <2>1. PICK size : PushBack("write", [Head(hand["crypt"]) EXCEPT !.size = size])
      BY <1>23 DEF CryptWork
    <2>2. Len(datas'["write"]) = Len(datas["write"]) + 1
      BY <2>1 DEF PushBack
    <2>3. pc["crypt"] = "work" /\ pc'["crypt"] \in {"close", "status"} /\ nextStatus' = nextStatus
      BY <1>23 DEF CryptWork, Step, flags
    <2>4. Coming("crypt") = 1 /\ Coming("crypt")' = 0
      BY <2>3
    <2> HIDE DEF Coming
    <2> QED BY <2>2, <2>3, <2>4
  <1>24. CASE CryptClose
    BY <1>24 DEF CryptClose, Step, env, reader, output
  <1>25. CASE CryptReturn
    BY <1>25 DEF CryptReturn, Step, Return, env, reader, output, flags
  <1>26. CASE WriteEnter
    BY <1>26 DEF WriteEnter, Step, env, reader, output
  <1>27. CASE WriteOpen
    BY <1>27 DEF WriteOpen, Step, Return, env, reader, output, flags
  <1>28. CASE Status("write")
    BY <1>28 DEF Status, Step, AfterNotify, env, reader, output, flags
  <1>29. CASE Count("write")
    BY <1>29 DEF Count, Step, AfterNotify, env, reader, output, flags
  <1>30. CASE Notify("write")
    BY <1>30 DEF Notify, Up, AfterNotify, env, reader, output, flags
  <1>31. CASE PopNothing("write")
    BY <1>31 DEF PopNothing, Step, env, reader, output, flags
  <1>32. CASE WritePop
    <2>1. datas'["write"] = Tail(datas["write"]) /\ datas["write"] # <<>>
      BY <1>32 DEF WritePop
    <2>2. Len(datas'["write"]) = Len(datas["write"]) - 1
      BY <2>1
    <2>3. pc'["crypt"] = pc["crypt"] /\ nextStatus' = nextStatus
      BY <1>32 DEF WritePop, Step, flags
    <2>4. Coming("crypt")' = Coming("crypt") /\ Coming("crypt") \in {0, 1}
      BY <2>3
    <2> HIDE DEF Coming
    <2> QED BY <2>2, <2>3, <2>4
  <1>33. CASE WriteReturn
    BY <1>33 DEF WriteReturn, Step, Return, env, reader, output, flags
  <1>34. ASSUME NEW t \in {"read", "crypt"}, SpuriousWake(t) PROVE WithinBound("crypt")'
    BY <1>34 DEF SpuriousWake, Step, env, reader, output, flags
  <1>35. ASSUME NEW t \in {"read", "crypt"}, Throw(t) PROVE WithinBound("crypt")'
    BY <1>35 DEF Throw, Step, env, reader, output, flags
  <1>36. CASE Resize
    BY <1>36 DEF Resize, reader, output, flags
  <1>37. CASE StopPool
    BY <1>37 DEF StopPool, reader, output, flags
  <1>38. CASE UNCHANGED vars
    BY <1>38 DEF vars, env, reader, output, flags
  <1> QED
    BY <1>1, <1>2, <1>3, <1>4, <1>5, <1>6, <1>7, <1>8, <1>9, <1>10,
       <1>11, <1>12, <1>13, <1>14, <1>15, <1>16, <1>17, <1>18, <1>19, <1>20,
       <1>21, <1>22, <1>23, <1>24, <1>25, <1>26, <1>27, <1>28, <1>29, <1>30,
       <1>31, <1>32, <1>33, <1>34, <1>35, <1>36, <1>37, <1>38
    DEF Next, Main, Read, Crypt, Write, Outside

(* BacklogStaysBounded, for every length, block size and bound and all faults:    *)
(* after the task downstream has registered, the predicate of cv_.wait is asked   *)
(* before every block, but for one that had passed it already (read_task.cc:58,   *)
(* crypt_task.cc:54, task_base.h).                                               *)
THEOREM BacklogIsBounded == Spec => BacklogStaysBounded
  <1>0. ASSUME NEW t \in {"read", "crypt"}, ChainInv
        PROVE  Backlog(t) \in Nat /\ DownLimit[t] \in Nat /\ Coming(t) \in {0, 1}
    <2>1. Len(datas["crypt"]) \in Nat /\ Len(datas["write"]) \in Nat
      BY <1>0 DEF ChainInv, TypeOK, Tasks
    <2> QED BY <1>0, <2>1, DownLimitFacts DEF Backlog, Down, Coming
  <1>1. ASSUME NEW t \in {"read", "crypt"}
        PROVE  Spec => [](nextStatus[t] /\ Backlog(t) <= DownLimit[t]
                              => [](Backlog(t) <= DownLimit[t] + 1))
    <2>1. ChainInv /\ nextStatus[t] /\ Backlog(t) <= DownLimit[t] => WithinBound(t)
      BY <1>0 DEF WithinBound
    <2>2. ChainInv /\ WithinBound(t) /\ [Next]_vars => WithinBound(t)'
      BY ReadWithinBound, CryptWithinBound
    <2>3. ChainInv /\ WithinBound(t) => Backlog(t) <= DownLimit[t] + 1
      BY <1>0 DEF WithinBound
    <2> QED BY <2>1, <2>2, <2>3, ChainSafety, PTL DEF Spec
  <1> QED BY <1>1 DEF BacklogStaysBounded

==============================================================================
