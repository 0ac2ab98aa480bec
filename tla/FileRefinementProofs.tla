------------------------- MODULE FileRefinementProofs -------------------------
(* FileCrypt implements FileTransform and FileChain when nothing fails, for all   *)
(* lengths, block sizes and bounds.                                              *)
EXTENDS FileEndProofs

(* Nothing fails; the write task may be left without a thread. *)
NoFaults == \A faultSet \in FaultSets : faultSet \subseteq {"noThread"}

(* The blocks of a file of len bytes, and what block no of them is. *)
TotalOf(len) == (len + ReadDataSize - 1) \div ReadDataSize
LenOf(no, len) ==
    IF len - (no - 1) * ReadDataSize < ReadDataSize
    THEN len - (no - 1) * ReadDataSize ELSE ReadDataSize
WellFormed(block, len) ==
    block.len = LenOf(block.no, len) /\ (block.end <=> block.no = TotalOf(len))
WellSized(block, encrypt) == block.size \in CryptSizes(encrypt, block.len, block.end)

Total == TotalOf(fileLen)

(* The blocks in the chain are those of the file. *)
Formed ==
    /\ \A block \in BlocksIn(hand["read"]) \cup BlocksIn(datas["crypt"])
                    \cup BlocksIn(hand["crypt"]) \cup BlocksIn(datas["write"]) :
           WellFormed(block, fileLen)
    /\ \A block \in BlocksIn(datas["write"]) : WellSized(block, isEncrypt)

(* How far the reader is, and what it knows of the end. *)
Reading ==
    /\ faults \subseteq {"noThread"} /\ isRunning /\ ofsGood
    /\ chunks <= Total
    /\ chunks < Total => totalRead = chunks * ReadDataSize
    /\ chunks = Total => totalRead = fileLen
    /\ pc["read"] \notin {"new", "queued"} => dataBytes = fileLen
    /\ eof => chunks = Total
    /\ chunks = Total /\ chunks > 0 /\ fileLen % ReadDataSize # 0 => eof
    /\ pc["read"] \in {"gate", "check", "park", "asleep", "fetch"} => ~eof
    /\ pc["read"] \in {"close", "return", "ended"} => chunks = Total

(* A task leaves its loop with the last block. *)
Leaving ==
    /\ CryptLeft => Crypted = Total /\ Total > 0
    /\ ~CryptLeft /\ Total > 0 => Crypted < Total
    /\ WriteLeft => Written = Total /\ Total > 0
    /\ value["write"] # <<>> => pc["write"] = "ended"

RefinementInv == EndInv /\ Formed /\ Reading /\ Leaving

------------------------------------------------------------------------------
(* Arithmetic. *)

LEMMA MultipleHasNoRest ==
    ASSUME NEW b \in Nat \ {0}, NEW q \in Nat
    PROVE  (q * b) % b = 0
  <1> DEFINE p == (q * b) \div b
             s == (q * b) % b
  <1>1. p \in Int /\ s \in 0 .. b - 1 /\ q * b = b * p + s
    BY SMTT(30)
  <1> HIDE DEF p, s
  <1>2. ASSUME p >= q + 1 PROVE FALSE
    <2>1. b * p >= b * (q + 1) /\ b * (q + 1) = q * b + b
      BY <1>1, <1>2, SMTT(30)
    <2> QED BY <1>1, <2>1
  <1>3. ASSUME q >= p + 1 PROVE FALSE
    <2>1. b * q >= b * (p + 1) /\ b * (p + 1) = b * p + b /\ b * q = q * b
      BY <1>1, <1>3, SMTT(30)
    <2> QED BY <1>1, <2>1
  <1>4. p = q
    BY <1>1, <1>2, <1>3
  <1>5. s = 0
    BY <1>1, <1>4
  <1> QED BY <1>5 DEF s

(* The last block ends with the file, and every block begins before its end.     *)
LEMMA TotalFacts ==
    ASSUME NEW len \in Nat
    PROVE  /\ TotalOf(len) \in Nat
           /\ TotalOf(len) * ReadDataSize >= len
           /\ \A n \in Nat : n < TotalOf(len) => n * ReadDataSize < len
           /\ TotalOf(len) * ReadDataSize = len => len % ReadDataSize = 0
           /\ TotalOf(len) = 0 <=> len = 0
  <1> DEFINE R == ReadDataSize
             q == TotalOf(len)
             r == (len + R - 1) % R
  <1>1. R \in Nat /\ R >= 1
    BY SizeAssumption
  <1>2. len + R - 1 \in Nat
    BY <1>1
  <1>3. q = (len + R - 1) \div R
    BY DEF TotalOf
  <1> HIDE DEF R, q
  <1>4. q \in Nat /\ r \in 0 .. R - 1 /\ len + R - 1 = R * q + r
    BY <1>1, <1>2, <1>3
  <1> HIDE DEF r
  <1>5. R * q = q * R /\ q * R \in Nat
    BY <1>1, <1>4
  <1>6. q * R >= len
    BY <1>1, <1>4, <1>5
  <1>7. ASSUME NEW n \in Nat, n < q PROVE n * R < len
    <2>1. (n + 1) * R <= q * R /\ (n + 1) * R = n * R + R /\ n * R \in Nat
      BY <1>1, <1>4, <1>7, SMTT(30)
    <2> QED BY <1>1, <1>4, <1>5, <2>1
  <1>8. ASSUME q * R = len PROVE len % R = 0
    <2>1. (q * R) % R = 0
      <3>1. R \in Nat \ {0}
        BY <1>1
      <3> QED BY <1>4, <3>1, MultipleHasNoRest
    <2> QED BY <1>8, <2>1
  <1>9. q = 0 <=> len = 0
    <2>1. ASSUME q = 0 PROVE len = 0
      BY <1>1, <1>4, <2>1
    <2>2. ASSUME len = 0 PROVE q = 0
      <3>1. 0 * R = 0
        BY <1>1
      <3>2. ~(0 < q)
        BY <1>7, <2>2, <3>1
      <3> QED BY <1>4, <3>2
    <2> QED BY <2>1, <2>2
  <1> QED BY <1>4, <1>6, <1>7, <1>8, <1>9 DEF R, q

------------------------------------------------------------------------------
(* What each action does to the blocks. *)

(* The types, as they are needed below. *)
LEMMA TypeFacts ==
    ASSUME RefinementInv
    PROVE  /\ TypeOK /\ Hands /\ InOrder
           /\ chunks \in Nat /\ totalRead \in Nat /\ fileLen \in Nat /\ dataBytes \in Nat
           /\ hand["read"] \in Seq(Blocks) /\ hand["crypt"] \in Seq(Blocks)
           /\ Len(hand["read"]) <= 1 /\ Len(hand["crypt"]) <= 1
           /\ datas["crypt"] \in Seq(Blocks) /\ datas["write"] \in Seq(Blocks)
           /\ outFile \in Seq(Blocks)
           /\ DOMAIN hand = Tasks /\ DOMAIN datas = Tasks /\ DOMAIN pc = Tasks /\ DOMAIN value = Tasks
           /\ Total \in Nat
  <1>1. TypeOK /\ Hands /\ InOrder
    BY DEF RefinementInv, EndInv, ChainInv
  <1>2. fileLen \in Nat
    BY <1>1 DEF TypeOK
  <1>3. Total \in Nat
    BY <1>2, TotalFacts DEF Total
  <1> QED BY <1>1, <1>2, <1>3 DEF TypeOK, Tasks

(* How far apart the points of the chain are. *)
LEMMA CountFacts ==
    ASSUME RefinementInv
    PROVE  /\ Sent \in Nat /\ Taken \in Nat /\ Crypted \in Nat /\ Written \in Nat
           /\ Sent = chunks - Len(hand["read"]) /\ Len(hand["read"]) \in Nat
           /\ Taken = Sent - Len(datas["crypt"]) /\ Len(datas["crypt"]) \in Nat
           /\ Crypted = Taken - Len(hand["crypt"]) /\ Len(hand["crypt"]) \in Nat
           /\ Written = Crypted - Len(datas["write"]) /\ Len(datas["write"]) \in Nat
           /\ Len(outFile) = Written
  <1>1. Len(outFile) = Written /\ Len(outFile) \in Nat
    <2>1. ofsGood
      BY DEF RefinementInv, Reading
    <2>2. InOrder /\ outFile \in Seq(Blocks)
      BY TypeFacts
    <2> QED BY <2>1, <2>2 DEF InOrder
  <1>2. /\ chunks \in Nat /\ Len(hand["read"]) \in Nat /\ Len(hand["crypt"]) \in Nat
        /\ Len(datas["crypt"]) \in Nat /\ Len(datas["write"]) \in Nat
    BY TypeFacts
  <1>3. Written \in Int /\ Crypted \in Int /\ Taken \in Int /\ Sent \in Int
    BY <1>2 DEF Sent, Taken, Crypted, Written
  <1>4. Crypted = Written + Len(datas["write"])
    BY <1>2, <1>3 DEF Written
  <1>5. Taken = Crypted + Len(hand["crypt"])
    BY <1>2, <1>3 DEF Crypted
  <1>6. Sent = Taken + Len(datas["crypt"])
    BY <1>2, <1>3 DEF Taken
  <1>7. Written \in Nat /\ Crypted \in Nat /\ Taken \in Nat /\ Sent \in Nat
    <2>1. Written \in Nat
      BY <1>1
    <2>2. Crypted \in Nat
      BY <1>2, <1>4, <2>1
    <2>3. Taken \in Nat
      BY <1>2, <1>5, <2>2
    <2>4. Sent \in Nat
      BY <1>2, <1>6, <2>3
    <2> QED BY <2>1, <2>2, <2>3, <2>4
  <1>8. /\ Sent = chunks - Len(hand["read"]) /\ Taken = Sent - Len(datas["crypt"])
        /\ Crypted = Taken - Len(hand["crypt"]) /\ Written = Crypted - Len(datas["write"])
    BY Zenon DEF Sent, Taken, Crypted, Written
  <1> QED BY <1>1, <1>2, <1>7, <1>8

(* Nothing comes from outside. *)
LEMMA OutsideIsQuiet ==
    ASSUME RefinementInv, [Next]_vars
    PROVE  /\ UNCHANGED <<faults, fileLen, isEncrypt, isRunning, ofsGood>>
           /\ ~Resize /\ ~StopPool /\ \A t \in Tasks : ~Throw(t)
           /\ "openIn" \notin faults /\ "openOut" \notin faults
  <1>1. /\ "resize" \notin faults /\ "stop" \notin faults /\ "throw" \notin faults
        /\ "openIn" \notin faults /\ "openOut" \notin faults /\ "disk" \notin faults
    BY DEF RefinementInv, Reading
  <1>2. ~Resize /\ ~StopPool /\ \A t \in Tasks : ~Throw(t)
    BY <1>1 DEF Resize, StopPool, Throw
  <1>3. CASE Main
    BY <1>1, <1>2, <1>3 DEF Main, AddTask, Wait, env, output
  <1>4. CASE Read
    BY <1>1, <1>2, <1>4 DEF Read, ReadOpen, ReadFlag, ReadLoop, Gate, Check, Park, Fetch, ReadPush,
                  ReadClose, ReadReturn, env, output
  <1>5. CASE Crypt
    BY <1>1, <1>2, <1>5 DEF Crypt, CryptEnter, CryptFlag, Status, Count, Notify, Gate, Check, Park,
                  PopNothing, CryptPop, CryptWork, CryptClose, CryptReturn, env, output
  <1>6. CASE Write
    <2>1. CASE WritePop
      BY <1>1, <1>2, <2>1 DEF WritePop, env
    <2> QED BY <1>1, <1>2, <1>6, <2>1 DEF Write, WriteEnter, WriteOpen, Status, Count, Notify,
                  PopNothing, WriteReturn, env, output
  <1>7. CASE Outside
    <2>1. PICK t \in {"read", "crypt"} : SpuriousWake(t)
      BY <1>2, <1>7 DEF Outside, Tasks
    <2> QED BY <1>1, <1>2, <2>1 DEF SpuriousWake, env, output
  <1>8. CASE UNCHANGED vars
    BY <1>1, <1>2, <1>8 DEF vars, env, output
  <1> QED BY <1>3, <1>4, <1>5, <1>6, <1>7, <1>8 DEF Next

counts == <<Sent, Taken, Crypted, Written>>

LEMMA CountsUnchanged ==
    ASSUME UNCHANGED order
    PROVE  UNCHANGED counts
  BY DEF order, counts, Sent, Taken, Crypted, Written

(* Fetch finds the end, or reads the next block of the file.                     *)
LEMMA FetchEffect ==
    ASSUME RefinementInv, Fetch
    PROVE  /\ pc["read"] = "fetch" /\ UNCHANGED <<datas, outFile, ofsGood, dataBytes, value>>
           /\ hand["read"] = <<>> /\ UNCHANGED counts
           /\ \/ /\ chunks = Total /\ eof' /\ pc' = [pc EXCEPT !["read"] = "close"]
                 /\ UNCHANGED <<hand, chunks, totalRead>>
              \/ /\ chunks < Total /\ pc' = [pc EXCEPT !["read"] = "push"] /\ chunks' = chunks + 1
                 /\ \E block \in Blocks :
                       WellFormed(block, fileLen) /\ hand' = [hand EXCEPT !["read"] = <<block>>]
                 /\ chunks' < Total => totalRead' = chunks' * ReadDataSize /\ ~eof'
                 /\ chunks' = Total =>
                        totalRead' = fileLen /\ (fileLen % ReadDataSize # 0 => eof')
  <1> DEFINE R == ReadDataSize
             left == IF fileLen > totalRead THEN fileLen - totalRead ELSE 0
             got == IF left < R THEN left ELSE R
  <1>1. /\ chunks \in Nat /\ totalRead \in Nat /\ fileLen \in Nat /\ Total \in Nat
        /\ chunks <= Total /\ dataBytes = fileLen /\ R \in Nat /\ R >= 1 /\ R = ReadDataSize
        /\ chunks < Total => totalRead = chunks * R
        /\ chunks = Total => totalRead = fileLen
    <2>1. pc["read"] = "fetch"
      BY DEF Fetch, Step
    <2> QED BY <2>1, TypeFacts, SizeAssumption DEF RefinementInv, Reading
  <1>2. /\ pc["read"] = "fetch" /\ UNCHANGED <<datas, outFile, ofsGood, dataBytes, value>>
        /\ hand["read"] = <<>>
    BY TypeFacts DEF Fetch, Step, output, Hands
  <1>3. /\ eof' = (got < R)
        /\ got = 0 => pc' = [pc EXCEPT !["read"] = "close"] /\ UNCHANGED <<hand, chunks, totalRead>>
        /\ got # 0 =>
              /\ pc' = [pc EXCEPT !["read"] = "push"] /\ chunks' = chunks + 1
              /\ totalRead' = totalRead + got
              /\ hand' = [hand EXCEPT !["read"] =
                     <<NewData(chunks + 1, got, totalRead + got = dataBytes)>>]
    BY DEF Fetch, Step, ReachedEnd
  <1>4. CASE chunks = Total
    <2>1. got = 0 /\ got < R
      BY <1>1, <1>4
    <2> HIDE DEF got, R
    <2>2. eof' /\ pc' = [pc EXCEPT !["read"] = "close"] /\ UNCHANGED <<hand, chunks, totalRead>>
      BY <1>3, <2>1
    <2>3. UNCHANGED counts
      BY <1>2, <2>2, CountsUnchanged DEF order
    <2> QED BY <1>2, <1>4, <2>2, <2>3
  <1>5. CASE chunks # Total
    <2>1. chunks < Total /\ totalRead = chunks * R /\ chunks * R < fileLen
      <3>1. chunks < Total
        BY <1>1, <1>5
      <3>2. \A n \in Nat : n < Total => n * R < fileLen
        BY <1>1, TotalFacts DEF Total
      <3> QED BY <1>1, <3>1, <3>2
    <2> DEFINE d == chunks * R
               e == (chunks + 1) * R
    <2>2. /\ d \in Nat /\ e = d + R /\ totalRead = d /\ d < fileLen
          /\ chunks + 1 < Total => e < fileLen
          /\ chunks + 1 = Total => e >= fileLen
          /\ chunks + 1 = Total /\ e = fileLen => fileLen % R = 0
      <3>1. d \in Nat /\ e = d + R
        BY <1>1, SMTT(30)
      <3>2. chunks + 1 < Total => e < fileLen
        <4>1. \A n \in Nat : n < Total => n * R < fileLen
          BY <1>1, TotalFacts DEF Total
        <4>2. chunks + 1 \in Nat
          BY <1>1
        <4> QED BY <4>1, <4>2
      <3>3. Total * R >= fileLen /\ (Total * R = fileLen => fileLen % R = 0)
        BY <1>1, TotalFacts DEF Total
      <3> QED BY <2>1, <3>1, <3>2, <3>3
    <2>3. LenOf(chunks + 1, fileLen) = got /\ got \in Nat /\ got # 0
      <3>1. (chunks + 1) - 1 = chunks
        BY <1>1
      <3>2. LenOf(chunks + 1, fileLen) = IF fileLen - d < R THEN fileLen - d ELSE R
        BY <1>1, <3>1 DEF LenOf
      <3> HIDE DEF d, e, R
      <3> QED BY <1>1, <2>2, <3>2
    <2>4. /\ chunks + 1 < Total => totalRead + got = e /\ e # fileLen /\ ~(got < R)
          /\ chunks + 1 = Total => totalRead + got = fileLen /\ (~(got < R) => e = fileLen)
      <3> HIDE DEF d, e, R
      <3> QED BY <1>1, <2>2
    <2> DEFINE block == NewData(chunks + 1, got, totalRead + got = dataBytes)
    <2>5. block \in Blocks /\ block.no = chunks + 1 /\ block.len = got
          /\ (block.end <=> totalRead + got = dataBytes)
      <3>1. chunks + 1 \in Nat \ {0} /\ got \in Nat \ {0}
        BY <1>1, <2>3
      <3> HIDE DEF got
      <3> QED BY <3>1, Zenon DEF NewData, Blocks
    <2> HIDE DEF got, block, d, left
    <2>6. /\ pc' = [pc EXCEPT !["read"] = "push"] /\ chunks' = chunks + 1
          /\ totalRead' = totalRead + got /\ hand' = [hand EXCEPT !["read"] = <<block>>]
      BY <1>3, <2>3 DEF block
    <2>7. chunks + 1 < Total \/ chunks + 1 = Total
      BY <1>1, <2>1
    <2>8. WellFormed(block, fileLen)
      <3>1. block.end <=> block.no = Total
        <4>1. CASE chunks + 1 < Total
          <5>1. totalRead + got # fileLen /\ chunks + 1 # Total
            BY <1>1, <2>4, <4>1
          <5> QED BY <1>1, <2>5, <5>1
        <4>2. CASE chunks + 1 = Total
          <5>1. totalRead + got = fileLen
            BY <2>4, <4>2
          <5> QED BY <1>1, <2>5, <4>2, <5>1
        <4> QED BY <2>7, <4>1, <4>2
      <3> QED BY <2>3, <2>5, <3>1 DEF WellFormed, Total
    <2>9. chunks' < Total => totalRead' = chunks' * ReadDataSize /\ ~eof'
      BY <1>1, <1>3, <2>4, <2>6
    <2>10. chunks' = Total => totalRead' = fileLen /\ (fileLen % ReadDataSize # 0 => eof')
      BY <1>1, <1>3, <2>2, <2>4, <2>6
    <2>11. UNCHANGED counts
      <3>1. Len(hand'["read"]) = 1 /\ Len(hand["read"]) = 0 /\ hand'["crypt"] = hand["crypt"]
        BY <1>2, <2>6, TypeFacts DEF Tasks
      <3>2. Sent' = Sent
        BY <1>1, <2>6, <3>1 DEF Sent
      <3> QED BY <1>2, <3>1, <3>2 DEF counts, Taken, Crypted, Written
    <2> QED BY <1>2, <2>1, <2>5, <2>6, <2>8, <2>9, <2>10, <2>11
  <1> QED BY <1>4, <1>5

LEMMA PushEffect ==
    ASSUME RefinementInv, ReadPush
    PROVE  /\ pc["read"] = "push" /\ pc' = [pc EXCEPT !["read"] = "loop"]
           /\ UNCHANGED <<outFile, ofsGood, chunks, totalRead, dataBytes, eof, value>>
           /\ \E block \in Blocks :
                 /\ hand["read"] = <<block>> /\ block \in BlocksIn(hand["read"])
                 /\ datas'["crypt"] = Append(datas["crypt"], block)
           /\ hand'["read"] = <<>> /\ hand'["crypt"] = hand["crypt"]
           /\ datas'["write"] = datas["write"]
           /\ Sent' = Sent + 1 /\ Sent < chunks /\ UNCHANGED <<Taken, Crypted, Written>>
  <1>1. /\ pc["read"] = "push" /\ pc' = [pc EXCEPT !["read"] = "loop"] /\ hand["read"] # <<>>
        /\ UNCHANGED <<outFile, ofsGood, chunks, totalRead, dataBytes, eof, value>>
    BY TypeFacts DEF ReadPush, Step, Hands, reader, output
  <1>2. PICK block \in Blocks : block = Head(hand["read"]) /\ hand["read"] = <<block>>
    BY <1>1, TypeFacts, OneInHand
  <1>3. /\ datas'["crypt"] = Append(datas["crypt"], block) /\ datas'["write"] = datas["write"]
        /\ hand'["read"] = <<>> /\ hand'["crypt"] = hand["crypt"]
    BY <1>2, TypeFacts DEF ReadPush, PushBack, Tasks
  <1>4. /\ Len(hand["read"]) = 1 /\ Len(hand'["read"]) = 0
        /\ Len(datas'["crypt"]) = Len(datas["crypt"]) + 1
    BY <1>2, <1>3, TypeFacts
  <1>5. Sent' = Sent + 1 /\ Sent < chunks
    BY <1>1, <1>4, TypeFacts DEF Sent
  <1>6. Taken' = Taken
    <2>1. Sent \in Nat /\ Len(datas["crypt"]) \in Nat
      BY CountFacts
    <2> QED BY <1>4, <1>5, <2>1 DEF Taken
  <1>7. UNCHANGED <<Crypted, Written>>
    BY <1>3, <1>6 DEF Crypted, Written
  <1>8. block \in BlocksIn(hand["read"])
    BY <1>2, InFacts
  <1> QED BY <1>1, <1>2, <1>3, <1>5, <1>6, <1>7, <1>8

LEMMA PopEffect ==
    ASSUME RefinementInv, CryptPop
    PROVE  /\ pc["crypt"] = "pop" /\ pc' = [pc EXCEPT !["crypt"] = "work"]
           /\ UNCHANGED <<outFile, ofsGood, chunks, totalRead, dataBytes, eof, value>>
           /\ \E block \in Blocks :
                 block \in BlocksIn(datas["crypt"]) /\ hand'["crypt"] = <<block>>
           /\ BlocksIn(datas'["crypt"]) \subseteq BlocksIn(datas["crypt"])
           /\ hand'["read"] = hand["read"] /\ datas'["write"] = datas["write"]
           /\ UNCHANGED <<Sent, Crypted, Written>>
  <1>1. /\ pc["crypt"] = "pop" /\ pc' = [pc EXCEPT !["crypt"] = "work"]
        /\ hand["crypt"] = <<>> /\ datas["crypt"] # <<>>
        /\ UNCHANGED <<outFile, ofsGood, chunks, totalRead, dataBytes, eof, value>>
    BY TypeFacts DEF CryptPop, Step, Hands, reader, output
  <1>2. /\ datas'["crypt"] = Tail(datas["crypt"]) /\ datas'["write"] = datas["write"]
        /\ hand'["crypt"] = <<Head(datas["crypt"])>> /\ hand'["read"] = hand["read"]
    BY TypeFacts DEF CryptPop, Tasks
  <1>3. /\ Head(datas["crypt"]) \in Blocks /\ Head(datas["crypt"]) \in BlocksIn(datas["crypt"])
        /\ BlocksIn(datas'["crypt"]) \subseteq BlocksIn(datas["crypt"])
        /\ Len(datas'["crypt"]) = Len(datas["crypt"]) - 1
    BY <1>1, <1>2, TypeFacts, HeadAndTail, InFacts
  <1>4. Sent' = Sent
    BY <1>1, <1>2 DEF Sent
  <1>5. Taken' = Taken + 1
    BY <1>3, <1>4, CountFacts DEF Taken
  <1>6. Len(hand["crypt"]) = 0 /\ Len(hand'["crypt"]) = 1
    BY <1>1, <1>2
  <1>7. Crypted' = Crypted
    BY <1>5, <1>6, CountFacts DEF Crypted
  <1>8. Written' = Written
    BY <1>2, <1>7 DEF Written
  <1> QED BY <1>1, <1>2, <1>3, <1>4, <1>7, <1>8

LEMMA WorkEffect ==
    ASSUME RefinementInv, CryptWork
    PROVE  /\ pc["crypt"] = "work"
           /\ UNCHANGED <<outFile, ofsGood, chunks, totalRead, dataBytes, eof, value>>
           /\ pc' = [pc EXCEPT !["crypt"] = IF Crypted' = Total THEN "close" ELSE "status"]
           /\ \E block, sized \in Blocks :
                 /\ block \in BlocksIn(hand["crypt"])
                 /\ datas'["write"] = Append(datas["write"], sized)
                 /\ sized.no = block.no /\ sized.len = block.len /\ sized.end = block.end
                 /\ WellSized(sized, isEncrypt)
           /\ hand'["crypt"] = <<>> /\ hand'["read"] = hand["read"]
           /\ datas'["crypt"] = datas["crypt"]
           /\ Crypted' = Crypted + 1 /\ Crypted < Sent /\ UNCHANGED <<Sent, Taken, Written>>
  <1>1. /\ pc["crypt"] = "work" /\ hand["crypt"] # <<>>
        /\ UNCHANGED <<outFile, ofsGood, chunks, totalRead, dataBytes, eof, value>>
    BY TypeFacts DEF CryptWork, Step, Hands, reader
  <1>2. PICK block \in Blocks : block = Head(hand["crypt"]) /\ hand["crypt"] = <<block>>
    BY <1>1, TypeFacts, OneInHand
  <1>3. PICK n \in CryptSizes(isEncrypt, block.len, block.end) :
           PushBack("write", [block EXCEPT !.size = n])
    BY <1>2 DEF CryptWork
  <1>4. n \in Nat
    <2>1. block.len \in Nat \ {0} /\ block.end \in BOOLEAN /\ isEncrypt \in BOOLEAN
      BY <1>2, TypeFacts DEF Blocks, TypeOK
    <2> QED BY <2>1, CryptSizesAreNat
  <1> DEFINE sized == [block EXCEPT !.size = n]
  <1>5. /\ sized \in Blocks /\ sized.no = block.no /\ sized.len = block.len
        /\ sized.end = block.end /\ sized.size = n
    BY <1>2, <1>4 DEF Blocks
  <1>6. datas' = [datas EXCEPT !["write"] = Append(@, sized)]
    BY <1>3 DEF PushBack
  <1> HIDE DEF sized
  <1>7. /\ datas'["write"] = Append(datas["write"], sized) /\ datas'["crypt"] = datas["crypt"]
        /\ hand'["crypt"] = <<>> /\ hand'["read"] = hand["read"]
    BY <1>6, TypeFacts DEF CryptWork, Tasks
  <1>8. /\ Len(hand["crypt"]) = 1 /\ Len(hand'["crypt"]) = 0
        /\ Len(datas'["write"]) = Len(datas["write"]) + 1
    BY <1>2, <1>5, <1>7, TypeFacts
  <1>9. Sent' = Sent /\ Taken' = Taken
    BY <1>1, <1>7 DEF Sent, Taken
  <1>10. Crypted' = Crypted + 1 /\ Crypted' = Taken /\ Crypted < Sent
    BY <1>8, <1>9, CountFacts DEF Crypted
  <1>11. Written' = Written
    BY <1>8, <1>10, CountFacts DEF Written
  <1>12. block.no = Taken
    BY <1>1, <1>2, TypeFacts DEF InOrder
  <1>13. block \in BlocksIn(hand["crypt"])
    BY <1>2, InFacts
  <1>14. block.end <=> Crypted' = Total
    BY <1>10, <1>12, <1>13 DEF RefinementInv, Formed, WellFormed, Total
  <1>15. pc' = [pc EXCEPT !["crypt"] = IF block.end THEN "close" ELSE "status"]
    BY <1>2 DEF CryptWork, Step
  <1>16. WellSized(sized, isEncrypt)
    BY <1>3, <1>5 DEF WellSized
  <1> QED BY <1>1, <1>2, <1>5, <1>7, <1>9, <1>10, <1>11, <1>13, <1>14, <1>15, <1>16

LEMMA WriteEffect ==
    ASSUME RefinementInv, WritePop
    PROVE  /\ pc["write"] = "pop"
           /\ UNCHANGED <<hand, chunks, totalRead, dataBytes, eof, value, ofsGood>>
           /\ pc' = [pc EXCEPT !["write"] = IF Written' = Total THEN "return" ELSE "status"]
           /\ \E block \in Blocks :
                 /\ block \in BlocksIn(datas["write"]) /\ block.no = Written + 1
                 /\ outFile' = Append(outFile, block)
           /\ BlocksIn(datas'["write"]) \subseteq BlocksIn(datas["write"])
           /\ datas'["crypt"] = datas["crypt"]
           /\ Written' = Written + 1 /\ Written < Crypted /\ UNCHANGED <<Sent, Taken, Crypted>>
  <1>1. /\ pc["write"] = "pop" /\ datas["write"] # <<>>
        /\ UNCHANGED <<hand, chunks, totalRead, dataBytes, eof, value>>
    BY DEF WritePop, Step, reader
  <1>2. ofsGood /\ ofsGood'
    BY OutsideIsQuiet DEF RefinementInv, Reading, Next, Write
  <1> DEFINE block == Head(datas["write"])
  <1>3. outFile' = Append(outFile, block)
    BY <1>2 DEF WritePop
  <1>4. datas'["write"] = Tail(datas["write"]) /\ datas'["crypt"] = datas["crypt"]
    BY TypeFacts DEF WritePop, Tasks
  <1>5. /\ block \in Blocks /\ block \in BlocksIn(datas["write"]) /\ block = datas["write"][1]
        /\ BlocksIn(datas'["write"]) \subseteq BlocksIn(datas["write"])
        /\ Len(datas'["write"]) = Len(datas["write"]) - 1 /\ Len(datas["write"]) >= 1
    BY <1>1, <1>4, TypeFacts, HeadAndTail, InFacts
  <1>6. block.no = Written + 1
    <2>1. 1 \in 1 .. Len(datas["write"])
      BY <1>5, CountFacts
    <2>2. datas["write"][1].no = Written + 1
      BY <2>1, TypeFacts DEF InOrder
    <2> QED BY <1>5, <2>2
  <1>7. Sent' = Sent /\ Taken' = Taken /\ Crypted' = Crypted
    BY <1>1, <1>4 DEF Sent, Taken, Crypted
  <1>8. Written' = Written + 1 /\ Written < Crypted
    <2>1. Written' = Crypted' - Len(datas'["write"])
      BY Zenon DEF Written
    <2>2. /\ Written = Crypted - Len(datas["write"]) /\ Crypted \in Nat
          /\ Len(datas["write"]) \in Nat
      BY CountFacts
    <2> QED BY <1>5, <1>7, <2>1, <2>2
  <1>9. block.end <=> Written' = Total
    BY <1>5, <1>6, <1>8 DEF RefinementInv, Formed, WellFormed, Total
  <1>10. pc' = [pc EXCEPT !["write"] = IF block.end THEN "return" ELSE "status"]
    BY DEF WritePop, Step
  <1> HIDE DEF block
  <1> QED BY <1>1, <1>2, <1>3, <1>4, <1>5, <1>6, <1>7, <1>8, <1>9, <1>10

------------------------------------------------------------------------------
(* The invariant. *)

LEMMA CountsDescend ==
    ASSUME RefinementInv
    PROVE  /\ Sent <= chunks /\ Taken <= Sent /\ Crypted <= Taken /\ Written <= Crypted
           /\ Crypted <= Sent /\ chunks <= Total
           /\ chunks \in Nat /\ Sent \in Nat /\ Taken \in Nat /\ Crypted \in Nat /\ Written \in Nat
           /\ Total \in Nat
  <1>1. /\ chunks \in Nat /\ Sent \in Nat /\ Taken \in Nat /\ Crypted \in Nat /\ Written \in Nat
        /\ Total \in Nat
    BY TypeFacts, CountFacts
  <1>2. Sent <= chunks
    BY <1>1, CountFacts
  <1>3. Taken <= Sent
    BY <1>1, CountFacts
  <1>4. Crypted <= Taken
    BY <1>1, CountFacts
  <1>5. Written <= Crypted
    BY <1>1, CountFacts
  <1>6. Crypted <= Sent
    BY <1>1, <1>3, <1>4
  <1>7. chunks <= Total
    BY DEF RefinementInv, Reading
  <1> QED BY <1>1, <1>2, <1>3, <1>4, <1>5, <1>6, <1>7

LEMMA InitRefinementInv == NoFaults /\ Init => RefinementInv
  <1> SUFFICES ASSUME NoFaults, Init PROVE RefinementInv
    OBVIOUS
  <1>1. EndInv
    BY InitEndInv
  <1>2. /\ faults \subseteq {"noThread"} /\ fileLen \in Nat /\ isRunning /\ ofsGood /\ ~eof
        /\ chunks = 0 /\ totalRead = 0 /\ outFile = <<>> /\ value["write"] = <<>>
        /\ \A t \in Tasks : pc[t] = "new" /\ hand[t] = <<>> /\ datas[t] = <<>>
    BY LengthAssumption DEF Init, NoFaults, Tasks
  <1>3. Total \in Nat /\ (Total = 0 <=> fileLen = 0)
    BY <1>2, TotalFacts DEF Total
  <1>4. Sent = 0 /\ Taken = 0 /\ Crypted = 0 /\ Written = 0
    <2>1. \A t \in Tasks : Len(hand[t]) = 0 /\ Len(datas[t]) = 0
      BY <1>2
    <2>2. /\ Len(hand["read"]) = 0 /\ Len(hand["crypt"]) = 0
          /\ Len(datas["crypt"]) = 0 /\ Len(datas["write"]) = 0
      BY <2>1 DEF Tasks
    <2> QED BY <1>2, <2>2 DEF Sent, Taken, Crypted, Written
  <1>5. Formed
    BY <1>2, InFacts DEF Formed, Tasks
  <1>6. Reading
    <2>1. 0 * ReadDataSize = 0
      BY SizeAssumption
    <2> QED BY <1>2, <1>3, <2>1 DEF Reading, Tasks
  <1>7. Leaving
    BY <1>2, <1>3, <1>4 DEF Leaving, CryptLeft, WriteLeft, Tasks
  <1> QED BY <1>1, <1>5, <1>6, <1>7 DEF RefinementInv

LEMMA FormedStep ==
    ASSUME RefinementInv, [Next]_vars
    PROVE  Formed'
  <1>0. /\ fileLen' = fileLen /\ isEncrypt' = isEncrypt /\ Formed
        /\ datas["crypt"] \in Seq(Blocks) /\ datas["write"] \in Seq(Blocks)
    BY OutsideIsQuiet, TypeFacts DEF RefinementInv
  <1>1. CASE Fetch
    <2>1. CASE UNCHANGED <<hand, datas>>
      BY <1>0, <2>1 DEF Formed
    <2>2. CASE \E block \in Blocks :
                  WellFormed(block, fileLen) /\ hand' = [hand EXCEPT !["read"] = <<block>>]
      <3>1. PICK block \in Blocks :
                  WellFormed(block, fileLen) /\ hand' = [hand EXCEPT !["read"] = <<block>>]
        BY <2>2
      <3>2. hand'["read"] = <<block>> /\ hand'["crypt"] = hand["crypt"] /\ datas' = datas
        BY <1>1, <3>1, TypeFacts, FetchEffect DEF Tasks
      <3>3. BlocksIn(hand'["read"]) = {block}
        BY <3>1, <3>2, InFacts
      <3> QED BY <1>0, <3>1, <3>2, <3>3 DEF Formed
    <2> QED BY <1>1, <2>1, <2>2, FetchEffect
  <1>2. CASE ReadPush
    <2>1. PICK block \in Blocks :
             block \in BlocksIn(hand["read"]) /\ datas'["crypt"] = Append(datas["crypt"], block)
      BY <1>2, PushEffect
    <2>2. BlocksIn(datas'["crypt"]) = BlocksIn(datas["crypt"]) \cup {block}
      BY <1>0, <2>1, InFacts
    <2>3. BlocksIn(hand'["read"]) = {} /\ hand'["crypt"] = hand["crypt"]
          /\ datas'["write"] = datas["write"]
      BY <1>2, PushEffect, InFacts
    <2> QED BY <1>0, <2>1, <2>2, <2>3 DEF Formed
  <1>3. CASE CryptPop
    <2>1. PICK block \in Blocks : block \in BlocksIn(datas["crypt"]) /\ hand'["crypt"] = <<block>>
      BY <1>3, PopEffect
    <2>2. BlocksIn(hand'["crypt"]) = {block}
      BY <2>1, InFacts
    <2>3. /\ BlocksIn(datas'["crypt"]) \subseteq BlocksIn(datas["crypt"])
          /\ hand'["read"] = hand["read"] /\ datas'["write"] = datas["write"]
      BY <1>3, PopEffect
    <2> QED BY <1>0, <2>1, <2>2, <2>3 DEF Formed
  <1>4. CASE CryptWork
    <2>1. PICK block \in Blocks, sized \in Blocks :
             /\ block \in BlocksIn(hand["crypt"])
             /\ datas'["write"] = Append(datas["write"], sized)
             /\ sized.no = block.no /\ sized.len = block.len /\ sized.end = block.end
             /\ WellSized(sized, isEncrypt)
      BY <1>4, WorkEffect
    <2>2. BlocksIn(datas'["write"]) = BlocksIn(datas["write"]) \cup {sized}
      BY <1>0, <2>1, InFacts
    <2>3. BlocksIn(hand'["crypt"]) = {} /\ hand'["read"] = hand["read"]
          /\ datas'["crypt"] = datas["crypt"]
      BY <1>4, WorkEffect, InFacts
    <2>4. WellFormed(sized, fileLen)
      BY <1>0, <2>1 DEF Formed, WellFormed
    <2> QED BY <1>0, <2>1, <2>2, <2>3, <2>4 DEF Formed
  <1>5. CASE WritePop
    <2>1. /\ BlocksIn(datas'["write"]) \subseteq BlocksIn(datas["write"])
          /\ hand' = hand /\ datas'["crypt"] = datas["crypt"]
      BY <1>5, WriteEffect
    <2> QED BY <1>0, <2>1 DEF Formed
  <1>6. CASE UNCHANGED order
    BY <1>0, <1>6 DEF Formed, order
  <1> QED BY <1>1, <1>2, <1>3, <1>4, <1>5, <1>6, OrderChangers

LEMMA ReadingStep ==
    ASSUME RefinementInv, [Next]_vars
    PROVE  Reading'
  <1>0. /\ UNCHANGED <<faults, isRunning, ofsGood, fileLen, Total>> /\ Reading /\ TypeOK
        /\ "openIn" \notin faults /\ ~Resize /\ ~StopPool /\ \A t \in Tasks : ~Throw(t)
    <2>1. UNCHANGED fileLen => UNCHANGED Total
      BY DEF Total
    <2> QED BY <2>1, OutsideIsQuiet, TypeFacts DEF RefinementInv
  <1> USE DEF Reading, Tasks
  <1>1. ASSUME NEW t \in Tasks, AddTask(t) PROVE Reading'
    BY <1>1, <1>0 DEF AddTask, Step, Advance, env, reader, output, flags, Down
  <1>2. ASSUME NEW t \in Tasks, Wait(t) PROVE Reading'
    BY <1>2, <1>0 DEF Wait, Advance, env, reader, output, flags, Down
  <1>3. CASE ReadOpen
    <2>1. UNCHANGED <<totalRead, chunks, eof>> /\ dataBytes' = fileLen
      BY <1>3, <1>0 DEF ReadOpen
    <2>2. pc'["read"] = "flag"
      BY <1>3, <1>0 DEF ReadOpen, Step, TypeOK
    <2> QED BY <1>0, <2>1, <2>2
  <1>4. CASE ReadFlag
    BY <1>4, <1>0 DEF ReadFlag, Step, env, reader, output
  <1>5. CASE ReadLoop
    BY <1>5, <1>0 DEF ReadLoop, Step, env, reader, output, flags
  <1>6. CASE Gate("read")
    BY <1>6, <1>0 DEF Gate, Step, AfterGate, env, reader, output, flags
  <1>7. CASE Check("read")
    BY <1>7, <1>0 DEF Check, Step, AfterGate, env, reader, output, flags
  <1>8. CASE Park("read")
    BY <1>8, <1>0 DEF Park, Step, env, reader, output, flags
  <1>9. CASE Fetch
    <2>1. /\ pc["read"] = "fetch" /\ dataBytes' = dataBytes /\ DOMAIN pc = Tasks
          /\ chunks \in Nat /\ Total \in Nat /\ ~eof
          /\ dataBytes = fileLen
      BY <1>9, <1>0, FetchEffect, TypeFacts
    <2>2. CASE /\ chunks = Total /\ eof' /\ pc' = [pc EXCEPT !["read"] = "close"]
               /\ UNCHANGED <<chunks, totalRead>>
      <3>1. pc'["read"] = "close"
        BY <2>1, <2>2
      <3> QED BY <1>0, <2>1, <2>2, <3>1
    <2>3. CASE /\ chunks < Total /\ pc' = [pc EXCEPT !["read"] = "push"] /\ chunks' = chunks + 1
               /\ chunks' < Total => totalRead' = chunks' * ReadDataSize /\ ~eof'
               /\ chunks' = Total =>
                      totalRead' = fileLen /\ (fileLen % ReadDataSize # 0 => eof')
      <3>1. pc'["read"] = "push"
        BY <2>1, <2>3
      <3>2. chunks' <= Total
        BY <2>1, <2>3
      <3>3. ~(chunks' < Total) => chunks' = Total
        BY <2>1, <2>3
      <3> QED BY <1>0, <2>1, <2>3, <3>1, <3>2, <3>3
    <2> QED BY <1>9, <2>2, <2>3, FetchEffect
  <1>10. CASE ReadPush
    BY <1>10, <1>0 DEF ReadPush, Step, PushBack, env, reader, output, flags
  <1>11. CASE ReadClose
    BY <1>11, <1>0 DEF ReadClose, Step, env, reader, output
  <1>12. CASE ReadReturn
    BY <1>12, <1>0 DEF ReadReturn, Step, Return, env, reader, output, flags
  <1>13. CASE CryptEnter
    BY <1>13, <1>0 DEF CryptEnter, Step, env, reader, output
  <1>14. CASE CryptFlag
    BY <1>14, <1>0 DEF CryptFlag, Step, env, reader, output
  <1>15. CASE Status("crypt")
    BY <1>15, <1>0 DEF Status, Step, AfterNotify, env, reader, output, flags
  <1>16. CASE Count("crypt")
    BY <1>16, <1>0 DEF Count, Step, AfterNotify, env, reader, output, flags
  <1>17. CASE Notify("crypt")
    <2>1. UNCHANGED <<totalRead, chunks, eof, dataBytes>>
      BY <1>17 DEF Notify, reader
    <2>2. pc'["read"] = IF pc["read"] = "asleep" THEN "check" ELSE pc["read"]
      BY <1>17, <1>0 DEF Notify, Up, TypeOK
    <2> QED BY <1>0, <2>1, <2>2
  <1>18. CASE Gate("crypt")
    BY <1>18, <1>0 DEF Gate, Step, AfterGate, env, reader, output, flags
  <1>19. CASE Check("crypt")
    BY <1>19, <1>0 DEF Check, Step, AfterGate, env, reader, output, flags
  <1>20. CASE Park("crypt")
    BY <1>20, <1>0 DEF Park, Step, env, reader, output, flags
  <1>21. CASE PopNothing("crypt")
    BY <1>21, <1>0 DEF PopNothing, Step, env, reader, output, flags
  <1>22. CASE CryptPop
    BY <1>22, <1>0 DEF CryptPop, Step, env, reader, output, flags
  <1>23. CASE CryptWork
    BY <1>23, <1>0 DEF CryptWork, Step, PushBack, env, reader, flags
  <1>24. CASE CryptClose
    BY <1>24, <1>0 DEF CryptClose, Step, env, reader, output
  <1>25. CASE CryptReturn
    BY <1>25, <1>0 DEF CryptReturn, Step, Return, env, reader, output, flags
  <1>26. CASE WriteEnter
    BY <1>26, <1>0 DEF WriteEnter, Step, env, reader, output
  <1>27. CASE WriteOpen
    <2>1. UNCHANGED <<totalRead, chunks, eof, dataBytes>>
      BY <1>27 DEF WriteOpen, reader
    <2>2. pc'["read"] = pc["read"]
      BY <1>27, <1>0 DEF WriteOpen, Step, TypeOK
    <2> QED BY <1>0, <2>1, <2>2
  <1>28. CASE Status("write")
    BY <1>28, <1>0 DEF Status, Step, AfterNotify, env, reader, output, flags
  <1>29. CASE Count("write")
    BY <1>29, <1>0 DEF Count, Step, AfterNotify, env, reader, output, flags
  <1>30. CASE Notify("write")
    <2>1. UNCHANGED <<totalRead, chunks, eof, dataBytes>>
      BY <1>30 DEF Notify, reader
    <2>2. pc'["read"] = pc["read"]
      BY <1>30, <1>0 DEF Notify, Up, TypeOK
    <2> QED BY <1>0, <2>1, <2>2
  <1>31. CASE PopNothing("write")
    BY <1>31, <1>0 DEF PopNothing, Step, env, reader, output, flags
  <1>32. CASE WritePop
    BY <1>32, <1>0 DEF WritePop, Step, env, reader, flags
  <1>33. CASE WriteReturn
    BY <1>33, <1>0 DEF WriteReturn, Step, Return, env, reader, output, flags
  <1>34. ASSUME NEW t \in {"read", "crypt"}, SpuriousWake(t) PROVE Reading'
    BY <1>34, <1>0 DEF SpuriousWake, Step, env, reader, output, flags
  <1>35. ASSUME NEW t \in {"read", "crypt"}, Throw(t) PROVE Reading'
    BY <1>35, <1>0
  <1>36. CASE Resize
    BY <1>36, <1>0
  <1>37. CASE StopPool
    BY <1>37, <1>0
  <1>38. CASE UNCHANGED vars
    BY <1>38, <1>0 DEF vars, env, reader, output, flags
  <1> QED
    BY <1>1, <1>2, <1>3, <1>4, <1>5, <1>6, <1>7, <1>8, <1>9, <1>10,
       <1>11, <1>12, <1>13, <1>14, <1>15, <1>16, <1>17, <1>18, <1>19, <1>20,
       <1>21, <1>22, <1>23, <1>24, <1>25, <1>26, <1>27, <1>28, <1>29, <1>30,
       <1>31, <1>32, <1>33, <1>34, <1>35, <1>36, <1>37, <1>38
    DEF Next, Main, Read, Crypt, Write, Outside

(* What the other actions leave alone. *)
LEMMA LoopsStay ==
    ASSUME RefinementInv, [Next]_vars, ~CryptWork, ~WritePop
    PROVE  /\ (CryptLeft' <=> CryptLeft) /\ (WriteLeft' <=> WriteLeft)
           /\ value'["write"] # <<>> => pc'["write"] = "ended"
  <1>0. /\ ~Resize /\ ~StopPool /\ \A t \in Tasks : ~Throw(t)
        /\ "openIn" \notin faults /\ "openOut" \notin faults
        /\ DOMAIN pc = Tasks /\ DOMAIN value = Tasks
        /\ pc["read"] \in ReadPc /\ pc["crypt"] \in CryptPc /\ pc["write"] \in WritePc
        /\ value["write"] # <<>> => pc["write"] = "ended"
    BY OutsideIsQuiet, TypeFacts DEF RefinementInv, Leaving, TypeOK
  <1> DEFINE Goal == /\ (CryptLeft' <=> CryptLeft) /\ (WriteLeft' <=> WriteLeft)
                     /\ value'["write"] # <<>> => pc'["write"] = "ended"
  <1> USE DEF CryptLeft, WriteLeft, Tasks, ReadPc, CryptPc, WritePc
  <1>1. ASSUME NEW t \in Tasks, AddTask(t) PROVE Goal
    BY <1>1, <1>0 DEF AddTask, Step, Advance, env, reader, output, flags, Down
  <1>2. ASSUME NEW t \in Tasks, Wait(t) PROVE Goal
    BY <1>2, <1>0 DEF Wait, Advance, env, reader, output, flags, Down
  <1>3. CASE ReadOpen
    BY <1>3, <1>0 DEF ReadOpen, Step, Return, env, output, flags
  <1>4. CASE ReadFlag
    BY <1>4, <1>0 DEF ReadFlag, Step, env, reader, output
  <1>5. CASE ReadLoop
    BY <1>5, <1>0 DEF ReadLoop, Step, env, reader, output, flags
  <1>6. CASE Gate("read")
    BY <1>6, <1>0 DEF Gate, Step, AfterGate, env, reader, output, flags
  <1>7. CASE Check("read")
    BY <1>7, <1>0 DEF Check, Step, AfterGate, env, reader, output, flags
  <1>8. CASE Park("read")
    BY <1>8, <1>0 DEF Park, Step, env, reader, output, flags
  <1>9. CASE Fetch
    BY <1>9, <1>0 DEF Fetch, Step, env, output, flags
  <1>10. CASE ReadPush
    BY <1>10, <1>0 DEF ReadPush, Step, PushBack, env, reader, output, flags
  <1>11. CASE ReadClose
    BY <1>11, <1>0 DEF ReadClose, Step, env, reader, output
  <1>12. CASE ReadReturn
    BY <1>12, <1>0 DEF ReadReturn, Step, Return, env, reader, output, flags
  <1>13. CASE CryptEnter
    BY <1>13, <1>0 DEF CryptEnter, Step, env, reader, output
  <1>14. CASE CryptFlag
    BY <1>14, <1>0 DEF CryptFlag, Step, env, reader, output
  <1>15. CASE Status("crypt")
    BY <1>15, <1>0 DEF Status, Step, AfterNotify, env, reader, output, flags
  <1>16. CASE Count("crypt")
    BY <1>16, <1>0 DEF Count, Step, AfterNotify, env, reader, output, flags
  <1>17. CASE Notify("crypt")
    BY <1>17, <1>0 DEF Notify, Up, AfterNotify, env, reader, output, flags
  <1>18. CASE Gate("crypt")
    BY <1>18, <1>0 DEF Gate, Step, AfterGate, env, reader, output, flags
  <1>19. CASE Check("crypt")
    BY <1>19, <1>0 DEF Check, Step, AfterGate, env, reader, output, flags
  <1>20. CASE Park("crypt")
    BY <1>20, <1>0 DEF Park, Step, env, reader, output, flags
  <1>21. CASE PopNothing("crypt")
    BY <1>21, <1>0 DEF PopNothing, Step, env, reader, output, flags
  <1>22. CASE CryptPop
    BY <1>22, <1>0 DEF CryptPop, Step, env, reader, output, flags
  <1>23. CASE CryptWork
    BY <1>23
  <1>24. CASE CryptClose
    BY <1>24, <1>0 DEF CryptClose, Step, env, reader, output
  <1>25. CASE CryptReturn
    BY <1>25, <1>0 DEF CryptReturn, Step, Return, env, reader, output, flags
  <1>26. CASE WriteEnter
    BY <1>26, <1>0 DEF WriteEnter, Step, env, reader, output
  <1>27. CASE WriteOpen
    BY <1>27, <1>0 DEF WriteOpen, Step, Return, env, reader, output, flags
  <1>28. CASE Status("write")
    BY <1>28, <1>0 DEF Status, Step, AfterNotify, env, reader, output, flags
  <1>29. CASE Count("write")
    BY <1>29, <1>0 DEF Count, Step, AfterNotify, env, reader, output, flags
  <1>30. CASE Notify("write")
    BY <1>30, <1>0 DEF Notify, Up, AfterNotify, env, reader, output, flags
  <1>31. CASE PopNothing("write")
    BY <1>31, <1>0 DEF PopNothing, Step, env, reader, output, flags
  <1>32. CASE WritePop
    BY <1>32
  <1>33. CASE WriteReturn
    BY <1>33, <1>0 DEF WriteReturn, Step, Return, env, reader, output, flags
  <1>34. ASSUME NEW t \in {"read", "crypt"}, SpuriousWake(t) PROVE Goal
    BY <1>34, <1>0 DEF SpuriousWake, Step, env, reader, output, flags
  <1>35. ASSUME NEW t \in {"read", "crypt"}, Throw(t) PROVE Goal
    BY <1>35, <1>0
  <1>36. CASE Resize
    BY <1>36, <1>0
  <1>37. CASE StopPool
    BY <1>37, <1>0
  <1>38. CASE UNCHANGED vars
    BY <1>38, <1>0 DEF vars, env, reader, output, flags
  <1> QED
    BY <1>1, <1>2, <1>3, <1>4, <1>5, <1>6, <1>7, <1>8, <1>9, <1>10,
       <1>11, <1>12, <1>13, <1>14, <1>15, <1>16, <1>17, <1>18, <1>19, <1>20,
       <1>21, <1>22, <1>23, <1>24, <1>25, <1>26, <1>27, <1>28, <1>29, <1>30,
       <1>31, <1>32, <1>33, <1>34, <1>35, <1>36, <1>37, <1>38
    DEF Next, Main, Read, Crypt, Write, Outside

LEMMA LeavingStep ==
    ASSUME RefinementInv, [Next]_vars
    PROVE  Leaving'
  <1>0. /\ Leaving /\ Total' = Total /\ Total \in Nat /\ chunks <= Total /\ chunks \in Nat
        /\ Crypted \in Nat /\ Written \in Nat /\ Sent \in Nat /\ Sent <= chunks
        /\ Crypted <= Sent /\ Written <= Crypted
    <2>1. Total' = Total
      BY OutsideIsQuiet DEF Total
    <2>2. Leaving /\ Total \in Nat /\ chunks \in Nat /\ chunks <= Total
      BY TypeFacts DEF RefinementInv, Reading
    <2> QED BY <2>1, <2>2, CountsDescend
  <1>1. CASE CryptWork
    <2>1. /\ pc["crypt"] = "work" /\ Crypted' = Crypted + 1 /\ Crypted < Sent
          /\ pc' = [pc EXCEPT !["crypt"] = IF Crypted' = Total THEN "close" ELSE "status"]
          /\ Written' = Written /\ value' = value /\ DOMAIN pc = Tasks
      BY <1>1, WorkEffect, TypeFacts
    <2>2. /\ pc'["crypt"] = (IF Crypted' = Total THEN "close" ELSE "status")
          /\ pc'["write"] = pc["write"]
      BY <2>1 DEF Tasks
    <2>3. CryptLeft' <=> Crypted' = Total
      BY <2>2 DEF CryptLeft
    <2>4. Crypted' <= Total /\ Total > 0
      BY <1>0, <2>1
    <2>5. (WriteLeft' <=> WriteLeft) /\ (value'["write"] # <<>> => pc'["write"] = "ended")
      BY <1>0, <2>1, <2>2 DEF WriteLeft, Leaving
    <2> QED BY <1>0, <2>1, <2>3, <2>4, <2>5 DEF Leaving
  <1>2. CASE WritePop
    <2>1. /\ pc["write"] = "pop" /\ Written' = Written + 1 /\ Written < Crypted
          /\ pc' = [pc EXCEPT !["write"] = IF Written' = Total THEN "return" ELSE "status"]
          /\ Crypted' = Crypted /\ value' = value /\ DOMAIN pc = Tasks
      BY <1>2, WriteEffect, TypeFacts
    <2>2. /\ pc'["write"] = (IF Written' = Total THEN "return" ELSE "status")
          /\ pc'["crypt"] = pc["crypt"]
      BY <2>1 DEF Tasks
    <2>3. WriteLeft' <=> Written' = Total
      BY <2>2 DEF WriteLeft
    <2>4. Total > 0 /\ value["write"] = <<>>
      BY <1>0, <2>1 DEF Leaving
    <2>5. CryptLeft' <=> CryptLeft
      BY <2>2 DEF CryptLeft
    <2> QED BY <1>0, <2>1, <2>3, <2>4, <2>5 DEF Leaving
  <1>3. CASE ~CryptWork /\ ~WritePop
    <2>1. Crypted' = Crypted /\ Written' = Written
      <3>1. CASE Fetch
        BY <3>1, FetchEffect DEF counts
      <3>2. CASE ReadPush
        BY <3>2, PushEffect
      <3>3. CASE CryptPop
        BY <3>3, PopEffect
      <3>4. CASE UNCHANGED order
        BY <3>4, CountsUnchanged DEF counts
      <3> QED BY <1>3, <3>1, <3>2, <3>3, <3>4, OrderChangers
    <2> QED BY <1>0, <1>3, <2>1, LoopsStay DEF Leaving
  <1> QED BY <1>1, <1>2, <1>3

LEMMA RefinementStep ==
    ASSUME RefinementInv, [Next]_vars
    PROVE  RefinementInv'
  <1>1. ChainInv'
    BY TypeStep, HandsStep, OrderStep DEF RefinementInv, EndInv, ChainInv
  <1>2. EndInv'
    BY <1>1, KnowStep, MarkStep DEF RefinementInv, EndInv
  <1> QED BY <1>2, FormedStep, ReadingStep, LeavingStep DEF RefinementInv

(* When nothing fails, the chain holds the blocks of the file and no others, the *)
(* reader stops after the last of them, and the other tasks with it.             *)
THEOREM RefinementSafety ==
    ASSUME NoFaults
    PROVE  Spec => []RefinementInv
  <1>1. Init => RefinementInv
    BY InitRefinementInv
  <1>2. RefinementInv /\ [Next]_vars => RefinementInv'
    BY RefinementStep
  <1> QED BY <1>1, <1>2, PTL DEF Spec

------------------------------------------------------------------------------
(* FileCrypt implements FileTransform. *)

Reported == value["write"] # <<>>

(* Only the last two actions of the write task can be seen from outside. *)
LEMMA OutputStays ==
    ASSUME RefinementInv, [Next]_vars, ~WritePop, ~WriteReturn
    PROVE  UNCHANGED outFile /\ value'["write"] = value["write"]
  <1>0. /\ DOMAIN value = Tasks /\ ~Resize /\ ~StopPool /\ \A t \in Tasks : ~Throw(t)
        /\ "openIn" \notin faults /\ "openOut" \notin faults
    BY OutsideIsQuiet, TypeFacts
  <1> USE DEF Tasks
  <1>1. CASE Main
    BY <1>0, <1>1 DEF Main, AddTask, Wait, output
  <1>2. CASE Read
    BY <1>0, <1>2 DEF Read, ReadOpen, ReadFlag, ReadLoop, Gate, Check, Park, Fetch, ReadPush,
                      ReadClose, ReadReturn, Return, output
  <1>3. CASE Crypt
    BY <1>0, <1>3 DEF Crypt, CryptEnter, CryptFlag, Status, Count, Notify, Gate, Check, Park,
                      PopNothing, CryptPop, CryptWork, CryptClose, CryptReturn, Return, output
  <1>4. CASE Write
    BY <1>0, <1>4 DEF Write, WriteEnter, WriteOpen, Status, Count, Notify, PopNothing, output
  <1>5. CASE Outside
    <2>1. PICK t \in {"read", "crypt"} : SpuriousWake(t)
      BY <1>0, <1>5 DEF Outside
    <2> QED BY <2>1 DEF SpuriousWake, output
  <1>6. CASE UNCHANGED vars
    BY <1>6 DEF vars, output
  <1> QED BY <1>1, <1>2, <1>3, <1>4, <1>5, <1>6 DEF Next

(* The next block of the write task has a form that FileTransform allows. *)
LEMMA BlockIsTransformed ==
    ASSUME RefinementInv, NEW block \in Blocks, block \in BlocksIn(datas["write"])
    PROVE  block \in Transform!Transformed(block.no)
  <1>1. WellFormed(block, fileLen) /\ WellSized(block, isEncrypt)
    BY DEF RefinementInv, Formed
  <1>2. block.len = LenOf(block.no, fileLen) /\ block.end = (block.no = Transform!NumBlocks)
    <2>1. block.end \in BOOLEAN
      BY DEF Blocks
    <2> QED BY <1>1, <2>1 DEF WellFormed, Transform!NumBlocks, TotalOf
  <1>3. block.size \in Transform!CryptSizes(isEncrypt, block.len, block.end)
    BY <1>1 DEF WellSized, CryptSizes, Transform!CryptSizes, RoundUp, Transform!RoundUp,
                GetMaxPaddingSize, Transform!GetMaxPaddingSize
  <1>4. block = [no |-> block.no, len |-> block.len, size |-> block.size, end |-> block.end]
    BY DEF Blocks
  <1> QED BY <1>2, <1>3, <1>4 DEF LenOf, Transform!Transformed

LEMMA TransformStep ==
    ASSUME RefinementInv, [Next]_vars
    PROVE  [Transform!Next]_<<fileLen, isEncrypt, outFile, Reported>>
  <1>0. UNCHANGED <<fileLen, isEncrypt>> /\ Total = Transform!NumBlocks
    BY OutsideIsQuiet DEF Total, TotalOf, Transform!NumBlocks
  <1>1. CASE WritePop
    <2>1. PICK block \in Blocks :
             /\ block \in BlocksIn(datas["write"]) /\ block.no = Written + 1
             /\ outFile' = Append(outFile, block)
      BY <1>1, WriteEffect
    <2>2. Written = Len(outFile) /\ Written \in Nat /\ Crypted \in Nat /\ Written < Crypted
      BY <1>1, WriteEffect, CountFacts
    <2>3. Crypted <= Total /\ Total \in Nat
      <3>1. /\ Crypted <= Sent /\ Sent <= chunks /\ chunks <= Total
            /\ Sent \in Nat /\ chunks \in Nat /\ Total \in Nat
        BY CountsDescend
      <3> QED BY <2>2, <3>1
    <2>4. Len(outFile) < Transform!NumBlocks
      BY <1>0, <2>2, <2>3
    <2>5. block \in Transform!Transformed(Len(outFile) + 1)
      BY <2>1, <2>2, BlockIsTransformed
    <2>6. ~Reported /\ ~Reported'
      <3>1. value' = value /\ pc["write"] = "pop"
        BY <1>1, WriteEffect
      <3> QED BY <3>1 DEF Reported, RefinementInv, Leaving
    <2>7. Transform!Put
      BY <1>0, <2>1, <2>4, <2>5, <2>6 DEF Transform!Put, Reported
    <2> QED BY <2>7 DEF Transform!Next
  <1>2. CASE WriteReturn
    <2>1. /\ pc["write"] = "return" /\ UNCHANGED outFile
          /\ value' = [value EXCEPT !["write"] = <<bytes["write"]>>]
      BY <1>2 DEF WriteReturn, Step, Return, output
    <2>2. Reported' /\ ~Reported
      <3>1. value'["write"] = <<bytes["write"]>>
        BY <2>1, TypeFacts DEF Tasks
      <3> QED BY <2>1, <3>1 DEF Reported, RefinementInv, Leaving
    <2>3. Len(outFile) = Transform!NumBlocks
      BY <1>0, <2>1, CountFacts DEF RefinementInv, Leaving, WriteLeft
    <2>4. Transform!Report
      BY <1>0, <2>1, <2>2, <2>3 DEF Transform!Report, Reported
    <2> QED BY <2>4 DEF Transform!Next
  <1>3. CASE ~WritePop /\ ~WriteReturn
    BY <1>0, <1>3, OutputStays DEF Reported
  <1> QED BY <1>1, <1>2, <1>3

(* The blocks of the file reach the output one after the other, each in a form   *)
(* that the cipher may give it, the last one with the end mark, and the number    *)
(* of bytes is reported only when all of them are there.                         *)
THEOREM TransformRefinement ==
    ASSUME NoFaults
    PROVE  Spec => ImplementsTransform
  <1>1. Init => Transform!Init
    BY DEF Init, Transform!Init, Tasks
  <1>2. RefinementInv /\ [Next]_vars => [Transform!Next]_<<fileLen, isEncrypt, outFile, Reported>>
    BY TransformStep
  <1>3. RefinementInv /\ [Next]_vars
           => [Transform!Next]_<<fileLen, isEncrypt, outFile, value["write"] # <<>> >>
    BY <1>2 DEF Reported
  <1> QED BY <1>1, <1>3, RefinementSafety, PTL DEF Spec, ImplementsTransform, Transform!Spec

------------------------------------------------------------------------------
(* FileCrypt implements FileChain. *)

(* The place of a task, by where it is in its Main. *)
PlaceAt(x) ==
    CASE x \in {"new", "queued", "ended"} -> x
      [] x \in {"park", "asleep"} -> "asleep"
      [] OTHER -> "running"

LEMMA PlaceFacts ==
    /\ PlaceAt("new") = "new" /\ PlaceAt("queued") = "queued" /\ PlaceAt("ended") = "ended"
    /\ PlaceAt("park") = "asleep" /\ PlaceAt("asleep") = "asleep"
    /\ PlaceAt("flag") = "running" /\ PlaceAt("loop") = "running" /\ PlaceAt("gate") = "running"
    /\ PlaceAt("check") = "running" /\ PlaceAt("fetch") = "running" /\ PlaceAt("push") = "running"
    /\ PlaceAt("close") = "running" /\ PlaceAt("return") = "running" /\ PlaceAt("open") = "running"
    /\ PlaceAt("status") = "running" /\ PlaceAt("count") = "running"
    /\ PlaceAt("notify") = "running" /\ PlaceAt("pop") = "running" /\ PlaceAt("work") = "running"
  BY DEF PlaceAt

LEMMA PlaceOfIsPlaceAt ==
    ASSUME NEW t
    PROVE  PlaceOf(t) = PlaceAt(pc[t]) /\ PlaceOf(t)' = PlaceAt(pc'[t])
  BY DEF PlaceOf, PlaceAt, Blocked

(* No task changes its place; only task t does. *)
Kept == \A u \in Tasks : PlaceAt(pc'[u]) = PlaceAt(pc[u])
Moved(t, from, to) ==
    /\ \A u \in Tasks \ {t} : PlaceAt(pc'[u]) = PlaceAt(pc[u])
    /\ PlaceAt(pc[t]) = from /\ PlaceAt(pc'[t]) = to

(* What a step may do to the places. *)
PlaceStep ==
    \/ Kept
    \/ \E t \in Tasks :
          \/ Moved(t, "new", "queued")
          \/ Moved(t, "queued", "running")
          \/ Moved(t, "asleep", "running")
          \/ Moved(t, "running", "ended") /\ pc[t] = "return"
          \/ /\ Moved(t, "running", "asleep")
             /\ t # "write" /\ pc[t] = "check" /\ ~HasRoom(t)

LEMMA OneMoves ==
    ASSUME DOMAIN pc = Tasks, NEW t \in Tasks, NEW from, NEW to, Step(t, from, to)
    PROVE  /\ Moved(t, PlaceAt(from), PlaceAt(to)) /\ pc[t] = from
           /\ PlaceAt(from) = PlaceAt(to) => Kept
  <1>1. pc'[t] = to /\ pc[t] = from /\ \A u \in Tasks \ {t} : pc'[u] = pc[u]
    BY DEF Step
  <1> QED BY <1>1 DEF Moved, Kept

LEMMA PlacesStep ==
    ASSUME RefinementInv, [Next]_vars
    PROVE  PlaceStep
  <1>0. /\ DOMAIN pc = Tasks /\ ~Resize /\ ~StopPool /\ \A t \in Tasks : ~Throw(t)
        /\ "openIn" \notin faults /\ "openOut" \notin faults
        /\ "read" \in Tasks /\ "crypt" \in Tasks /\ "write" \in Tasks
    BY OutsideIsQuiet, TypeFacts DEF Tasks
  <1> USE OneMoves, PlaceFacts DEF PlaceStep
  <1>1. ASSUME NEW t \in Tasks, AddTask(t) PROVE PlaceStep
    BY <1>1, <1>0 DEF AddTask, Down
  <1>2. ASSUME NEW t \in Tasks, Wait(t) PROVE PlaceStep
    BY <1>2 DEF Wait, Kept
  <1>3. CASE ReadOpen
    BY <1>3, <1>0 DEF ReadOpen
  <1>4. CASE ReadFlag
    BY <1>4, <1>0 DEF ReadFlag
  <1>5. CASE ReadLoop
    BY <1>5, <1>0 DEF ReadLoop
  <1>6. CASE Gate("read")
    BY <1>6, <1>0 DEF Gate, AfterGate
  <1>7. CASE Check("read")
    BY <1>7, <1>0 DEF Check, AfterGate
  <1>8. CASE Park("read")
    BY <1>8, <1>0 DEF Park
  <1>9. CASE Fetch
    BY <1>9, <1>0 DEF Fetch
  <1>10. CASE ReadPush
    BY <1>10, <1>0 DEF ReadPush
  <1>11. CASE ReadClose
    BY <1>11, <1>0 DEF ReadClose
  <1>12. CASE ReadReturn
    BY <1>12, <1>0 DEF ReadReturn
  <1>13. CASE CryptEnter
    BY <1>13, <1>0 DEF CryptEnter
  <1>14. CASE CryptFlag
    BY <1>14, <1>0 DEF CryptFlag
  <1>15. CASE Status("crypt")
    BY <1>15, <1>0 DEF Status, AfterNotify
  <1>16. CASE Count("crypt")
    BY <1>16, <1>0 DEF Count, AfterNotify
  <1>17. CASE Notify("crypt")
    <2>1. /\ pc["crypt"] = "notify" /\ pc'["crypt"] = "gate"
          /\ pc'["read"] = IF pc["read"] = "asleep" THEN "check" ELSE pc["read"]
          /\ \A v \in Tasks \ {"crypt", "read"} : pc'[v] = pc[v]
      BY <1>17, <1>0 DEF Notify, Up, AfterNotify
    <2>2. \A v \in Tasks \ {"read"} : PlaceAt(pc'[v]) = PlaceAt(pc[v])
      BY <2>1
    <2>3. CASE pc["read"] = "asleep"
      <3>1. Moved("read", "asleep", "running")
        BY <2>1, <2>2, <2>3 DEF Moved
      <3> QED BY <1>0, <3>1
    <2>4. CASE pc["read"] # "asleep"
      BY <2>1, <2>2, <2>4 DEF Kept
    <2> QED BY <2>3, <2>4
  <1>18. CASE Gate("crypt")
    BY <1>18, <1>0 DEF Gate, AfterGate
  <1>19. CASE Check("crypt")
    BY <1>19, <1>0 DEF Check, AfterGate
  <1>20. CASE Park("crypt")
    BY <1>20, <1>0 DEF Park
  <1>21. CASE PopNothing("crypt")
    BY <1>21, <1>0 DEF PopNothing
  <1>22. CASE CryptPop
    BY <1>22, <1>0 DEF CryptPop
  <1>23. CASE CryptWork
    BY <1>23, <1>0 DEF CryptWork
  <1>24. CASE CryptClose
    BY <1>24, <1>0 DEF CryptClose
  <1>25. CASE CryptReturn
    BY <1>25, <1>0 DEF CryptReturn
  <1>26. CASE WriteEnter
    BY <1>26, <1>0 DEF WriteEnter
  <1>27. CASE WriteOpen
    BY <1>27, <1>0 DEF WriteOpen
  <1>28. CASE Status("write")
    BY <1>28, <1>0 DEF Status, AfterNotify
  <1>29. CASE Count("write")
    BY <1>29, <1>0 DEF Count, AfterNotify
  <1>30. CASE Notify("write")
    <2>1. /\ pc["write"] = "notify" /\ pc'["write"] = "pop"
          /\ pc'["crypt"] = IF pc["crypt"] = "asleep" THEN "check" ELSE pc["crypt"]
          /\ \A v \in Tasks \ {"write", "crypt"} : pc'[v] = pc[v]
      BY <1>30, <1>0 DEF Notify, Up, AfterNotify
    <2>2. \A v \in Tasks \ {"crypt"} : PlaceAt(pc'[v]) = PlaceAt(pc[v])
      BY <2>1
    <2>3. CASE pc["crypt"] = "asleep"
      <3>1. Moved("crypt", "asleep", "running")
        BY <2>1, <2>2, <2>3 DEF Moved
      <3> QED BY <1>0, <3>1
    <2>4. CASE pc["crypt"] # "asleep"
      BY <2>1, <2>2, <2>4 DEF Kept
    <2> QED BY <2>3, <2>4
  <1>31. CASE PopNothing("write")
    BY <1>31, <1>0 DEF PopNothing
  <1>32. CASE WritePop
    BY <1>32, <1>0 DEF WritePop
  <1>33. CASE WriteReturn
    BY <1>33, <1>0 DEF WriteReturn
  <1>34. ASSUME NEW t \in {"read", "crypt"}, SpuriousWake(t) PROVE PlaceStep
    BY <1>34, <1>0 DEF SpuriousWake
  <1>35. ASSUME NEW t \in {"read", "crypt"}, Throw(t) PROVE PlaceStep
    BY <1>35, <1>0 DEF Tasks
  <1>36. CASE Resize
    BY <1>36, <1>0
  <1>37. CASE StopPool
    BY <1>37, <1>0
  <1>38. CASE UNCHANGED vars
    BY <1>38 DEF vars, Kept
  <1> QED
    BY <1>1, <1>2, <1>3, <1>4, <1>5, <1>6, <1>7, <1>8, <1>9, <1>10,
       <1>11, <1>12, <1>13, <1>14, <1>15, <1>16, <1>17, <1>18, <1>19, <1>20,
       <1>21, <1>22, <1>23, <1>24, <1>25, <1>26, <1>27, <1>28, <1>29, <1>30,
       <1>31, <1>32, <1>33, <1>34, <1>35, <1>36, <1>37, <1>38
    DEF Next, Main, Read, Crypt, Write, Outside

(* The view of the places that FileChain has. *)
LEMMA MovedIsMove ==
    ASSUME NEW t \in Tasks, NEW from, NEW to, Moved(t, from, to)
    PROVE  Chain!Move("file", t, from, to)
  <1> DEFINE P == [u \in Tasks |-> PlaceOf(u)]
  <1>1. P[t] = from /\ P' = [P EXCEPT ![t] = to]
    BY PlaceOfIsPlaceAt DEF Moved
  <1> HIDE DEF P
  <1>2. /\ [file |-> P]["file"] = P
        /\ [file |-> P'] = [[file |-> P] EXCEPT !["file"] = [P EXCEPT ![t] = to]]
    BY <1>1
  <1>3. [[file |-> P] EXCEPT !["file"][t] = to] = [[file |-> P] EXCEPT !["file"] = [P EXCEPT ![t] = to]]
    BY <1>2
  <1> QED BY <1>1, <1>2, <1>3 DEF Chain!Move, P

LEMMA KeptIsKept ==
    ASSUME Kept
    PROVE  UNCHANGED [file |-> [t \in Tasks |-> PlaceOf(t)]]
  <1>1. UNCHANGED [t \in Tasks |-> PlaceOf(t)]
    BY PlaceOfIsPlaceAt DEF Kept
  <1> QED BY <1>1

(* No task but those that pass a block on changes the counts. *)
LEMMA CountsStay ==
    ASSUME RefinementInv, [Next]_vars, ~ReadPush, ~CryptWork, ~WritePop
    PROVE  UNCHANGED <<Sent, Crypted, Written>>
  <1>1. CASE Fetch
    BY <1>1, FetchEffect DEF counts
  <1>2. CASE CryptPop
    BY <1>2, PopEffect
  <1>3. CASE UNCHANGED order
    BY <1>3, CountsUnchanged DEF counts
  <1> QED BY <1>1, <1>2, <1>3, OrderChangers

Passed == [read |-> Sent, crypt |-> Crypted, write |-> Written]
FileSize == [file |-> SizeOf(fileLen)]
FilePassed == [file |-> Passed]

(* The reader sleeps only above the bound, and with work left or after a last    *)
(* block that ends where a read ends.                                            *)
LEMMA ReaderSleeps ==
    ASSUME RefinementInv, pc["read"] = "check", ~HasRoom("read")
    PROVE  /\ pc["crypt"] \notin {"new", "queued"}
           /\ Sent > Crypted + DownLimit["read"]
           /\ Sent < Total \/ fileLen % ReadDataSize = 0
  <1>1. pc["crypt"] \notin {"new", "queued"}
    BY DEF RefinementInv, EndInv, KnowEachOther
  <1>2. hand["read"] = <<>> /\ Len(hand["read"]) = 0
    BY TypeFacts DEF Hands
  <1>3. Sent = chunks
    BY <1>2, CountFacts, CountsDescend
  <1>4. Len(datas["crypt"]) > DownLimit["read"]
    <2>1. ~(Len(datas["crypt"]) <= DownLimit["read"])
      BY DEF HasRoom, Down
    <2> QED BY <2>1, DownLimitFacts, CountFacts, SMTT(30)
  <1>5. Sent > Crypted + DownLimit["read"]
    <2>1. Taken = Sent - Len(datas["crypt"]) /\ Len(datas["crypt"]) \in Nat
      BY CountFacts
    <2> QED BY <1>4, <2>1, DownLimitFacts, CountsDescend
  <1>6. chunks > 0
    BY <1>3, <1>5, DownLimitFacts, CountsDescend
  <1>7. Sent < Total \/ fileLen % ReadDataSize = 0
    <2>1. CASE chunks = Total
      <3>1. ~eof
        BY DEF RefinementInv, Reading
      <3> QED BY <1>6, <2>1, <3>1 DEF RefinementInv, Reading
    <2>2. CASE chunks # Total
      BY <1>3, <2>2, CountsDescend
    <2> QED BY <2>1, <2>2
  <1> QED BY <1>1, <1>5, <1>7

LEMMA CrypterSleeps ==
    ASSUME RefinementInv, pc["crypt"] = "check", ~HasRoom("crypt")
    PROVE  /\ pc["write"] \notin {"new", "queued"}
           /\ Crypted > Written + DownLimit["crypt"]
           /\ Crypted < Total
  <1>1. pc["write"] \notin {"new", "queued"}
    BY DEF RefinementInv, EndInv, KnowEachOther
  <1>2. Len(datas["write"]) > DownLimit["crypt"]
    <2>1. ~(Len(datas["write"]) <= DownLimit["crypt"])
      BY DEF HasRoom, Down
    <2> QED BY <2>1, DownLimitFacts, CountFacts, SMTT(30)
  <1>3. Crypted > Written + DownLimit["crypt"]
    <2>1. Written = Crypted - Len(datas["write"]) /\ Len(datas["write"]) \in Nat
      BY CountFacts
    <2> QED BY <1>2, <2>1, DownLimitFacts, CountsDescend
  <1>4. Crypted < Total
    <2>1. Crypted > 0
      BY <1>3, DownLimitFacts, CountsDescend
    <2>2. Crypted <= Total /\ Total > 0
      <3>1. Crypted <= Sent /\ Sent <= chunks /\ chunks <= Total
        BY CountsDescend
      <3> QED BY <2>1, <3>1, CountsDescend
    <2>3. ~CryptLeft
      BY DEF CryptLeft
    <2> QED BY <2>2, <2>3 DEF RefinementInv, Leaving
  <1> QED BY <1>1, <1>3, <1>4

(* A task that returns has passed on every block. *)
LEMMA ReturnsAtEnd ==
    ASSUME RefinementInv
    PROVE  /\ pc["read"] = "return" => Sent = Total
           /\ pc["crypt"] = "return" => Crypted = Total /\ Total > 0
           /\ pc["write"] = "return" => Written = Total /\ Total > 0
  <1>1. ASSUME pc["read"] = "return" PROVE Sent = Total
    <2>1. Len(hand["read"]) = 0
      BY <1>1, TypeFacts DEF Hands
    <2>2. chunks = Total
      BY <1>1 DEF RefinementInv, Reading
    <2> QED BY <2>1, <2>2, CountFacts, CountsDescend
  <1> QED BY <1>1 DEF RefinementInv, Leaving, CryptLeft, WriteLeft

(* The same facts, in the words of FileChain. *)
LEMMA ChainWords ==
    ASSUME RefinementInv
    PROVE  /\ FileSize["file"] = SizeOf(fileLen)
           /\ SizeOf(fileLen).blocks = Total
           /\ SizeOf(fileLen).aligned = (fileLen % ReadDataSize = 0)
           /\ FilePassed["file"] = Passed
           /\ Passed["read"] = Sent /\ Passed["crypt"] = Crypted /\ Passed["write"] = Written
           /\ \A t \in Tasks : [file |-> [u \in Tasks |-> PlaceOf(u)]]["file"][t] = PlaceAt(pc[t])
  <1>1. SizeOf(fileLen).blocks = Total /\ SizeOf(fileLen).aligned = (fileLen % ReadDataSize = 0)
    BY DEF SizeOf, Total, TotalOf
  <1>2. FileSize["file"] = SizeOf(fileLen) /\ FilePassed["file"] = Passed
    BY DEF FileSize, FilePassed
  <1>3. Passed["read"] = Sent /\ Passed["crypt"] = Crypted /\ Passed["write"] = Written
    BY DEF Passed
  <1>4. \A t \in Tasks : [file |-> [u \in Tasks |-> PlaceOf(u)]]["file"][t] = PlaceAt(pc[t])
    BY PlaceOfIsPlaceAt
  <1> QED BY <1>1, <1>2, <1>3, <1>4

(* A step that moves a task. *)
LEMMA MovingStep ==
    ASSUME RefinementInv, UNCHANGED <<FileSize, FilePassed>>, PlaceStep
    PROVE  [Chain!ChainNext]_(Chain!chainVars)
  <1>0. /\ Chain!Tasks = Tasks /\ "file" \in {"file"}
    BY DEF Chain!Tasks, Tasks
  <1> USE DEF FileSize, FilePassed, Passed
  <1>1. CASE Kept
    BY <1>1, KeptIsKept DEF Chain!chainVars
  <1>2. ASSUME NEW t \in Tasks, Moved(t, "new", "queued") PROVE Chain!ChainNext
    BY <1>0, <1>2, MovedIsMove DEF Chain!ChainNext, Chain!Queue
  <1>3. ASSUME NEW t \in Tasks, Moved(t, "queued", "running") PROVE Chain!ChainNext
    BY <1>0, <1>3, MovedIsMove DEF Chain!ChainNext, Chain!Enter
  <1>4. ASSUME NEW t \in Tasks, Moved(t, "asleep", "running") PROVE Chain!ChainNext
    BY <1>0, <1>4, MovedIsMove DEF Chain!ChainNext, Chain!Work, Chain!Wake
  <1>5. ASSUME NEW t \in Tasks, Moved(t, "running", "ended"), pc[t] = "return"
        PROVE  Chain!ChainNext
    <2>1. Chain!Move("file", t, "running", "ended")
      BY <1>5, MovedIsMove
    <2>2. /\ FilePassed["file"][t] = FileSize["file"].blocks
          /\ t = "read" \/ FileSize["file"].blocks > 0
      <3> HIDE DEF FileSize, FilePassed, Passed
      <3> QED BY <1>5, ReturnsAtEnd, ChainWords DEF Tasks
    <2>3. Chain!End("file", t)
      BY <2>1, <2>2 DEF Chain!End
    <2> QED BY <1>0, <2>3 DEF Chain!ChainNext, Chain!Work
  <1>6. ASSUME NEW t \in Tasks, Moved(t, "running", "asleep"),
               t # "write", pc[t] = "check", ~HasRoom(t)
        PROVE  Chain!ChainNext
    <2>1. Chain!Move("file", t, "running", "asleep")
      BY <1>6, MovedIsMove
    <2>2. t \in {"read", "crypt"} /\ Chain!Down[t] \in Tasks /\ Chain!Down[t] = Down[t]
      BY <1>6 DEF Tasks, Chain!Down, Down
    <2>3. Chain!Started("file", Chain!Down[t])
      <3>1. pc[Down[t]] \notin {"new", "queued"}
        BY <1>6, <2>2, ReaderSleeps, CrypterSleeps DEF Down
      <3>2. PlaceAt(pc[Down[t]]) \notin {"new", "queued"}
        BY <3>1 DEF PlaceAt
      <3>3. PlaceAt(pc[Down[t]]) # "taken"
        BY DEF PlaceAt
      <3> QED BY <2>2, <3>2, <3>3, ChainWords DEF Chain!Started
    <2>4. /\ FilePassed["file"][t] > FilePassed["file"][Chain!Down[t]] + DownLimit[t]
          /\ \/ FilePassed["file"][t] < FileSize["file"].blocks
             \/ t = "read" /\ FileSize["file"].aligned
      <3> HIDE DEF FileSize, FilePassed, Passed
      <3>1. CASE t = "read"
        <4>1. Down[t] = "crypt"
          BY <3>1 DEF Down
        <4>2. Sent > Crypted + DownLimit["read"] /\ (Sent < Total \/ fileLen % ReadDataSize = 0)
          BY <1>6, <3>1, ReaderSleeps
        <4>3. /\ FileSize["file"].blocks = Total
              /\ FileSize["file"].aligned = (fileLen % ReadDataSize = 0)
          BY ChainWords
        <4>4. FilePassed["file"]["read"] = Sent /\ FilePassed["file"]["crypt"] = Crypted
          BY ChainWords
        <4> QED BY <2>2, <3>1, <4>1, <4>2, <4>3, <4>4
      <3>2. CASE t = "crypt"
        <4>1. Down[t] = "write"
          BY <3>2 DEF Down
        <4>2. Crypted > Written + DownLimit["crypt"] /\ Crypted < Total
          BY <1>6, <3>2, CrypterSleeps
        <4>3. FileSize["file"].blocks = Total
          BY ChainWords
        <4>4. FilePassed["file"]["crypt"] = Crypted /\ FilePassed["file"]["write"] = Written
          BY ChainWords
        <4> QED BY <2>2, <3>2, <4>1, <4>2, <4>3, <4>4
      <3> QED BY <2>2, <3>1, <3>2
    <2>5. Chain!Sleep("file", t)
      BY <1>6, <2>1, <2>3, <2>4 DEF Chain!Sleep
    <2> QED BY <1>0, <2>5 DEF Chain!ChainNext, Chain!Work
  <1> HIDE DEF FileSize, FilePassed, Passed
  <1> QED BY <1>1, <1>2, <1>3, <1>4, <1>5, <1>6 DEF PlaceStep

(* A step that passes a block on. *)
LEMMA PassingStep ==
    ASSUME RefinementInv, Kept, UNCHANGED FileSize,
           NEW t \in Tasks, PlaceAt(pc[t]) = "running",
           FilePassed["file"][t] < Chain!Available("file", t),
           Passed' = [Passed EXCEPT ![t] = @ + 1]
    PROVE  Chain!ChainNext
  <1>1. Chain!Tasks = Tasks
    BY DEF Chain!Tasks, Tasks
  <1>2. FilePassed' = [FilePassed EXCEPT !["file"][t] = @ + 1]
    BY DEF FilePassed
  <1>3. [file |-> [u \in Tasks |-> PlaceOf(u)]]["file"][t] = "running"
    BY ChainWords
  <1>4. Chain!Pass("file", t)
    BY <1>2, <1>3, KeptIsKept DEF Chain!Pass, FilePassed, Passed, FileSize
  <1> QED BY <1>1, <1>4 DEF Chain!ChainNext, Chain!Work

LEMMA ChainStep ==
    ASSUME RefinementInv, [Next]_vars
    PROVE  [Chain!ChainNext]_(Chain!chainVars)
  <1>0. /\ UNCHANGED FileSize /\ DOMAIN pc = Tasks
        /\ "read" \in Tasks /\ "crypt" \in Tasks /\ "write" \in Tasks
        /\ DOMAIN Passed = Tasks
    BY OutsideIsQuiet, TypeFacts DEF FileSize, Tasks, Passed
  <1>1. CASE ReadPush
    <2>1. /\ pc["read"] = "push" /\ Kept /\ PlaceAt(pc["read"]) = "running"
      BY <1>0, <1>1, OneMoves, PlaceFacts DEF ReadPush
    <2>2. Sent' = Sent + 1 /\ UNCHANGED <<Crypted, Written>> /\ Sent < chunks
      BY <1>1, PushEffect
    <2>3. Passed' = [Passed EXCEPT !["read"] = @ + 1]
      BY <2>2 DEF Passed
    <2>4. Chain!Available("file", "read") = Total
      BY ChainWords DEF Chain!Available, FileSize
    <2>5. FilePassed["file"]["read"] < Chain!Available("file", "read")
      BY <2>2, <2>4, ChainWords, CountsDescend
    <2> QED BY <1>0, <2>1, <2>3, <2>5, PassingStep
  <1>2. CASE CryptWork
    <2>1. /\ pc["crypt"] = "work" /\ Kept /\ PlaceAt(pc["crypt"]) = "running"
      BY <1>0, <1>2, OneMoves, PlaceFacts DEF CryptWork
    <2>2. Crypted' = Crypted + 1 /\ UNCHANGED <<Sent, Written>> /\ Crypted < Sent
      BY <1>2, WorkEffect
    <2>3. Passed' = [Passed EXCEPT !["crypt"] = @ + 1]
      BY <2>2 DEF Passed
    <2>4. Chain!Available("file", "crypt") = Sent
      BY ChainWords DEF Chain!Available, Chain!Up, FilePassed, Passed
    <2>5. FilePassed["file"]["crypt"] < Chain!Available("file", "crypt")
      BY <2>2, <2>4, ChainWords, CountsDescend
    <2> QED BY <1>0, <2>1, <2>3, <2>5, PassingStep
  <1>3. CASE WritePop
    <2>1. /\ pc["write"] = "pop" /\ Kept /\ PlaceAt(pc["write"]) = "running"
      BY <1>0, <1>3, OneMoves, PlaceFacts DEF WritePop
    <2>2. Written' = Written + 1 /\ UNCHANGED <<Sent, Crypted>> /\ Written < Crypted
      BY <1>3, WriteEffect
    <2>3. Passed' = [Passed EXCEPT !["write"] = @ + 1]
      BY <2>2 DEF Passed
    <2>4. Chain!Available("file", "write") = Crypted
      BY ChainWords DEF Chain!Available, Chain!Up, FilePassed, Passed
    <2>5. FilePassed["file"]["write"] < Chain!Available("file", "write")
      BY <2>2, <2>4, ChainWords, CountsDescend
    <2> QED BY <1>0, <2>1, <2>3, <2>5, PassingStep
  <1>4. CASE ~ReadPush /\ ~CryptWork /\ ~WritePop
    <2>1. UNCHANGED FilePassed
      BY <1>4, CountsStay DEF FilePassed, Passed
    <2> QED BY <1>0, <2>1, PlacesStep, MovingStep
  <1> QED BY <1>1, <1>2, <1>3, <1>4

LEMMA ChainStart ==
    ASSUME NoFaults, Init
    PROVE  Chain!ChainInit
  <1>1. fileLen \in Lengths /\ \A t \in Tasks : pc[t] = "new" /\ hand[t] = <<>> /\ datas[t] = <<>>
    BY DEF Init
  <1>2. Sent = 0 /\ Crypted = 0 /\ Written = 0
    <2>1. \A t \in Tasks : Len(hand[t]) = 0 /\ Len(datas[t]) = 0
      BY <1>1
    <2>2. /\ Len(hand["read"]) = 0 /\ Len(hand["crypt"]) = 0 /\ chunks = 0
          /\ Len(datas["crypt"]) = 0 /\ Len(datas["write"]) = 0
      BY <2>1 DEF Tasks, Init
    <2> QED BY <2>2 DEF Sent, Taken, Crypted, Written
  <1>3. [t \in Tasks |-> PlaceOf(t)] = [t \in Tasks |-> "new"]
    BY <1>1, PlaceOfIsPlaceAt, PlaceFacts
  <1>4. [read |-> Sent, crypt |-> Crypted, write |-> Written] = [t \in Tasks |-> 0]
    BY <1>2 DEF Tasks
  <1>5. [file |-> SizeOf(fileLen)] \in {[file |-> SizeOf(len)] : len \in Lengths}
    BY <1>1
  <1>6. \A x : [file |-> x] = [f \in {"file"} |-> x]
    OBVIOUS
  <1> QED BY <1>3, <1>4, <1>5, <1>6 DEF Chain!ChainInit, Chain!Tasks, Tasks

(* What several files see of the chain is FileChain: no task sleeps unless the   *)
(* next one has more than its bound and knows of it, and none ends before every   *)
(* block has passed it.                                                          *)
THEOREM ChainRefinement ==
    ASSUME NoFaults
    PROVE  Spec => ImplementsChain
  <1>1. Init => Chain!ChainInit
    BY ChainStart
  <1>2. RefinementInv /\ [Next]_vars => [Chain!ChainNext]_(Chain!chainVars)
    BY ChainStep
  <1> QED BY <1>1, <1>2, RefinementSafety, PTL DEF Spec, ImplementsChain, Chain!ChainSpec

===============================================================================
