----------------------------- MODULE CApiProofs -----------------------------
(***************************************************************************)
(* The buffers of the C interface, for any number of goroutines or self    *)
(* tests, blocks, chunk lengths and passes through the programs: who holds *)
(* which block at which step, and what follows for frees, copies and       *)
(* verdicts.                                                               *)
(***************************************************************************)
EXTENDS CApiBuffers, SequenceTheorems, TLAPS

-----------------------------------------------------------------------------
(* Where in its program a caller makes, copies and frees a buffer.         *)

MadeAt(x) == IF x = "plaintext" THEN 10 ELSE 3

CopyAt(c, x) ==
    IF x = "plaintext" THEN 11
    ELSE IF x = "nonce" THEN 4
    ELSE IF x = "ciphertext" THEN IF c \in GoCallers THEN 6 ELSE 5
    ELSE IF c \in GoCallers THEN 8 ELSE 6

FreeAt(c, x) ==
    IF x = "plaintext" THEN 12
    ELSE IF x = "tag" THEN 9
    ELSE IF x = "nonce" THEN IF c \in GoCallers THEN 5 ELSE 7
    ELSE IF c \in GoCallers THEN 7 ELSE 8

-----------------------------------------------------------------------------
(* The programs, step by step.                                             *)

AnyStep == [op : {"keypair", "derive", "encrypt", "copy", "free", "decrypt", "compare", "tamper"},
            name : Names \cup {NULL}]

\* Calls have no name; copies and frees name a buffer.
LEMMA StepType ==
    /\ \A op \in {"keypair", "derive", "encrypt", "decrypt", "compare", "tamper"} :
          Step(op, NULL) \in AnyStep
    /\ \A op \in {"copy", "free"}, x \in Names : Step(op, x) \in AnyStep
BY DEF Step, AnyStep, Names, Chunk, NULL

\* A program t is a program s followed by a program u.
Joins(t, s, u) ==
    /\ t \in Seq(AnyStep)
    /\ Len(t) = Len(s) + Len(u)
    /\ \A i \in 1 .. Len(s) : t[i] = s[i]
    /\ \A i \in 1 .. Len(u) : t[Len(s) + i] = u[i]

\* Two programs joined are a program.
LEMMA Join == ASSUME NEW s \in Seq(AnyStep), NEW u \in Seq(AnyStep) PROVE Joins(s \o u, s, u)
<1>1. /\ s \o u \in Seq(AnyStep) /\ Len(s \o u) = Len(s) + Len(u)
      /\ \A i \in 1 .. Len(s) + Len(u) :
            (s \o u)[i] = IF i <= Len(s) THEN s[i] ELSE u[i - Len(s)]
  BY ConcatProperties
<1> QED
  BY <1>1 DEF Joins

\* The one step of a call.
LEMMA CallSteps ==
    \A op \in {"keypair", "derive", "encrypt", "decrypt", "compare", "tamper"} :
        Call(op) \in Seq(AnyStep) /\ Len(Call(op)) = 1 /\ Call(op)[1] = Step(op, NULL)
BY StepType DEF Call

\* The two steps of bufToBytes.
LEMMA bufToBytesSteps ==
    \A x \in Names :
        /\ bufToBytes(x) \in Seq(AnyStep) /\ Len(bufToBytes(x)) = 2
        /\ bufToBytes(x)[1] = Step("copy", x) /\ bufToBytes(x)[2] = Step("free", x)
BY StepType DEF bufToBytes

\* One step for each buffer of a chunk.
LEMMA EachSteps ==
    \A op \in {"copy", "free"} : LET e == Each(op, <<"nonce", "ciphertext", "tag">>) IN
        /\ e \in Seq(AnyStep) /\ Len(e) = 3
        /\ e[1] = Step(op, "nonce") /\ e[2] = Step(op, "ciphertext") /\ e[3] = Step(op, "tag")
BY StepType DEF Each, Names, Chunk

\* The names of the buffers one by one.
LEMMA NamesAre == Names = {"nonce", "ciphertext", "tag", "plaintext"}
BY DEF Names, Chunk

\* The twelve steps of a goroutine.
LEMMA GoSteps ==
    /\ GoProgram \in Seq(AnyStep) /\ Len(GoProgram) = 12
    /\ GoProgram[1] = Step("keypair", NULL)
    /\ GoProgram[2] = Step("derive", NULL)
    /\ GoProgram[3] = Step("encrypt", NULL)
    /\ GoProgram[4] = Step("copy", "nonce")
    /\ GoProgram[5] = Step("free", "nonce")
    /\ GoProgram[6] = Step("copy", "ciphertext")
    /\ GoProgram[7] = Step("free", "ciphertext")
    /\ GoProgram[8] = Step("copy", "tag")
    /\ GoProgram[9] = Step("free", "tag")
    /\ GoProgram[10] = Step("decrypt", NULL)
    /\ GoProgram[11] = Step("copy", "plaintext")
    /\ GoProgram[12] = Step("free", "plaintext")
<1> DEFINE p1 == Call("keypair")
           p2 == p1 \o Call("derive")
           p3 == p2 \o Call("encrypt")
           p4 == p3 \o bufToBytes("nonce")
           p5 == p4 \o bufToBytes("ciphertext")
           p6 == p5 \o bufToBytes("tag")
           p7 == p6 \o Call("decrypt")
           p8 == p7 \o bufToBytes("plaintext")
<1>0. GoProgram = p8
  BY DEF GoProgram
<1>1. p1 \in Seq(AnyStep) /\ Len(p1) = 1 /\ p1[1] = Step("keypair", NULL)
  BY CallSteps
<1> HIDE DEF p1
<1>2. /\ p2 \in Seq(AnyStep) /\ Len(p2) = 2
      /\ \A i \in 1 .. 1 : p2[i] = p1[i]
      /\ p2[2] = Step("derive", NULL)
  <2> DEFINE u == Call("derive")
  <2>1. /\ u \in Seq(AnyStep) /\ Len(u) = 1
        /\ u[1] = Step("derive", NULL)
    BY CallSteps
  <2>2. Joins(p2, p1, u)
    BY <1>1, <2>1, Join
  <2> HIDE DEF p2, u
  <2>3. /\ p2 \in Seq(AnyStep) /\ Len(p2) = 2
        /\ \A i \in 1 .. 1 : p2[i] = p1[i]
    BY <1>1, <2>1, <2>2 DEF Joins
  <2>4. /\ p2[1+1] = u[1]
    BY <1>1, <2>1, <2>2 DEF Joins
  <2> QED
    BY <2>1, <2>3, <2>4
<1> HIDE DEF p2
<1>3. /\ p3 \in Seq(AnyStep) /\ Len(p3) = 3
      /\ \A i \in 1 .. 2 : p3[i] = p2[i]
      /\ p3[3] = Step("encrypt", NULL)
  <2> DEFINE u == Call("encrypt")
  <2>1. /\ u \in Seq(AnyStep) /\ Len(u) = 1
        /\ u[1] = Step("encrypt", NULL)
    BY CallSteps
  <2>2. Joins(p3, p2, u)
    BY <1>2, <2>1, Join
  <2> HIDE DEF p3, u
  <2>3. /\ p3 \in Seq(AnyStep) /\ Len(p3) = 3
        /\ \A i \in 1 .. 2 : p3[i] = p2[i]
    BY <1>2, <2>1, <2>2 DEF Joins
  <2>4. /\ p3[2+1] = u[1]
    BY <1>2, <2>1, <2>2 DEF Joins
  <2> QED
    BY <2>1, <2>3, <2>4
<1> HIDE DEF p3
<1>4. /\ p4 \in Seq(AnyStep) /\ Len(p4) = 5
      /\ \A i \in 1 .. 3 : p4[i] = p3[i]
      /\ p4[4] = Step("copy", "nonce") /\ p4[5] = Step("free", "nonce")
  <2> DEFINE u == bufToBytes("nonce")
  <2>1. /\ u \in Seq(AnyStep) /\ Len(u) = 2
        /\ u[1] = Step("copy", "nonce") /\ u[2] = Step("free", "nonce")
    BY bufToBytesSteps, NamesAre
  <2>2. Joins(p4, p3, u)
    BY <1>3, <2>1, Join
  <2> HIDE DEF p4, u
  <2>3. /\ p4 \in Seq(AnyStep) /\ Len(p4) = 5
        /\ \A i \in 1 .. 3 : p4[i] = p3[i]
    BY <1>3, <2>1, <2>2 DEF Joins
  <2>4. /\ p4[3+1] = u[1]
        /\ p4[3+2] = u[2]
    BY <1>3, <2>1, <2>2 DEF Joins
  <2> QED
    BY <2>1, <2>3, <2>4
<1> HIDE DEF p4
<1>5. /\ p5 \in Seq(AnyStep) /\ Len(p5) = 7
      /\ \A i \in 1 .. 5 : p5[i] = p4[i]
      /\ p5[6] = Step("copy", "ciphertext") /\ p5[7] = Step("free", "ciphertext")
  <2> DEFINE u == bufToBytes("ciphertext")
  <2>1. /\ u \in Seq(AnyStep) /\ Len(u) = 2
        /\ u[1] = Step("copy", "ciphertext") /\ u[2] = Step("free", "ciphertext")
    BY bufToBytesSteps, NamesAre
  <2>2. Joins(p5, p4, u)
    BY <1>4, <2>1, Join
  <2> HIDE DEF p5, u
  <2>3. /\ p5 \in Seq(AnyStep) /\ Len(p5) = 7
        /\ \A i \in 1 .. 5 : p5[i] = p4[i]
    BY <1>4, <2>1, <2>2 DEF Joins
  <2>4. /\ p5[5+1] = u[1]
        /\ p5[5+2] = u[2]
    BY <1>4, <2>1, <2>2 DEF Joins
  <2> QED
    BY <2>1, <2>3, <2>4
<1> HIDE DEF p5
<1>6. /\ p6 \in Seq(AnyStep) /\ Len(p6) = 9
      /\ \A i \in 1 .. 7 : p6[i] = p5[i]
      /\ p6[8] = Step("copy", "tag") /\ p6[9] = Step("free", "tag")
  <2> DEFINE u == bufToBytes("tag")
  <2>1. /\ u \in Seq(AnyStep) /\ Len(u) = 2
        /\ u[1] = Step("copy", "tag") /\ u[2] = Step("free", "tag")
    BY bufToBytesSteps, NamesAre
  <2>2. Joins(p6, p5, u)
    BY <1>5, <2>1, Join
  <2> HIDE DEF p6, u
  <2>3. /\ p6 \in Seq(AnyStep) /\ Len(p6) = 9
        /\ \A i \in 1 .. 7 : p6[i] = p5[i]
    BY <1>5, <2>1, <2>2 DEF Joins
  <2>4. /\ p6[7+1] = u[1]
        /\ p6[7+2] = u[2]
    BY <1>5, <2>1, <2>2 DEF Joins
  <2> QED
    BY <2>1, <2>3, <2>4
<1> HIDE DEF p6
<1>7. /\ p7 \in Seq(AnyStep) /\ Len(p7) = 10
      /\ \A i \in 1 .. 9 : p7[i] = p6[i]
      /\ p7[10] = Step("decrypt", NULL)
  <2> DEFINE u == Call("decrypt")
  <2>1. /\ u \in Seq(AnyStep) /\ Len(u) = 1
        /\ u[1] = Step("decrypt", NULL)
    BY CallSteps
  <2>2. Joins(p7, p6, u)
    BY <1>6, <2>1, Join
  <2> HIDE DEF p7, u
  <2>3. /\ p7 \in Seq(AnyStep) /\ Len(p7) = 10
        /\ \A i \in 1 .. 9 : p7[i] = p6[i]
    BY <1>6, <2>1, <2>2 DEF Joins
  <2>4. /\ p7[9+1] = u[1]
    BY <1>6, <2>1, <2>2 DEF Joins
  <2> QED
    BY <2>1, <2>3, <2>4
<1> HIDE DEF p7
<1>8. /\ p8 \in Seq(AnyStep) /\ Len(p8) = 12
      /\ \A i \in 1 .. 10 : p8[i] = p7[i]
      /\ p8[11] = Step("copy", "plaintext") /\ p8[12] = Step("free", "plaintext")
  <2> DEFINE u == bufToBytes("plaintext")
  <2>1. /\ u \in Seq(AnyStep) /\ Len(u) = 2
        /\ u[1] = Step("copy", "plaintext") /\ u[2] = Step("free", "plaintext")
    BY bufToBytesSteps, NamesAre
  <2>2. Joins(p8, p7, u)
    BY <1>7, <2>1, Join
  <2> HIDE DEF p8, u
  <2>3. /\ p8 \in Seq(AnyStep) /\ Len(p8) = 12
        /\ \A i \in 1 .. 10 : p8[i] = p7[i]
    BY <1>7, <2>1, <2>2 DEF Joins
  <2>4. /\ p8[10+1] = u[1]
        /\ p8[10+2] = u[2]
    BY <1>7, <2>1, <2>2 DEF Joins
  <2> QED
    BY <2>1, <2>3, <2>4
<1> HIDE DEF p8
<1> QED
  BY <1>0, <1>1, <1>2, <1>3, <1>4, <1>5, <1>6, <1>7, <1>8

\* The fourteen steps of a self test.
LEMMA SwiftSteps ==
    /\ SwiftProgram \in Seq(AnyStep) /\ Len(SwiftProgram) = 14
    /\ SwiftProgram[1] = Step("keypair", NULL)
    /\ SwiftProgram[2] = Step("derive", NULL)
    /\ SwiftProgram[3] = Step("encrypt", NULL)
    /\ SwiftProgram[4] = Step("copy", "nonce")
    /\ SwiftProgram[5] = Step("copy", "ciphertext")
    /\ SwiftProgram[6] = Step("copy", "tag")
    /\ SwiftProgram[7] = Step("free", "nonce")
    /\ SwiftProgram[8] = Step("free", "ciphertext")
    /\ SwiftProgram[9] = Step("free", "tag")
    /\ SwiftProgram[10] = Step("decrypt", NULL)
    /\ SwiftProgram[11] = Step("copy", "plaintext")
    /\ SwiftProgram[12] = Step("free", "plaintext")
    /\ SwiftProgram[13] = Step("compare", NULL)
    /\ SwiftProgram[14] = Step("tamper", NULL)
<1> DEFINE p1 == Call("keypair")
           p2 == p1 \o Call("derive")
           p3 == p2 \o Call("encrypt")
           p4 == p3 \o Each("copy", <<"nonce", "ciphertext", "tag">>)
           p5 == p4 \o Each("free", <<"nonce", "ciphertext", "tag">>)
           p6 == p5 \o Call("decrypt")
           p7 == p6 \o bufToBytes("plaintext")
           p8 == p7 \o Call("compare")
           p9 == p8 \o Call("tamper")
<1>0. SwiftProgram = p9
  BY DEF SwiftProgram, SelfTestFreeing, bufToBytes
<1>1. p1 \in Seq(AnyStep) /\ Len(p1) = 1 /\ p1[1] = Step("keypair", NULL)
  BY CallSteps
<1> HIDE DEF p1
<1>2. /\ p2 \in Seq(AnyStep) /\ Len(p2) = 2
      /\ \A i \in 1 .. 1 : p2[i] = p1[i]
      /\ p2[2] = Step("derive", NULL)
  <2> DEFINE u == Call("derive")
  <2>1. /\ u \in Seq(AnyStep) /\ Len(u) = 1
        /\ u[1] = Step("derive", NULL)
    BY CallSteps
  <2>2. Joins(p2, p1, u)
    BY <1>1, <2>1, Join
  <2> HIDE DEF p2, u
  <2>3. /\ p2 \in Seq(AnyStep) /\ Len(p2) = 2
        /\ \A i \in 1 .. 1 : p2[i] = p1[i]
    BY <1>1, <2>1, <2>2 DEF Joins
  <2>4. /\ p2[1+1] = u[1]
    BY <1>1, <2>1, <2>2 DEF Joins
  <2> QED
    BY <2>1, <2>3, <2>4
<1> HIDE DEF p2
<1>3. /\ p3 \in Seq(AnyStep) /\ Len(p3) = 3
      /\ \A i \in 1 .. 2 : p3[i] = p2[i]
      /\ p3[3] = Step("encrypt", NULL)
  <2> DEFINE u == Call("encrypt")
  <2>1. /\ u \in Seq(AnyStep) /\ Len(u) = 1
        /\ u[1] = Step("encrypt", NULL)
    BY CallSteps
  <2>2. Joins(p3, p2, u)
    BY <1>2, <2>1, Join
  <2> HIDE DEF p3, u
  <2>3. /\ p3 \in Seq(AnyStep) /\ Len(p3) = 3
        /\ \A i \in 1 .. 2 : p3[i] = p2[i]
    BY <1>2, <2>1, <2>2 DEF Joins
  <2>4. /\ p3[2+1] = u[1]
    BY <1>2, <2>1, <2>2 DEF Joins
  <2> QED
    BY <2>1, <2>3, <2>4
<1> HIDE DEF p3
<1>4. /\ p4 \in Seq(AnyStep) /\ Len(p4) = 6
      /\ \A i \in 1 .. 3 : p4[i] = p3[i]
      /\ p4[4] = Step("copy", "nonce") /\ p4[5] = Step("copy", "ciphertext") /\ p4[6] = Step("copy", "tag")
  <2> DEFINE u == Each("copy", <<"nonce", "ciphertext", "tag">>)
  <2>1. /\ u \in Seq(AnyStep) /\ Len(u) = 3
        /\ u[1] = Step("copy", "nonce") /\ u[2] = Step("copy", "ciphertext") /\ u[3] = Step("copy", "tag")
    BY EachSteps
  <2>2. Joins(p4, p3, u)
    BY <1>3, <2>1, Join
  <2> HIDE DEF p4, u
  <2>3. /\ p4 \in Seq(AnyStep) /\ Len(p4) = 6
        /\ \A i \in 1 .. 3 : p4[i] = p3[i]
    BY <1>3, <2>1, <2>2 DEF Joins
  <2>4. /\ p4[3+1] = u[1]
        /\ p4[3+2] = u[2]
        /\ p4[3+3] = u[3]
    BY <1>3, <2>1, <2>2 DEF Joins
  <2> QED
    BY <2>1, <2>3, <2>4
<1> HIDE DEF p4
<1>5. /\ p5 \in Seq(AnyStep) /\ Len(p5) = 9
      /\ \A i \in 1 .. 6 : p5[i] = p4[i]
      /\ p5[7] = Step("free", "nonce") /\ p5[8] = Step("free", "ciphertext") /\ p5[9] = Step("free", "tag")
  <2> DEFINE u == Each("free", <<"nonce", "ciphertext", "tag">>)
  <2>1. /\ u \in Seq(AnyStep) /\ Len(u) = 3
        /\ u[1] = Step("free", "nonce") /\ u[2] = Step("free", "ciphertext") /\ u[3] = Step("free", "tag")
    BY EachSteps
  <2>2. Joins(p5, p4, u)
    BY <1>4, <2>1, Join
  <2> HIDE DEF p5, u
  <2>3. /\ p5 \in Seq(AnyStep) /\ Len(p5) = 9
        /\ \A i \in 1 .. 6 : p5[i] = p4[i]
    BY <1>4, <2>1, <2>2 DEF Joins
  <2>4. /\ p5[6+1] = u[1]
        /\ p5[6+2] = u[2]
        /\ p5[6+3] = u[3]
    BY <1>4, <2>1, <2>2 DEF Joins
  <2> QED
    BY <2>1, <2>3, <2>4
<1> HIDE DEF p5
<1>6. /\ p6 \in Seq(AnyStep) /\ Len(p6) = 10
      /\ \A i \in 1 .. 9 : p6[i] = p5[i]
      /\ p6[10] = Step("decrypt", NULL)
  <2> DEFINE u == Call("decrypt")
  <2>1. /\ u \in Seq(AnyStep) /\ Len(u) = 1
        /\ u[1] = Step("decrypt", NULL)
    BY CallSteps
  <2>2. Joins(p6, p5, u)
    BY <1>5, <2>1, Join
  <2> HIDE DEF p6, u
  <2>3. /\ p6 \in Seq(AnyStep) /\ Len(p6) = 10
        /\ \A i \in 1 .. 9 : p6[i] = p5[i]
    BY <1>5, <2>1, <2>2 DEF Joins
  <2>4. /\ p6[9+1] = u[1]
    BY <1>5, <2>1, <2>2 DEF Joins
  <2> QED
    BY <2>1, <2>3, <2>4
<1> HIDE DEF p6
<1>7. /\ p7 \in Seq(AnyStep) /\ Len(p7) = 12
      /\ \A i \in 1 .. 10 : p7[i] = p6[i]
      /\ p7[11] = Step("copy", "plaintext") /\ p7[12] = Step("free", "plaintext")
  <2> DEFINE u == bufToBytes("plaintext")
  <2>1. /\ u \in Seq(AnyStep) /\ Len(u) = 2
        /\ u[1] = Step("copy", "plaintext") /\ u[2] = Step("free", "plaintext")
    BY bufToBytesSteps, NamesAre
  <2>2. Joins(p7, p6, u)
    BY <1>6, <2>1, Join
  <2> HIDE DEF p7, u
  <2>3. /\ p7 \in Seq(AnyStep) /\ Len(p7) = 12
        /\ \A i \in 1 .. 10 : p7[i] = p6[i]
    BY <1>6, <2>1, <2>2 DEF Joins
  <2>4. /\ p7[10+1] = u[1]
        /\ p7[10+2] = u[2]
    BY <1>6, <2>1, <2>2 DEF Joins
  <2> QED
    BY <2>1, <2>3, <2>4
<1> HIDE DEF p7
<1>8. /\ p8 \in Seq(AnyStep) /\ Len(p8) = 13
      /\ \A i \in 1 .. 12 : p8[i] = p7[i]
      /\ p8[13] = Step("compare", NULL)
  <2> DEFINE u == Call("compare")
  <2>1. /\ u \in Seq(AnyStep) /\ Len(u) = 1
        /\ u[1] = Step("compare", NULL)
    BY CallSteps
  <2>2. Joins(p8, p7, u)
    BY <1>7, <2>1, Join
  <2> HIDE DEF p8, u
  <2>3. /\ p8 \in Seq(AnyStep) /\ Len(p8) = 13
        /\ \A i \in 1 .. 12 : p8[i] = p7[i]
    BY <1>7, <2>1, <2>2 DEF Joins
  <2>4. /\ p8[12+1] = u[1]
    BY <1>7, <2>1, <2>2 DEF Joins
  <2> QED
    BY <2>1, <2>3, <2>4
<1> HIDE DEF p8
<1>9. /\ p9 \in Seq(AnyStep) /\ Len(p9) = 14
      /\ \A i \in 1 .. 13 : p9[i] = p8[i]
      /\ p9[14] = Step("tamper", NULL)
  <2> DEFINE u == Call("tamper")
  <2>1. /\ u \in Seq(AnyStep) /\ Len(u) = 1
        /\ u[1] = Step("tamper", NULL)
    BY CallSteps
  <2>2. Joins(p9, p8, u)
    BY <1>8, <2>1, Join
  <2> HIDE DEF p9, u
  <2>3. /\ p9 \in Seq(AnyStep) /\ Len(p9) = 14
        /\ \A i \in 1 .. 13 : p9[i] = p8[i]
    BY <1>8, <2>1, <2>2 DEF Joins
  <2>4. /\ p9[13+1] = u[1]
    BY <1>8, <2>1, <2>2 DEF Joins
  <2> QED
    BY <2>1, <2>3, <2>4
<1> HIDE DEF p9
<1> QED
  BY <1>0, <1>1, <1>2, <1>3, <1>4, <1>5, <1>6, <1>7, <1>8, <1>9

\* The numbers of the steps.
LEMMA Where ==
    ASSUME NEW c \in Callers
    PROVE  /\ End(c) = IF c \in GoCallers THEN 13 ELSE 15
           /\ At(c, "keypair") => pc[c] = 1
           /\ At(c, "derive") => pc[c] = 2
           /\ At(c, "encrypt") => pc[c] = 3
           /\ At(c, "decrypt") => pc[c] = 10
           /\ At(c, "compare") => pc[c] = 13 /\ c \notin GoCallers
           /\ At(c, "tamper") => pc[c] = 14 /\ c \notin GoCallers
           /\ At(c, "copy") => Name(c) \in Names /\ pc[c] = CopyAt(c, Name(c))
           /\ At(c, "free") => Name(c) \in Names /\ pc[c] = FreeAt(c, Name(c))
<1>1. CASE c \in GoCallers
  <2>1. Program(c) = GoProgram /\ DOMAIN Program(c) = 1 .. 12 /\ End(c) = 13
    <3>1. Program(c) = GoProgram
      BY <1>1 DEF Program
    <3>2. GoProgram \in Seq(AnyStep) /\ Len(GoProgram) = 12
      BY GoSteps
    <3>3. DOMAIN GoProgram = 1 .. 12
      BY <3>2
    <3> QED
      BY <3>1, <3>2, <3>3 DEF End
  <2>2. ASSUME NEW op, At(c, op)
        PROVE  pc[c] \in 1 .. 12 /\ GoProgram[pc[c]].op = op /\ Name(c) = GoProgram[pc[c]].name
    BY <2>1, <2>2 DEF At, Name
  <2>3. \A i \in 1 .. 12 :
            /\ GoProgram[i].op = "keypair" => i = 1
            /\ GoProgram[i].op = "derive" => i = 2
            /\ GoProgram[i].op = "encrypt" => i = 3
            /\ GoProgram[i].op = "decrypt" => i = 10
            /\ GoProgram[i].op \notin {"compare", "tamper"}
    BY GoSteps DEF Step
  <2>4. \A i \in 1 .. 12 : GoProgram[i].op = "copy" =>
            GoProgram[i].name \in Names /\ i = CopyAt(c, GoProgram[i].name)
    BY <1>1, GoSteps, NamesAre DEF Step, CopyAt
  <2>5. \A i \in 1 .. 12 : GoProgram[i].op = "free" =>
            GoProgram[i].name \in Names /\ i = FreeAt(c, GoProgram[i].name)
    BY <1>1, GoSteps, NamesAre DEF Step, FreeAt
  <2> QED
    BY <1>1, <2>1, <2>2, <2>3, <2>4, <2>5
<1>2. CASE c \notin GoCallers
  <2>1. Program(c) = SwiftProgram /\ DOMAIN Program(c) = 1 .. 14 /\ End(c) = 15
    <3>1. Program(c) = SwiftProgram
      BY <1>2 DEF Program
    <3>2. SwiftProgram \in Seq(AnyStep) /\ Len(SwiftProgram) = 14
      BY SwiftSteps
    <3>3. DOMAIN SwiftProgram = 1 .. 14
      BY <3>2
    <3> QED
      BY <3>1, <3>2, <3>3 DEF End
  <2>2. ASSUME NEW op, At(c, op)
        PROVE  pc[c] \in 1 .. 14 /\ SwiftProgram[pc[c]].op = op /\ Name(c) = SwiftProgram[pc[c]].name
    BY <2>1, <2>2 DEF At, Name
  <2>3. \A i \in 1 .. 14 :
            /\ SwiftProgram[i].op = "keypair" => i = 1
            /\ SwiftProgram[i].op = "derive" => i = 2
            /\ SwiftProgram[i].op = "encrypt" => i = 3
            /\ SwiftProgram[i].op = "decrypt" => i = 10
            /\ SwiftProgram[i].op = "compare" => i = 13
            /\ SwiftProgram[i].op = "tamper" => i = 14
    BY SwiftSteps DEF Step
  <2>4. \A i \in 1 .. 14 : SwiftProgram[i].op = "copy" =>
            SwiftProgram[i].name \in Names /\ i = CopyAt(c, SwiftProgram[i].name)
    BY <1>2, SwiftSteps, NamesAre DEF Step, CopyAt
  <2>5. \A i \in 1 .. 14 : SwiftProgram[i].op = "free" =>
            SwiftProgram[i].name \in Names /\ i = FreeAt(c, SwiftProgram[i].name)
    BY <1>2, SwiftSteps, NamesAre DEF Step, FreeAt
  <2> QED
    BY <1>2, <2>1, <2>2, <2>3, <2>4, <2>5
<1> QED
  BY <1>1, <1>2

-----------------------------------------------------------------------------
(* The invariant.                                                          *)

\* The caller has been handed a block for x and has not come past its free.
Holds(c, x) ==
    /\ MadeAt(x) < pc[c] /\ pc[c] <= FreeAt(c, x)
    /\ buf[c][x].data # NULL

\* A block that a caller holds has the bytes the core made for that buffer: no
\* two buffers hold the same block.
HeldInv ==
    \A c \in Callers, x \in Names :
        Holds(c, x) => heap[buf[c][x].data] = Output(c, x, buf[c][x].len)

\* A block in use is held, or holds no bytes of a goroutine, or its self test
\* has trapped.
OrphanInv ==
    \A c \in Callers, b \in Blocks : heap[b].owner = c =>
        \/ \E x \in Names : Holds(c, x) /\ buf[c][x].data = b
        \/ c \in GoCallers /\ heap[b].len = 0
        \/ c \in SwiftCallers /\ pc[c] = Stopped

\* Nothing is copied before it was made.
NotYetCopied ==
    \A c \in Callers, x \in Names : pc[c] \in 1 .. MadeAt(x) => copy[c][x] = Nothing

\* The lengths of a chunk, and why a copy of it may be missing.
ChunkInv ==
    \A c \in GoCallers : pc[c] \in 4 .. 10 => \A x \in Chunk :
        /\ buf[c][x].len = 0 => len[c] = 0
        /\ pc[c] > CopyAt(c, x) /\ copy[c][x] = Nothing =>
              buf[c][x].data = NULL \/ buf[c][x].len = 0

\* What a self test has reported when it has come to a step.
StepsInv ==
    \A c \in SwiftCallers :
        /\ pc[c] \in 1 .. 3 => Len(steps[c]) = pc[c] - 1
        /\ pc[c] \in 4 .. 13 => Len(steps[c]) = 3
        /\ pc[c] = 14 => Len(steps[c]) = 4
        /\ pc[c] = 15 => Len(steps[c]) = 5 \/ \E i \in DOMAIN steps[c] : ~steps[c][i]
        /\ pc[c] \in {14, 15} /\ Len(steps[c]) >= 4 /\ steps[c][4] =>
              copy[c]["plaintext"] = Output(c, "plaintext", len[c])

-----------------------------------------------------------------------------
(* What an action does to the heap and to the buffers.                     *)

\* What the core makes is what a block may hold.
LEMMA OutputType ==
    ASSUME TypeOK, NEW c \in Callers, NEW x \in Names, NEW n \in Nat
    PROVE  Output(c, x, n) \in Held /\ Output(c, x, n) # Nothing
<1>1. round[c] \in Nat
  BY CApiAssumption DEF TypeOK
<1> QED
  BY <1>1, NamesAre DEF Output, Held, Nothing, NULL

\* A free block is a block.
LEMMA NothingType == Nothing \in Held
BY DEF Nothing, Held

\* MakeBuffers hands out blocks that were not in use, a different one for each
\* name, or NULL.
LEMMA MakeBuffersEffect ==
    ASSUME TypeOK, NEW c \in Callers,
           NEW lens, DOMAIN lens \subseteq Names, lens \in [DOMAIN lens -> Nat],
           MakeBuffers(c, lens)
    PROVE  /\ heap' \in [Blocks -> Held]
           /\ buf' \in [Callers -> [Names -> [data : Blocks \cup {NULL}, len : Nat]]]
           /\ \A x \in DOMAIN lens : buf'[c][x].len = lens[x]
           /\ \A x \in Names \ DOMAIN lens : buf'[c][x] = buf[c][x]
           /\ \A d \in Callers : d # c => buf'[d] = buf[d]
           /\ \A x \in DOMAIN lens : buf'[c][x].data # NULL =>
                 /\ buf'[c][x].data \in Blocks /\ heap[buf'[c][x].data] = Free
                 /\ heap'[buf'[c][x].data] = Output(c, x, lens[x])
           /\ \A b \in Blocks : heap'[b] = heap[b] \/ \E x \in DOMAIN lens : buf'[c][x].data = b
<1>1. PICK data \in [DOMAIN lens -> {b \in Blocks : ~InUse(b)} \cup {NULL}] :
        /\ \A x, y \in DOMAIN lens : x # y /\ data[x] # NULL => data[x] # data[y]
        /\ buf' = [buf EXCEPT ![c] = [x \in Names |->
                      IF x \in DOMAIN lens THEN [data |-> data[x], len |-> lens[x]] ELSE @[x]]]
        /\ heap' = [b \in Blocks |->
                      IF \E x \in DOMAIN lens : data[x] = b
                      THEN LET x == CHOOSE y \in DOMAIN lens : data[y] = b
                           IN  Output(c, x, lens[x])
                      ELSE heap[b]]
  BY DEF MakeBuffers
<1>2. /\ \A x \in DOMAIN lens : data[x] # NULL => data[x] \in Blocks /\ heap[data[x]] = Free
      /\ \A x \in DOMAIN lens : data[x] \in Blocks \cup {NULL}
  BY <1>1 DEF InUse
<1>3. \A b \in Blocks : heap[b] \in Held
  BY DEF TypeOK
<1>4. buf \in [Callers -> [Names -> [data : Blocks \cup {NULL}, len : Nat]]]
  BY DEF TypeOK
<1>5. /\ \A x \in DOMAIN lens : buf'[c][x] = [data |-> data[x], len |-> lens[x]]
      /\ \A x \in Names \ DOMAIN lens : buf'[c][x] = buf[c][x]
      /\ \A d \in Callers : d # c => buf'[d] = buf[d]
  BY <1>1, <1>4
<1>6. buf' \in [Callers -> [Names -> [data : Blocks \cup {NULL}, len : Nat]]]
  <2>1. [x \in Names |-> IF x \in DOMAIN lens THEN [data |-> data[x], len |-> lens[x]] ELSE buf[c][x]]
            \in [Names -> [data : Blocks \cup {NULL}, len : Nat]]
    BY <1>2, <1>4
  <2> QED
    BY <1>1, <1>4, <2>1
<1>7. ASSUME NEW x \in DOMAIN lens, data[x] # NULL
      PROVE  heap'[data[x]] = Output(c, x, lens[x])
  <2>1. (CHOOSE y \in DOMAIN lens : data[y] = data[x]) = x
    BY <1>1, <1>7
  <2> QED
    BY <1>1, <1>2, <1>7, <2>1
<1>8. \A b \in Blocks : heap'[b] = heap[b] \/ \E x \in DOMAIN lens : data[x] = b
  BY <1>1
<1>9. heap' \in [Blocks -> Held]
  <2>1. ASSUME NEW b \in Blocks PROVE heap'[b] \in Held
    <3>1. CASE \E x \in DOMAIN lens : data[x] = b
      <4>1. PICK x \in DOMAIN lens : data[x] = b
        BY <3>1
      <4>2. b # NULL
        BY CApiAssumption
      <4>3. heap'[b] = Output(c, x, lens[x])
        BY <1>7, <4>1, <4>2
      <4> QED
        BY <4>3, OutputType
    <3>2. CASE ~\E x \in DOMAIN lens : data[x] = b
      BY <1>3, <1>8, <3>2
    <3> QED
      BY <3>1, <3>2
  <2>2. heap' = [b \in Blocks |-> heap'[b]]
    BY <1>1
  <2> QED
    BY <2>1, <2>2
<1>10. ASSUME NEW x \in DOMAIN lens
       PROVE  buf'[c][x].data = data[x] /\ buf'[c][x].len = lens[x]
  <2>1. buf'[c][x] = [data |-> data[x], len |-> lens[x]]
    BY <1>5
  <2> QED
    BY <2>1
<1>11. \A x \in DOMAIN lens : buf'[c][x].data # NULL =>
          /\ buf'[c][x].data \in Blocks /\ heap[buf'[c][x].data] = Free
          /\ heap'[buf'[c][x].data] = Output(c, x, lens[x])
  BY <1>2, <1>7, <1>10
<1>12. \A b \in Blocks : heap'[b] = heap[b] \/ \E x \in DOMAIN lens : buf'[c][x].data = b
  BY <1>8, <1>10
<1> QED
  BY <1>5, <1>6, <1>9, <1>10, <1>11, <1>12

\* airdrop_free_buffer empties one block, and notes whose it was.
LEMMA FreeEffect ==
    ASSUME TypeOK, NEW c \in Callers, NEW x \in Names, airdrop_free_buffer(c, x)
    PROVE  /\ heap' \in [Blocks -> Held]
           /\ \A b \in Blocks : heap'[b] = IF b = buf[c][x].data THEN Free ELSE heap[b]
           /\ buf[c][x].data = NULL => bad' = bad
           /\ bad' \in BOOLEAN
           /\ buf[c][x].data # NULL /\ heap[buf[c][x].data] = Output(c, x, buf[c][x].len) =>
                 bad' = bad
<1>1. buf[c][x].data \in Blocks \cup {NULL} /\ heap \in [Blocks -> Held] /\ bad \in BOOLEAN
  BY DEF TypeOK
<1>2. CASE buf[c][x].data = NULL
  BY <1>1, <1>2, CApiAssumption DEF airdrop_free_buffer
<1>3. CASE buf[c][x].data # NULL
  <2>1. /\ heap' = [heap EXCEPT ![buf[c][x].data] = Free]
        /\ bad' = (bad \/ heap[buf[c][x].data].owner # c \/ heap[buf[c][x].data].name # x)
    BY <1>3 DEF airdrop_free_buffer
  <2>2. heap' \in [Blocks -> Held]
    BY <1>1, <1>3, <2>1, NothingType DEF Free
  <2>3. bad' \in BOOLEAN
    BY <1>1, <2>1
  <2>4. heap[buf[c][x].data] = Output(c, x, buf[c][x].len) => bad' = bad
    <3> SUFFICES ASSUME heap[buf[c][x].data] = Output(c, x, buf[c][x].len) PROVE bad' = bad
      OBVIOUS
    <3>1. heap[buf[c][x].data].owner = c /\ heap[buf[c][x].data].name = x
      BY DEF Output
    <3> QED
      BY <1>1, <2>1, <3>1
  <2> QED
    BY <1>1, <1>3, <2>1, <2>2, <2>3, <2>4
<1> QED
  BY <1>2, <1>3

-----------------------------------------------------------------------------
(* Types.                                                                  *)

\* A report makes the list of its own self test longer by one.
LEMMA ReportType ==
    ASSUME TypeOK, NEW c \in Callers, NEW ok \in BOOLEAN, Report(c, ok)
    PROVE  /\ steps' \in [SwiftCallers -> Seq(BOOLEAN)]
           /\ \A d \in SwiftCallers : d # c => steps'[d] = steps[d]
           /\ c \in SwiftCallers =>
                 /\ Len(steps'[c]) = Len(steps[c]) + 1
                 /\ steps'[c][Len(steps[c]) + 1] = ok
                 /\ \A i \in 1 .. Len(steps[c]) : steps'[c][i] = steps[c][i]
<1>1. steps \in [SwiftCallers -> Seq(BOOLEAN)]
  BY DEF TypeOK
<1>2. CASE c \in SwiftCallers
  BY <1>1, <1>2 DEF Report
<1>3. CASE c \notin SwiftCallers
  BY <1>1, <1>3 DEF Report
<1> QED
  BY <1>2, <1>3

\* A step to q changes the position of its caller alone.
LEMMA GotoType ==
    ASSUME TypeOK, NEW c \in Callers, NEW q \in 0 .. End(c), Goto(c, q)
    PROVE  /\ pc' \in [Callers -> Nat] /\ \A d \in Callers : pc'[d] <= End(d)
           /\ pc'[c] = q
           /\ \A d \in Callers : d # c => pc'[d] = pc[d]
<1>1. pc \in [Callers -> Nat] /\ \A d \in Callers : pc[d] <= End(d)
  BY DEF TypeOK
<1>2. q \in Nat /\ q <= End(c)
  BY Where
<1> QED
  BY <1>1, <1>2 DEF Goto

\* The initial state is well typed.
LEMMA TypeInit == Init => TypeOK
<1> SUFFICES ASSUME Init PROVE TypeOK
  OBVIOUS
<1>1. heap \in [Blocks -> Held] /\ copy \in [Callers -> [Names -> Held]]
  BY NothingType DEF Init, Free
<1>2. pc \in [Callers -> Nat] /\ \A c \in Callers : pc[c] <= End(c)
  BY Where DEF Init, Stopped
<1>3. steps \in [SwiftCallers -> Seq(BOOLEAN)]
  BY DEF Init
<1>4. buf \in [Callers -> [Names -> [data : Blocks \cup {NULL}, len : Nat]]]
  BY DEF Init, NoBuffer
<1>5. round \in [Callers -> 0 .. MaxRounds] /\ len \in [Callers -> Nat]
  BY CApiAssumption DEF Init
<1>6. bad \in BOOLEAN
  BY DEF Init
<1> QED
  BY <1>1, <1>2, <1>3, <1>4, <1>5, <1>6 DEF TypeOK

\* The lengths of the three buffers of a chunk.
LEMMA EncryptLens ==
    ASSUME NEW n \in Nat
    PROVE  LET lens == [x \in Chunk |->
                  CASE x = "nonce" -> kGcmNonceSize [] x = "tag" -> kGcmTagSize [] OTHER -> n]
           IN  /\ DOMAIN lens = Chunk /\ lens \in [Chunk -> Nat]
               /\ lens["nonce"] = 12 /\ lens["tag"] = 16 /\ lens["ciphertext"] = n
BY DEF Chunk, kGcmNonceSize, kGcmTagSize

\* Every step keeps the types.
LEMMA TypeNext == TypeOK /\ [Next]_vars => TypeOK'
<1> SUFFICES ASSUME TypeOK, [Next]_vars PROVE TypeOK'
  OBVIOUS
<1> USE CApiAssumption
<1>1. CASE UNCHANGED vars
  BY <1>1 DEF vars, TypeOK, End, Program
<1>2. ASSUME NEW c \in Callers,
             airdrop_generate_keypair(c) \/ airdrop_derive_session_key(c)
      PROVE  TypeOK'
  <2>1. PICK op \in {"keypair", "derive"} : CallForBoth(c, op)
    BY <1>2 DEF airdrop_generate_keypair, airdrop_derive_session_key
  <2>2. PICK ok \in BOOLEAN :
            Report(c, ok) /\ Goto(c, IF ok THEN pc[c] + 1 ELSE End(c))
    BY <2>1 DEF CallForBoth
  <2>3. (IF ok THEN pc[c] + 1 ELSE End(c)) \in 0 .. End(c)
    BY <2>1, Where DEF CallForBoth
  <2> QED
    BY <2>1, <2>2, <2>3, ReportType, GotoType DEF CallForBoth, TypeOK, End, Program
<1>3. ASSUME NEW c \in Callers, Encrypt(c) PROVE TypeOK'
  <2>1. PICK n \in Nat :
            /\ len' = [len EXCEPT ![c] = n]
            /\ MakeBuffers(c, [x \in Chunk |->
                  CASE x = "nonce" -> kGcmNonceSize [] x = "tag" -> kGcmTagSize [] OTHER -> n])
    BY <1>3 DEF Encrypt, SelfTestLen
  <2>2. /\ heap' \in [Blocks -> Held]
        /\ buf' \in [Callers -> [Names -> [data : Blocks \cup {NULL}, len : Nat]]]
    BY <2>1, EncryptLens, MakeBuffersEffect DEF Names
  <2>3. Report(c, TRUE) /\ Goto(c, pc[c] + 1)
    BY <1>3 DEF Encrypt, Advance
  <2>5. pc[c] + 1 \in 0 .. End(c)
    BY <1>3, Where DEF Encrypt
  <2>4. UNCHANGED <<bad, round, copy>>
    BY <1>3 DEF Encrypt
  <2> QED
    BY <2>1, <2>2, <2>3, <2>4, <2>5, ReportType, GotoType DEF TypeOK, End, Program
<1>4. ASSUME NEW c \in Callers, EncryptFails(c) PROVE TypeOK'
  <2>1. Report(c, FALSE) /\ Goto(c, End(c))
    BY <1>4 DEF EncryptFails
  <2>2. End(c) \in 0 .. End(c)
    BY Where
  <2> QED
    BY <1>4, <2>1, <2>2, ReportType, GotoType DEF EncryptFails, TypeOK, End, Program
<1>5. ASSUME NEW c \in Callers,
             GoNil(c) \/ SwiftTrap(c) \/ GoPanic(c) \/ GoSends(c) \/ DecryptFails(c)
      PROVE  TypeOK'
  <2>1. PICK q \in 0 .. End(c) : Goto(c, q)
    <3>1. At(c, "copy") => pc[c] + 2 \in 0 .. End(c)
      BY Where DEF CopyAt
    <3>2. At(c, "decrypt") => pc[c] + 3 \in 0 .. End(c)
      BY Where
    <3>3. 0 \in 0 .. End(c) /\ End(c) \in 0 .. End(c)
      BY Where
    <3> QED
      BY <1>5, <3>1, <3>2, <3>3
      DEF GoNil, SwiftTrap, GoPanic, GoSends, DecryptFails, Advance, Stopped
  <2>2. UNCHANGED <<heap, bad, round, len, buf, copy, steps>>
    BY <1>5 DEF GoNil, SwiftTrap, GoPanic, GoSends, DecryptFails
  <2> QED
    BY <2>1, <2>2, GotoType DEF TypeOK, End, Program
<1>6. ASSUME NEW c \in Callers, Copy(c) PROVE TypeOK'
  <2>1. Name(c) \in Names /\ Goto(c, pc[c] + 1) /\ pc[c] + 1 \in 0 .. End(c)
    BY <1>6, Where DEF Copy, Advance, CopyAt
  <2>2. Buffer(c).data \in Blocks
    BY <1>6, <2>1 DEF Copy, Buffer, TypeOK
  <2>3. copy' \in [Callers -> [Names -> Held]]
    BY <1>6, <2>1, <2>2 DEF Copy, TypeOK
  <2> QED
    BY <1>6, <2>1, <2>3, GotoType DEF Copy, TypeOK, End, Program
<1>7. ASSUME NEW c \in Callers, FreeBuffer(c) PROVE TypeOK'
  <2>1. Name(c) \in Names /\ Goto(c, pc[c] + 1) /\ pc[c] + 1 \in 0 .. End(c)
    BY <1>7, Where DEF FreeBuffer, Advance, FreeAt
  <2>2. heap' \in [Blocks -> Held] /\ bad' \in BOOLEAN
    BY <1>7, <2>1, FreeEffect DEF FreeBuffer
  <2> QED
    BY <1>7, <2>1, <2>2, GotoType DEF FreeBuffer, TypeOK, End, Program
<1>8. ASSUME NEW c \in Callers, Decrypt(c) PROVE TypeOK'
  <2>1. copy[c]["ciphertext"].len \in Nat
    BY NamesAre DEF TypeOK, Held
  <2> DEFINE lens == [x \in {"plaintext"} |-> copy[c]["ciphertext"].len]
  <2>2. /\ MakeBuffers(c, lens) /\ DOMAIN lens \subseteq Names /\ lens \in [DOMAIN lens -> Nat]
    BY <1>8, <2>1, NamesAre DEF Decrypt
  <2> HIDE DEF lens
  <2>3. /\ heap' \in [Blocks -> Held]
        /\ buf' \in [Callers -> [Names -> [data : Blocks \cup {NULL}, len : Nat]]]
    BY <2>2, MakeBuffersEffect
  <2>4. Goto(c, pc[c] + 1) /\ pc[c] + 1 \in 0 .. End(c)
    BY <1>8, Where DEF Decrypt, Advance
  <2> QED
    BY <1>8, <2>3, <2>4, GotoType DEF Decrypt, TypeOK, End, Program
<1>9. ASSUME NEW c \in Callers, Compare(c) \/ Tamper(c) PROVE TypeOK'
  <2>1. PICK ok \in BOOLEAN : Report(c, ok)
    BY <1>9 DEF Compare, Tamper
  <2>2. Goto(c, pc[c] + 1)
    BY <1>9 DEF Compare, Tamper, Advance
  <2>3. pc[c] + 1 \in 0 .. End(c)
    <3>1. At(c, "compare") \/ At(c, "tamper")
      BY <1>9 DEF Compare, Tamper
    <3> QED
      BY <3>1, Where
  <2> QED
    BY <1>9, <2>1, <2>2, <2>3, ReportType, GotoType DEF Compare, Tamper, TypeOK, End, Program
<1>10. ASSUME NEW c \in Callers, Return(c) PROVE TypeOK'
  <2>1. Goto(c, 1) /\ 1 \in 0 .. End(c)
    BY <1>10, Where DEF Return
  <2>2. round' \in [Callers -> 0 .. MaxRounds]
    BY <1>10 DEF Return, TypeOK
  <2>3. buf' \in [Callers -> [Names -> [data : Blocks \cup {NULL}, len : Nat]]]
    BY <1>10 DEF Return, TypeOK, NoBuffer
  <2>4. copy' \in [Callers -> [Names -> Held]]
    BY <1>10, NothingType DEF Return, TypeOK
  <2>5. steps' \in [SwiftCallers -> Seq(BOOLEAN)]
    <3>1. \A d \in SwiftCallers : (IF d = c THEN <<>> ELSE steps[d]) \in Seq(BOOLEAN)
      <4>1. <<>> \in Seq(BOOLEAN) /\ steps \in [SwiftCallers -> Seq(BOOLEAN)]
        BY DEF TypeOK
      <4> QED
        BY <4>1
    <3> QED
      BY <1>10, <3>1 DEF Return
  <2> QED
    BY <1>10, <2>1, <2>2, <2>3, <2>4, <2>5, GotoType DEF Return, TypeOK, End, Program
<1> QED
  BY <1>1, <1>2, <1>3, <1>4, <1>5, <1>6, <1>7, <1>8, <1>9, <1>10 DEF Next

-----------------------------------------------------------------------------
(* Blocks and bytes.                                                       *)

MemInv == NoBadFree /\ OwnBytes /\ HeldInv /\ OrphanInv /\ NotYetCopied

\* A buffer is between its making and its freeing at step q.
Between(c, x, q) == MadeAt(x) < q /\ q <= FreeAt(c, x)

\* A step that only moves its caller on to q.
LEMMA MemoryKept ==
    ASSUME TypeOK, MemInv, NEW c \in Callers, NEW q \in 0 .. End(c), Goto(c, q),
           pc[c] # Stopped,
           UNCHANGED <<heap, bad, round, len, buf, copy>>,
           \A x \in Names : Between(c, x, q) => Between(c, x, pc[c]),
           \A x \in Names : Between(c, x, pc[c]) =>
              \/ Between(c, x, q)
              \/ buf[c][x].data = NULL
              \/ c \in GoCallers /\ buf[c][x].len = 0
              \/ c \in SwiftCallers /\ q = Stopped,
           \A x \in Names : q \in 1 .. MadeAt(x) => pc[c] \in 1 .. MadeAt(x)
    PROVE  MemInv'
<1>1. pc'[c] = q /\ \A d \in Callers : d # c => pc'[d] = pc[d]
  BY GotoType
<1>2. NoBadFree' /\ OwnBytes'
  BY DEF MemInv, NoBadFree, OwnBytes, Output
<1>3. HeldInv'
  BY <1>1 DEF MemInv, HeldInv, Holds, Between, Output
<1>4. OrphanInv'
  <2> SUFFICES ASSUME NEW d \in Callers, NEW b \in Blocks, heap[b].owner = d
               PROVE  \/ \E x \in Names : Holds(d, x)' /\ buf[d][x].data = b
                      \/ d \in GoCallers /\ heap[b].len = 0
                      \/ d \in SwiftCallers /\ pc'[d] = Stopped
    BY DEF OrphanInv
  <2>1. CASE d # c
    BY <1>1, <2>1 DEF MemInv, OrphanInv, Holds
  <2>2. CASE d = c /\ d \in SwiftCallers /\ pc[d] = Stopped
    BY <2>2
  <2>3. CASE d = c /\ d \in GoCallers /\ heap[b].len = 0
    BY <2>3
  <2>4. CASE d = c /\ \E x \in Names : Holds(d, x) /\ buf[d][x].data = b
    <3>1. PICK x \in Names : Holds(c, x) /\ buf[c][x].data = b
      BY <2>4
    <3>2. heap[b].len = buf[c][x].len /\ Between(c, x, pc[c]) /\ buf[c][x].data # NULL
      <4>1. heap[b] = Output(c, x, buf[c][x].len)
        BY <3>1 DEF MemInv, HeldInv
      <4>2. Output(c, x, buf[c][x].len).len = buf[c][x].len
        BY DEF Output
      <4> QED
        BY <3>1, <4>1, <4>2 DEF Holds, Between
    <3> QED
      BY <1>1, <2>4, <3>1, <3>2 DEF Holds, Between
  <2> QED
    BY <2>1, <2>2, <2>3, <2>4 DEF MemInv, OrphanInv
<1>5. NotYetCopied'
  BY <1>1 DEF MemInv, NotYetCopied
<1> QED
  BY <1>2, <1>3, <1>4, <1>5 DEF MemInv

\* A step that hands out the buffers of lens.
LEMMA MemoryMade ==
    ASSUME TypeOK, MemInv, NEW c \in Callers,
           NEW lens, DOMAIN lens \subseteq Names, lens \in [DOMAIN lens -> Nat],
           MakeBuffers(c, lens), Goto(c, pc[c] + 1), pc[c] \in {3, 10},
           UNCHANGED <<bad, round, copy>>,
           \A x \in Names : x \in DOMAIN lens <=> MadeAt(x) = pc[c]
    PROVE  MemInv'
<1>1. pc'[c] = pc[c] + 1 /\ \A d \in Callers : d # c => pc'[d] = pc[d]
  BY GotoType, Where
<1>2. /\ \A x \in DOMAIN lens : buf'[c][x].len = lens[x]
      /\ \A x \in Names \ DOMAIN lens : buf'[c][x] = buf[c][x]
      /\ \A d \in Callers : d # c => buf'[d] = buf[d]
      /\ \A x \in DOMAIN lens : buf'[c][x].data # NULL =>
            /\ buf'[c][x].data \in Blocks /\ heap[buf'[c][x].data] = Free
            /\ heap'[buf'[c][x].data] = Output(c, x, lens[x])
      /\ \A b \in Blocks : heap'[b] = heap[b] \/ \E x \in DOMAIN lens : buf'[c][x].data = b
  BY MakeBuffersEffect
<1>3. \A x \in Names : ~Holds(c, x) /\ (Holds(c, x)' => x \in DOMAIN lens)
  BY <1>1, NamesAre DEF Holds, MadeAt, FreeAt
<1>4. \A x \in DOMAIN lens : Holds(c, x)' \/ buf'[c][x].data = NULL
  BY <1>1, NamesAre DEF Holds, MadeAt, FreeAt
<1>5. NoBadFree'
  BY DEF MemInv, NoBadFree
<1>6. OwnBytes'
  <2> SUFFICES ASSUME NEW d \in Callers, NEW x \in Names, copy[d][x] # Nothing
               PROVE  copy[d][x] = Output(d, x, buf'[d][x].len)
    BY DEF OwnBytes, Output
  <2>1. d = c => x \notin DOMAIN lens
    BY DEF MemInv, NotYetCopied
  <2>2. buf'[d][x] = buf[d][x]
    BY <1>2, <2>1
  <2> QED
    BY <2>2 DEF MemInv, OwnBytes
<1>7. HeldInv'
  <2> SUFFICES ASSUME NEW d \in Callers, NEW x \in Names, Holds(d, x)'
               PROVE  heap'[buf'[d][x].data] = Output(d, x, buf'[d][x].len)
    BY DEF HeldInv, Output
  <2>1. CASE d = c
    BY <1>2, <1>3, <2>1 DEF Holds
  <2>2. CASE d # c
    <3>1. Holds(d, x) /\ buf'[d][x] = buf[d][x]
      BY <1>1, <1>2, <2>2 DEF Holds
    <3>2. heap[buf[d][x].data] = Output(d, x, buf[d][x].len) /\ buf[d][x].data \in Blocks
      BY <3>1 DEF MemInv, HeldInv, Holds, TypeOK
    <3>3. heap[buf[d][x].data] # Free
      BY <3>2, OutputType DEF TypeOK, Free
    <3> QED
      BY <1>2, <3>1, <3>2, <3>3, CApiAssumption
  <2> QED
    BY <2>1, <2>2
<1>8. OrphanInv'
  <2> SUFFICES ASSUME NEW d \in Callers, NEW b \in Blocks, heap'[b].owner = d
               PROVE  \/ \E x \in Names : Holds(d, x)' /\ buf'[d][x].data = b
                      \/ d \in GoCallers /\ heap'[b].len = 0
                      \/ d \in SwiftCallers /\ pc'[d] = Stopped
    BY DEF OrphanInv
  <2>1. CASE \E x \in DOMAIN lens : buf'[c][x].data = b
    <3>1. PICK x \in DOMAIN lens : buf'[c][x].data = b
      BY <2>1
    <3>2. b # NULL
      BY CApiAssumption
    <3>3. heap'[b] = Output(c, x, lens[x]) /\ Holds(c, x)'
      BY <1>2, <1>4, <3>1, <3>2
    <3>4. d = c
      BY <3>3 DEF Output
    <3> QED
      BY <3>1, <3>3, <3>4
  <2>2. CASE heap'[b] = heap[b]
    <3>1. CASE d = c
      BY <1>3, <2>2, <3>1 DEF MemInv, OrphanInv, Stopped
    <3>2. CASE d # c
      BY <1>1, <1>2, <2>2, <3>2 DEF MemInv, OrphanInv, Holds
    <3> QED
      BY <3>1, <3>2
  <2> QED
    BY <1>2, <2>1, <2>2
<1>9. NotYetCopied'
  <2>1. \A x \in Names : pc[c] + 1 \in 1 .. MadeAt(x) => pc[c] \in 1 .. MadeAt(x)
    BY DEF MadeAt
  <2> QED
    BY <1>1, <2>1 DEF MemInv, NotYetCopied
<1> QED
  BY <1>5, <1>6, <1>7, <1>8, <1>9 DEF MemInv

\* A free keeps the invariant of the memory.
LEMMA MemoryFreed == ASSUME TypeOK, MemInv, NEW c \in Callers, FreeBuffer(c) PROVE MemInv'
<1> DEFINE x == Name(c)
<1>1. x \in Names /\ pc[c] = FreeAt(c, x)
  BY Where DEF FreeBuffer
<1>2. Goto(c, pc[c] + 1) /\ pc[c] + 1 \in 0 .. End(c)
  BY <1>1, Where DEF FreeBuffer, Advance, FreeAt
<1>3. pc'[c] = pc[c] + 1 /\ \A d \in Callers : d # c => pc'[d] = pc[d]
  BY <1>2, GotoType
<1>4. /\ \A b \in Blocks : heap'[b] = IF b = buf[c][x].data THEN Free ELSE heap[b]
      /\ buf[c][x].data = NULL => bad' = bad
      /\ buf[c][x].data # NULL /\ heap[buf[c][x].data] = Output(c, x, buf[c][x].len) =>
            bad' = bad
  BY <1>1, FreeEffect DEF FreeBuffer
<1>5. UNCHANGED <<round, len, buf, copy, steps>>
  BY DEF FreeBuffer
<1> HIDE DEF x
<1>6. buf[c][x].data # NULL => Holds(c, x)
  BY <1>1 DEF Holds, MadeAt, FreeAt
<1>7. \A d \in Callers, y \in Names : Holds(d, y)' => Holds(d, y) /\ (d # c \/ y # x)
  BY <1>1, <1>3, <1>5, NamesAre DEF Holds, MadeAt, FreeAt
<1>8. \A y \in Names : Holds(c, y) => Holds(c, y)' \/ y = x
  BY <1>1, <1>3, <1>5, NamesAre DEF Holds, MadeAt, FreeAt
<1>9. NoBadFree'
  BY <1>1, <1>4, <1>6 DEF MemInv, NoBadFree, HeldInv
<1>10. OwnBytes'
  BY <1>5 DEF MemInv, OwnBytes, Output
<1>11. HeldInv'
  <2> SUFFICES ASSUME NEW d \in Callers, NEW y \in Names, Holds(d, y)'
               PROVE  heap'[buf[d][y].data] = Output(d, y, buf[d][y].len)
    BY <1>5 DEF HeldInv, Output
  <2>1. /\ heap[buf[d][y].data] = Output(d, y, buf[d][y].len)
        /\ buf[d][y].data \in Blocks
    BY <1>7 DEF MemInv, HeldInv, Holds, TypeOK
  <2>2. buf[c][x].data # buf[d][y].data
    <3> SUFFICES ASSUME buf[c][x].data = buf[d][y].data PROVE FALSE
      OBVIOUS
    <3>1. Holds(c, x)
      BY <1>6, <2>1, CApiAssumption
    <3>2. Output(c, x, buf[c][x].len) = Output(d, y, buf[d][y].len)
      BY <1>1, <2>1, <3>1 DEF MemInv, HeldInv
    <3>3. c = d /\ x = y
      BY <3>2 DEF Output
    <3> QED
      BY <1>7, <3>3
  <2> QED
    BY <1>4, <2>1, <2>2
<1>12. OrphanInv'
  <2> SUFFICES ASSUME NEW d \in Callers, NEW b \in Blocks, heap'[b].owner = d
               PROVE  \/ \E y \in Names : Holds(d, y)' /\ buf[d][y].data = b
                      \/ d \in GoCallers /\ heap'[b].len = 0
                      \/ d \in SwiftCallers /\ pc'[d] = Stopped
    BY <1>5 DEF OrphanInv
  <2>1. Free.owner = NULL
    BY DEF Free, Nothing
  <2>2. b # buf[c][x].data /\ heap'[b] = heap[b]
    BY <1>4, <2>1, CApiAssumption
  <2>3. CASE \E y \in Names : Holds(d, y) /\ buf[d][y].data = b
    BY <1>3, <1>5, <1>8, <2>2, <2>3 DEF Holds
  <2>4. CASE d \in GoCallers /\ heap[b].len = 0
    BY <2>2, <2>4
  <2>5. CASE d \in SwiftCallers /\ pc[d] = Stopped
    <3>1. pc[c] # Stopped
      BY <1>1 DEF FreeAt, Stopped
    <3> QED
      BY <1>3, <2>5, <3>1
  <2> QED
    BY <2>2, <2>3, <2>4, <2>5 DEF MemInv, OrphanInv
<1>13. NotYetCopied'
  <2>1. \A y \in Names : pc[c] + 1 \in 1 .. MadeAt(y) => pc[c] \in 1 .. MadeAt(y)
    BY <1>1 DEF MadeAt, FreeAt
  <2> QED
    BY <1>3, <1>5, <2>1 DEF MemInv, NotYetCopied
<1> QED
  BY <1>9, <1>10, <1>11, <1>12, <1>13 DEF MemInv

\* A copy keeps it.
LEMMA MemoryCopied == ASSUME TypeOK, MemInv, NEW c \in Callers, Copy(c) PROVE MemInv'
<1> DEFINE x == Name(c)
<1>1. x \in Names /\ pc[c] = CopyAt(c, x) /\ buf[c][x].data # NULL
  BY Where DEF Copy, Buffer
<1>2. Goto(c, pc[c] + 1) /\ pc[c] + 1 \in 0 .. End(c)
  BY <1>1, Where DEF Copy, Advance, CopyAt
<1>3. pc'[c] = pc[c] + 1 /\ \A d \in Callers : d # c => pc'[d] = pc[d]
  BY <1>2, GotoType
<1>4. /\ copy' = [copy EXCEPT ![c][x] = heap[buf[c][x].data]]
      /\ UNCHANGED <<heap, bad, round, len, buf, steps>>
  BY DEF Copy, Buffer
<1> HIDE DEF x
<1>5. \A d \in Callers, y \in Names : Holds(d, y)' <=> Holds(d, y)
  BY <1>1, <1>3, <1>4, NamesAre DEF Holds, MadeAt, FreeAt, CopyAt
<1>6. copy'[c][x] = Output(c, x, buf[c][x].len)
  <2>1. Holds(c, x)
    BY <1>1, NamesAre DEF Holds, MadeAt, CopyAt, FreeAt
  <2>2. heap[buf[c][x].data] = Output(c, x, buf[c][x].len)
    BY <1>1, <2>1 DEF MemInv, HeldInv
  <2> QED
    BY <1>1, <1>4, <2>2 DEF TypeOK
<1>7. \A d \in Callers, y \in Names : d # c \/ y # x => copy'[d][y] = copy[d][y]
  BY <1>1, <1>4 DEF TypeOK
<1>8. NoBadFree'
  BY <1>4 DEF MemInv, NoBadFree
<1>9. OwnBytes'
  BY <1>1, <1>4, <1>6, <1>7 DEF MemInv, OwnBytes, Output
<1>10. HeldInv'
  BY <1>4, <1>5 DEF MemInv, HeldInv, Output
<1>11. OrphanInv'
  <2>1. \A d \in Callers : pc[d] = Stopped => pc'[d] = Stopped
    BY <1>1, <1>3 DEF CopyAt, Stopped
  <2> QED
    BY <1>4, <1>5, <2>1 DEF MemInv, OrphanInv
<1>12. NotYetCopied'
  <2>1. \A y \in Names : pc[c] + 1 \in 1 .. MadeAt(y) => y # x /\ pc[c] \in 1 .. MadeAt(y)
    BY <1>1, NamesAre DEF MadeAt, CopyAt
  <2> QED
    BY <1>3, <1>7, <2>1 DEF MemInv, NotYetCopied
<1> QED
  BY <1>8, <1>9, <1>10, <1>11, <1>12 DEF MemInv

\* So does a return, which forgets the local variables.
LEMMA MemoryReturned == ASSUME TypeOK, MemInv, NEW c \in Callers, Return(c) PROVE MemInv'
<1>1. pc[c] = End(c) /\ Goto(c, 1) /\ 1 \in 0 .. End(c)
  BY Where DEF Return
<1>2. pc'[c] = 1 /\ \A d \in Callers : d # c => pc'[d] = pc[d]
  BY <1>1, GotoType
<1>3. /\ \A d \in Callers : d # c =>
            buf'[d] = buf[d] /\ copy'[d] = copy[d] /\ round'[d] = round[d]
      /\ \A x \in Names : copy'[c][x] = Nothing
      /\ UNCHANGED <<heap, bad, len>>
  BY DEF Return, TypeOK
<1>4. \A x \in Names : ~Holds(c, x) /\ ~Holds(c, x)'
  BY <1>1, <1>2, Where DEF Holds, MadeAt, FreeAt
<1>5. \A d \in Callers, x \in Names : d # c => (Holds(d, x)' <=> Holds(d, x))
  BY <1>2, <1>3 DEF Holds
<1>6. NoBadFree'
  BY <1>3 DEF MemInv, NoBadFree
<1>7. OwnBytes'
  BY <1>3 DEF MemInv, OwnBytes, Output
<1>8. HeldInv'
  BY <1>3, <1>4, <1>5 DEF MemInv, HeldInv, Output
<1>9. OrphanInv'
  <2> SUFFICES ASSUME NEW d \in Callers, NEW b \in Blocks, heap[b].owner = d
               PROVE  \/ \E x \in Names : Holds(d, x)' /\ buf'[d][x].data = b
                      \/ d \in GoCallers /\ heap[b].len = 0
                      \/ d \in SwiftCallers /\ pc'[d] = Stopped
    BY <1>3 DEF OrphanInv
  <2>1. pc[c] # Stopped
    BY <1>1, Where DEF Stopped
  <2>2. CASE d = c
    BY <1>4, <2>1, <2>2 DEF MemInv, OrphanInv
  <2>3. CASE d # c
    BY <1>2, <1>3, <1>5, <2>3 DEF MemInv, OrphanInv
  <2> QED
    BY <2>2, <2>3
<1>10. NotYetCopied'
  BY <1>2, <1>3 DEF MemInv, NotYetCopied
<1> QED
  BY <1>6, <1>7, <1>8, <1>9, <1>10 DEF MemInv

\* What a call leaves alone as long as it hands out no buffer.
Memory == <<heap, bad, round, len, buf, copy>>

\* Every step keeps the invariant of the memory.
LEMMA MemNext == TypeOK /\ MemInv /\ [Next]_vars => MemInv'
<1> SUFFICES ASSUME TypeOK, MemInv, [Next]_vars PROVE MemInv'
  OBVIOUS
<1>1. CASE UNCHANGED vars
  BY <1>1 DEF vars, MemInv, NoBadFree, OwnBytes, HeldInv, OrphanInv, NotYetCopied, Holds, Output
<1>2. ASSUME NEW c \in Callers, NEW q \in {pc[c] + 1, End(c)}, pc[c] \in {1, 2, 3, 13, 14},
             pc[c] \in {13, 14} => q = pc[c] + 1,
             pc[c] = 3 => q = End(c),
             Goto(c, q), pc[c] < End(c), UNCHANGED Memory
      PROVE  MemInv'
  <2>1. q \in 0 .. End(c) /\ pc[c] # Stopped
    BY <1>2, Where DEF Stopped
  <2>2. \A x \in Names : ~Between(c, x, q) /\ ~Between(c, x, pc[c])
    BY <1>2, Where, NamesAre DEF Between, MadeAt, FreeAt
  <2>3. \A x \in Names : q \in 1 .. MadeAt(x) => pc[c] \in 1 .. MadeAt(x)
    BY <1>2, Where DEF MadeAt
  <2> QED
    BY <1>2, <2>1, <2>2, <2>3, MemoryKept DEF Memory
<1>3. ASSUME NEW c \in Callers,
             airdrop_generate_keypair(c) \/ airdrop_derive_session_key(c)
      PROVE  MemInv'
  <2>1. PICK op \in {"keypair", "derive"} : CallForBoth(c, op)
    BY <1>3 DEF airdrop_generate_keypair, airdrop_derive_session_key
  <2>2. PICK ok \in BOOLEAN : Goto(c, IF ok THEN pc[c] + 1 ELSE End(c))
    BY <2>1 DEF CallForBoth
  <2>3. pc[c] \in {1, 2} /\ pc[c] < End(c)
    BY <2>1, Where DEF CallForBoth
  <2>4. UNCHANGED Memory
    BY <2>1 DEF CallForBoth, Memory
  <2> QED
    BY <1>2, <2>2, <2>3, <2>4
<1>4. ASSUME NEW c \in Callers, Encrypt(c) PROVE MemInv'
  <2>1. PICK n \in Nat :
            MakeBuffers(c, [x \in Chunk |->
                CASE x = "nonce" -> kGcmNonceSize [] x = "tag" -> kGcmTagSize [] OTHER -> n])
    BY <1>4, CApiAssumption DEF Encrypt, SelfTestLen
  <2>2. Goto(c, pc[c] + 1) /\ pc[c] = 3 /\ UNCHANGED <<bad, round, copy>>
    BY <1>4, Where DEF Encrypt, Advance
  <2>3. \A x \in Names : x \in Chunk <=> MadeAt(x) = pc[c]
    BY <2>2 DEF Names, Chunk, MadeAt
  <2>4. Chunk \subseteq Names
    BY DEF Names
  <2> QED
    BY <2>1, <2>2, <2>3, <2>4, EncryptLens, MemoryMade
<1>5. ASSUME NEW c \in Callers, EncryptFails(c) PROVE MemInv'
  <2>1. pc[c] = 3 /\ pc[c] < End(c)
    BY <1>5, Where DEF EncryptFails
  <2>2. Goto(c, End(c)) /\ UNCHANGED Memory
    BY <1>5 DEF EncryptFails, Memory
  <2> QED
    BY <1>2, <2>1, <2>2
<1>6. ASSUME NEW c \in Callers, GoNil(c) PROVE MemInv'
  <2> DEFINE x == Name(c)
  <2>1. /\ c \in GoCallers /\ x \in Names /\ pc[c] = CopyAt(c, x)
        /\ buf[c][x].data = NULL \/ buf[c][x].len = 0
    BY <1>6, Where DEF GoNil, Buffer
  <2>2. Goto(c, pc[c] + 2) /\ UNCHANGED Memory
    BY <1>6 DEF GoNil, Advance, Memory
  <2> HIDE DEF x
  <2>3. pc[c] + 2 \in 0 .. End(c) /\ pc[c] # Stopped
    BY <2>1, Where DEF CopyAt, Stopped
  <2>4. \A y \in Names : Between(c, y, pc[c] + 2) => Between(c, y, pc[c])
    BY <2>1, NamesAre DEF Between, MadeAt, FreeAt, CopyAt
  <2>5. \A y \in Names : Between(c, y, pc[c]) => Between(c, y, pc[c] + 2) \/ y = x
    BY <2>1, NamesAre DEF Between, MadeAt, FreeAt, CopyAt
  <2>6. \A y \in Names : pc[c] + 2 \in 1 .. MadeAt(y) => pc[c] \in 1 .. MadeAt(y)
    BY <2>1 DEF MadeAt, CopyAt
  <2> QED
    BY <2>1, <2>2, <2>3, <2>4, <2>5, <2>6, MemoryKept DEF Memory
<1>7. ASSUME NEW c \in Callers, SwiftTrap(c) PROVE MemInv'
  <2>1. c \in SwiftCallers /\ Name(c) \in Names /\ pc[c] = CopyAt(c, Name(c))
    BY <1>7, Where DEF SwiftTrap
  <2>2. Goto(c, Stopped) /\ UNCHANGED Memory
    BY <1>7 DEF SwiftTrap, Memory
  <2>3. Stopped \in 0 .. End(c) /\ pc[c] # Stopped
    BY <2>1, Where DEF CopyAt, Stopped
  <2>4. \A y \in Names : ~Between(c, y, Stopped) /\ Stopped \notin 1 .. MadeAt(y)
    BY DEF Between, MadeAt, Stopped
  <2> QED
    BY <2>1, <2>2, <2>3, <2>4, MemoryKept DEF Memory
<1>8. ASSUME NEW c \in Callers, GoPanic(c) \/ GoSends(c) \/ DecryptFails(c) PROVE MemInv'
  <2>1. pc[c] = 10
    BY <1>8, Where DEF GoPanic, GoSends, DecryptFails
  <2>2. UNCHANGED Memory
    BY <1>8 DEF GoPanic, GoSends, DecryptFails, Memory
  <2>3. PICK q \in {Stopped, End(c), pc[c] + 3} : Goto(c, q)
    BY <1>8 DEF GoPanic, GoSends, DecryptFails
  <2>4. q \in 0 .. End(c) /\ pc[c] # Stopped
    BY <2>1, Where DEF Stopped
  <2>5. \A y \in Names : /\ ~Between(c, y, q) /\ ~Between(c, y, pc[c])
                         /\ q \notin 1 .. MadeAt(y)
    BY <2>1, Where, NamesAre DEF Between, MadeAt, FreeAt, Stopped
  <2> QED
    BY <2>2, <2>3, <2>4, <2>5, MemoryKept DEF Memory
<1>9. ASSUME NEW c \in Callers, Decrypt(c) PROVE MemInv'
  <2>1. copy[c]["ciphertext"].len \in Nat
    BY NamesAre DEF TypeOK, Held
  <2> DEFINE lens == [x \in {"plaintext"} |-> copy[c]["ciphertext"].len]
  <2>2. /\ MakeBuffers(c, lens) /\ DOMAIN lens \subseteq Names /\ lens \in [DOMAIN lens -> Nat]
    BY <1>9, <2>1, NamesAre DEF Decrypt
  <2>3. Goto(c, pc[c] + 1) /\ pc[c] = 10 /\ UNCHANGED <<bad, round, copy>>
    BY <1>9, Where DEF Decrypt, Advance
  <2>4. \A x \in Names : x \in DOMAIN lens <=> MadeAt(x) = pc[c]
    BY <2>3 DEF MadeAt
  <2> HIDE DEF lens
  <2> QED
    BY <2>2, <2>3, <2>4, MemoryMade
<1>10. ASSUME NEW c \in Callers, Compare(c) \/ Tamper(c) PROVE MemInv'
  <2>1. At(c, "compare") \/ At(c, "tamper")
    BY <1>10 DEF Compare, Tamper
  <2>2. pc[c] \in {13, 14} /\ pc[c] < End(c)
    BY <2>1, Where
  <2>3. Goto(c, pc[c] + 1) /\ UNCHANGED Memory
    BY <1>10 DEF Compare, Tamper, Advance, Memory
  <2> QED
    BY <1>2, <2>2, <2>3
<1> QED
  BY <1>1, <1>3, <1>4, <1>5, <1>6, <1>7, <1>8, <1>9, <1>10,
     MemoryFreed, MemoryCopied, MemoryReturned DEF Next

\* It holds initially.
LEMMA MemInit == Init => MemInv
<1> SUFFICES ASSUME Init PROVE MemInv
  OBVIOUS
<1>1. \A c \in Callers, x \in Names : ~Holds(c, x) /\ copy[c][x] = Nothing
  BY DEF Init, Holds, MadeAt, Stopped
<1>2. \A c \in Callers, b \in Blocks : heap[b].owner # c
  BY CApiAssumption DEF Init, Free, Nothing
<1> QED
  BY <1>1, <1>2 DEF Init, MemInv, NoBadFree, OwnBytes, HeldInv, OrphanInv, NotYetCopied

\* It is an invariant.
LEMMA MemInvariance == Spec => [](TypeOK /\ MemInv)
<1>1. Init => TypeOK /\ MemInv
  BY TypeInit, MemInit
<1>2. TypeOK /\ MemInv /\ [Next]_vars => (TypeOK /\ MemInv)'
  BY TypeNext, MemNext
<1> QED
  BY <1>1, <1>2, PTL DEF Spec

-----------------------------------------------------------------------------
(* What follows for frees, copies and leaks.                               *)

\* No block is freed twice, and none that somebody else has got.
THEOREM NoBlockFreedTwice == Spec => []NoBadFree
<1>1. MemInv => NoBadFree
  BY DEF MemInv
<1> QED
  BY <1>1, MemInvariance, PTL

\* The state of every caller keeps its type, and none runs past its program.
THEOREM ProgramsKept == Spec => []TypeOK
BY MemInvariance, PTL

\* A caller's copies are the bytes the core made for it.
THEOREM BytesAreOwn == Spec => []OwnBytes
<1>1. MemInv => OwnBytes
  BY DEF MemInv
<1> QED
  BY <1>1, MemInvariance, PTL

\* A goroutine that is through has given back every block that holds bytes.
THEOREM BytesAreReleased == Spec => []NonEmptyReleased
<1>1. ASSUME TypeOK, MemInv PROVE NonEmptyReleased
  <2> SUFFICES ASSUME NEW c \in GoCallers, pc[c] \in {1, Stopped, End(c)},
                      NEW b \in Blocks, heap[b].owner = c
               PROVE  heap[b].len = 0
    BY DEF NonEmptyReleased
  <2>1. c \in Callers /\ c \notin SwiftCallers
    BY CApiAssumption DEF Callers
  <2>2. \A x \in Names : ~Holds(c, x)
    BY <2>1, Where, NamesAre DEF Holds, MadeAt, FreeAt, Stopped
  <2> QED
    BY <1>1, <2>1, <2>2 DEF MemInv, OrphanInv
<1> QED
  BY <1>1, MemInvariance, PTL

\* A self test that has come to its end has given back every block.
THEOREM SelfTestGivesBack == Spec => []SelfTestReleases
<1>1. ASSUME TypeOK, MemInv PROVE SelfTestReleases
  <2> SUFFICES ASSUME NEW c \in SwiftCallers, pc[c] = End(c),
                      NEW b \in Blocks, heap[b].owner = c
               PROVE  FALSE
    BY DEF SelfTestReleases
  <2>1. c \in Callers /\ c \notin GoCallers
    BY CApiAssumption DEF Callers
  <2>2. pc[c] # Stopped /\ \A x \in Names : ~Holds(c, x)
    BY <2>1, Where, NamesAre DEF Holds, MadeAt, FreeAt, Stopped
  <2> QED
    BY <1>1, <2>1, <2>2 DEF MemInv, OrphanInv
<1> QED
  BY <1>1, MemInvariance, PTL

\* The hypothesis of the next theorem: no goroutine encrypts an empty chunk
\* (SendFileChunks has none, chunking.cpp:33; the bridge does not ask).
NoEmptyChunk == 0 \notin ChunkLens

\* Then no block and no copy is of length zero.
LensInv ==
    /\ \A b \in Blocks : heap[b] # Nothing => heap[b].len > 0
    /\ \A c \in Callers, x \in Names : copy[c][x] # Nothing => copy[c][x].len > 0

\* What is made has a length above zero if all that was asked for has.
LEMMA MadeLens ==
    ASSUME TypeOK, LensInv, NEW c \in Callers,
           NEW lens, DOMAIN lens \subseteq Names, lens \in [DOMAIN lens -> Nat],
           \A x \in DOMAIN lens : lens[x] > 0,
           MakeBuffers(c, lens), UNCHANGED copy
    PROVE  LensInv'
<1>1. /\ \A x \in DOMAIN lens : buf'[c][x].data # NULL =>
            heap'[buf'[c][x].data] = Output(c, x, lens[x])
      /\ \A b \in Blocks : heap'[b] = heap[b] \/ \E x \in DOMAIN lens : buf'[c][x].data = b
  BY MakeBuffersEffect
<1>2. ASSUME NEW b \in Blocks, heap'[b] # Nothing PROVE heap'[b].len > 0
  <2>1. CASE heap'[b] = heap[b]
    BY <1>2, <2>1 DEF LensInv
  <2>2. ASSUME NEW x \in DOMAIN lens, buf'[c][x].data = b  PROVE heap'[b].len > 0
    <3>1. heap'[b] = Output(c, x, lens[x])
      BY <1>1, <2>2, CApiAssumption
    <3>2. Output(c, x, lens[x]).len = lens[x]
      BY DEF Output
    <3> QED
      BY <3>1, <3>2
  <2> QED
    BY <1>1, <2>1, <2>2
<1> QED
  BY <1>2 DEF LensInv

LEMMA LensNext ==
    ASSUME NoEmptyChunk, TypeOK, MemInv, LensInv, [Next]_vars
    PROVE  LensInv'
<1>1. ASSUME UNCHANGED <<heap, copy>> PROVE LensInv'
  BY <1>1 DEF LensInv
<1>2. ASSUME NEW c \in Callers, Encrypt(c) PROVE LensInv'
  <2>1. PICK n \in Nat : n > 0 /\
            MakeBuffers(c, [x \in Chunk |->
                CASE x = "nonce" -> kGcmNonceSize [] x = "tag" -> kGcmTagSize [] OTHER -> n])
    <3>1. \A n \in ChunkLens \cup {SelfTestLen} : n \in Nat /\ n > 0
      BY CApiAssumption DEF NoEmptyChunk, SelfTestLen
    <3> QED
      BY <1>2, <3>1 DEF Encrypt
  <2> DEFINE lens == [x \in Chunk |->
          CASE x = "nonce" -> kGcmNonceSize [] x = "tag" -> kGcmTagSize [] OTHER -> n]
  <2>2. /\ DOMAIN lens = Chunk /\ lens \in [Chunk -> Nat]
        /\ lens["nonce"] = 12 /\ lens["tag"] = 16 /\ lens["ciphertext"] = n
    BY EncryptLens
  <2>3. MakeBuffers(c, lens) /\ UNCHANGED copy
    BY <1>2, <2>1 DEF Encrypt
  <2> HIDE DEF lens
  <2>4. \A x \in Chunk : lens[x] > 0
    BY <2>1, <2>2 DEF Chunk
  <2> QED
    BY <2>2, <2>3, <2>4, MadeLens DEF Names
<1>3. ASSUME NEW c \in Callers, Decrypt(c) PROVE LensInv'
  <2>1. copy[c]["ciphertext"].len \in Nat /\ copy[c]["ciphertext"].len > 0
    <3>1. copy[c]["ciphertext"] \in Held /\ buf[c]["ciphertext"].len \in Nat
      BY NamesAre DEF TypeOK
    <3>2. copy[c]["ciphertext"] = Output(c, "ciphertext", buf[c]["ciphertext"].len)
      BY <1>3 DEF Decrypt, Genuine, Chunk
    <3>3. copy[c]["ciphertext"] # Nothing
      BY <3>1, <3>2, OutputType, NamesAre
    <3> QED
      BY <3>1, <3>3, NamesAre DEF LensInv, Held
  <2> DEFINE lens == [x \in {"plaintext"} |-> copy[c]["ciphertext"].len]
  <2>2. /\ MakeBuffers(c, lens) /\ DOMAIN lens \subseteq Names /\ lens \in [DOMAIN lens -> Nat]
        /\ \A x \in DOMAIN lens : lens[x] > 0
    BY <1>3, <2>1, NamesAre DEF Decrypt
  <2>3. UNCHANGED copy
    BY <1>3 DEF Decrypt
  <2> HIDE DEF lens
  <2> QED
    BY <2>2, <2>3, MadeLens
<1>4. ASSUME NEW c \in Callers, FreeBuffer(c) PROVE LensInv'
  <2>1. Name(c) \in Names /\ airdrop_free_buffer(c, Name(c)) /\ UNCHANGED copy
    BY <1>4, Where DEF FreeBuffer
  <2>2. \A b \in Blocks : heap'[b] = Nothing \/ heap'[b] = heap[b]
    BY <2>1, FreeEffect DEF Free
  <2> QED
    BY <2>1, <2>2 DEF LensInv
<1>5. ASSUME NEW c \in Callers, Copy(c) PROVE LensInv'
  <2>1. PICK y \in Names : y = Name(c) /\ pc[c] = CopyAt(c, y)
    BY <1>5, Where DEF Copy
  <2>2. PICK b \in Blocks : copy' = [copy EXCEPT ![c][y] = heap[b]]
    <3>1. buf[c][y].data \in Blocks
      BY <1>5, <2>1 DEF Copy, Buffer, TypeOK
    <3> QED
      BY <1>5, <2>1, <3>1 DEF Copy, Buffer
  <2>3. \A d \in Callers, x \in Names : copy'[d][x] = heap[b] \/ copy'[d][x] = copy[d][x]
    BY <2>2 DEF TypeOK
  <2>4. UNCHANGED heap
    BY <1>5 DEF Copy
  <2> QED
    BY <2>3, <2>4 DEF LensInv
<1>6. ASSUME NEW c \in Callers, Return(c) PROVE LensInv'
  <2>1. /\ \A d \in Callers, x \in Names : copy'[d][x] = Nothing \/ copy'[d][x] = copy[d][x]
        /\ UNCHANGED heap
    BY <1>6 DEF Return, TypeOK
  <2> QED
    BY <2>1 DEF LensInv
<1>7. ASSUME NEW c \in Callers,
             \/ airdrop_generate_keypair(c) \/ airdrop_derive_session_key(c)
             \/ EncryptFails(c) \/ GoNil(c) \/ SwiftTrap(c) \/ GoPanic(c) \/ GoSends(c)
             \/ DecryptFails(c) \/ Compare(c) \/ Tamper(c)
      PROVE  LensInv'
  BY <1>1, <1>7 DEF airdrop_generate_keypair, airdrop_derive_session_key, CallForBoth,
     EncryptFails, GoNil, SwiftTrap, GoPanic, GoSends, DecryptFails, Compare, Tamper
<1>8. CASE UNCHANGED vars
  BY <1>1, <1>8 DEF vars
<1> QED
  BY <1>2, <1>3, <1>4, <1>5, <1>6, <1>7, <1>8 DEF Next

\* An empty chunk is the only cause of a leak: without one, every caller that
\* is through has given back every block, whatever failed on the way, calls of
\* malloc among them.
THEOREM AllIsReleased == NoEmptyChunk => (Spec => []AllReleased)
<1> SUFFICES ASSUME NoEmptyChunk PROVE Spec => []AllReleased
  OBVIOUS
<1>1. Init => LensInv
  BY DEF Init, LensInv, Free
<1>2. (TypeOK /\ MemInv) /\ LensInv /\ [Next]_vars => LensInv'
  BY LensNext
<1>3. ASSUME LensInv, NonEmptyReleased, SelfTestReleases PROVE AllReleased
  <2> SUFFICES ASSUME NEW c \in Callers, pc[c] = End(c), NEW b \in Blocks, heap[b].owner = c
               PROVE  FALSE
    BY DEF AllReleased
  <2>1. CASE c \in SwiftCallers
    BY <1>3, <2>1 DEF SelfTestReleases
  <2>2. CASE c \in GoCallers
    <3>1. heap[b].len = 0
      BY <1>3, <2>2 DEF NonEmptyReleased
    <3>2. heap[b] # Nothing
      BY CApiAssumption DEF Nothing
    <3> QED
      BY <1>3, <3>1, <3>2 DEF LensInv
  <2> QED
    BY <2>1, <2>2 DEF Callers
<1> QED
  BY <1>1, <1>2, <1>3, MemInvariance, BytesAreReleased, SelfTestGivesBack, PTL DEF Spec

-----------------------------------------------------------------------------
(* Panics and verdicts.                                                    *)

\* The step of one caller.
StepOf(c) ==
    \/ airdrop_generate_keypair(c) \/ airdrop_derive_session_key(c)
    \/ Encrypt(c) \/ EncryptFails(c) \/ GoNil(c) \/ Copy(c) \/ SwiftTrap(c)
    \/ FreeBuffer(c) \/ GoPanic(c) \/ GoSends(c) \/ Decrypt(c) \/ DecryptFails(c)
    \/ Compare(c) \/ Tamper(c) \/ Return(c)

\* It leaves the state of the others as it is.
LEMMA OthersKept ==
    ASSUME TypeOK, NEW c \in Callers, StepOf(c), NEW d \in Callers, d # c
    PROVE  /\ pc'[d] = pc[d] /\ buf'[d] = buf[d] /\ copy'[d] = copy[d] /\ len'[d] = len[d]
           /\ round'[d] = round[d]
           /\ d \in SwiftCallers => steps'[d] = steps[d]
<1>0. /\ DOMAIN pc = Callers /\ DOMAIN buf = Callers /\ DOMAIN copy = Callers
      /\ DOMAIN len = Callers /\ DOMAIN round = Callers /\ DOMAIN steps = SwiftCallers
  BY DEF TypeOK
<1>1. ASSUME NEW lens, MakeBuffers(c, lens) PROVE buf'[d] = buf[d]
  BY <1>0, <1>1 DEF MakeBuffers
<1>2. ASSUME NEW q, Goto(c, q) PROVE pc'[d] = pc[d]
  BY <1>0, <1>2 DEF Goto
<1>3. ASSUME NEW ok, Report(c, ok) PROVE d \in SwiftCallers => steps'[d] = steps[d]
  BY <1>0, <1>3 DEF Report
<1>4. CASE airdrop_generate_keypair(c) \/ airdrop_derive_session_key(c)
  BY <1>2, <1>3, <1>4 DEF airdrop_generate_keypair, airdrop_derive_session_key, CallForBoth
<1>5. CASE Encrypt(c)
  BY <1>0, <1>1, <1>2, <1>3, <1>5 DEF Encrypt, Advance
<1>6. CASE Decrypt(c)
  BY <1>1, <1>2, <1>6 DEF Decrypt, Advance
<1>7. CASE EncryptFails(c) \/ Compare(c) \/ Tamper(c)
  BY <1>2, <1>3, <1>7 DEF EncryptFails, Compare, Tamper, Advance
<1>8. CASE GoNil(c) \/ SwiftTrap(c) \/ GoPanic(c) \/ GoSends(c) \/ DecryptFails(c)
  BY <1>2, <1>8 DEF GoNil, SwiftTrap, GoPanic, GoSends, DecryptFails, Advance
<1>9. CASE Copy(c)
  BY <1>0, <1>2, <1>9 DEF Copy, Advance
<1>10. CASE FreeBuffer(c)
  BY <1>2, <1>10 DEF FreeBuffer, Advance
<1>11. CASE Return(c)
  BY <1>0, <1>2, <1>11 DEF Return
<1> QED
  BY <1>4, <1>5, <1>6, <1>7, <1>8, <1>9, <1>10, <1>11 DEF StepOf

PanicInv == ChunkInv /\ PanicNeedsEmpty

\* Every step keeps what is known of the panics.
LEMMA PanicNext == TypeOK /\ MemInv /\ PanicInv /\ [Next]_vars => PanicInv'
<1> SUFFICES ASSUME TypeOK, MemInv, PanicInv, [Next]_vars PROVE PanicInv'
  OBVIOUS
<1>1. CASE UNCHANGED vars
  BY <1>1 DEF vars, PanicInv, ChunkInv, PanicNeedsEmpty
<1>2. ASSUME NEW c \in Callers, StepOf(c),
             c \in GoCallers =>
                /\ pc'[c] \in 4 .. 10 => \A x \in Chunk :
                      /\ buf'[c][x].len = 0 => len'[c] = 0
                      /\ pc'[c] > CopyAt(c, x) /\ copy'[c][x] = Nothing =>
                            buf'[c][x].data = NULL \/ buf'[c][x].len = 0
                /\ pc'[c] = Stopped =>
                      len'[c] = 0 \/ \E x \in Names : buf'[c][x].data = NULL /\ buf'[c][x].len > 0
      PROVE  PanicInv'
  <2>1. GoCallers \subseteq Callers
    BY DEF Callers
  <2>2. ChunkInv'
    BY <1>2, <2>1, OthersKept DEF PanicInv, ChunkInv
  <2>3. PanicNeedsEmpty'
    BY <1>2, <2>1, OthersKept DEF PanicInv, PanicNeedsEmpty
  <2> QED
    BY <2>2, <2>3 DEF PanicInv
<1>3. ASSUME NEW c \in Callers, StepOf(c), pc'[c] \notin 4 .. 10, pc'[c] # Stopped
      PROVE  PanicInv'
  BY <1>2, <1>3
<1>4. ASSUME NEW c \in Callers, StepOf(c), c \notin GoCallers PROVE PanicInv'
  BY <1>2, <1>4
<1>5. ASSUME NEW c \in Callers, NEW q \in 0 .. End(c), Goto(c, q) PROVE pc'[c] = q
  BY <1>5, GotoType
<1>6. ASSUME NEW c \in Callers,
             airdrop_generate_keypair(c) \/ airdrop_derive_session_key(c)
      PROVE  PanicInv'
  <2>1. PICK op \in {"keypair", "derive"} : CallForBoth(c, op)
    BY <1>6 DEF airdrop_generate_keypair, airdrop_derive_session_key
  <2>2. PICK ok \in BOOLEAN : Goto(c, IF ok THEN pc[c] + 1 ELSE End(c))
    BY <2>1 DEF CallForBoth
  <2>3. pc[c] \in {1, 2}
    BY <2>1, Where DEF CallForBoth
  <2>4. pc'[c] \in {2, 3, End(c)}
    BY <1>5, <2>2, <2>3, Where
  <2> QED
    BY <1>3, <1>6, <2>4, Where DEF StepOf, Stopped
<1>7. ASSUME NEW c \in Callers, Encrypt(c), c \in GoCallers PROVE PanicInv'
  <2>1. PICK n \in Nat :
            /\ len' = [len EXCEPT ![c] = n]
            /\ MakeBuffers(c, [x \in Chunk |->
                  CASE x = "nonce" -> kGcmNonceSize [] x = "tag" -> kGcmTagSize [] OTHER -> n])
    BY <1>7, CApiAssumption DEF Encrypt
  <2>2. /\ len'[c] = n
        /\ buf'[c]["nonce"].len = 12 /\ buf'[c]["tag"].len = 16 /\ buf'[c]["ciphertext"].len = n
    <3> DEFINE lens == [x \in Chunk |->
            CASE x = "nonce" -> kGcmNonceSize [] x = "tag" -> kGcmTagSize [] OTHER -> n]
    <3>1. /\ DOMAIN lens = Chunk /\ lens \in [Chunk -> Nat]
          /\ lens["nonce"] = 12 /\ lens["tag"] = 16 /\ lens["ciphertext"] = n
      BY EncryptLens
    <3>2. MakeBuffers(c, lens) /\ len' = [len EXCEPT ![c] = n]
      BY <2>1
    <3> HIDE DEF lens
    <3>3. \A x \in Chunk : buf'[c][x].len = lens[x]
      BY <3>1, <3>2, MakeBuffersEffect DEF Names
    <3>4. len'[c] = n
      BY <3>2 DEF TypeOK
    <3> QED
      BY <3>1, <3>3, <3>4 DEF Chunk
  <2>3. pc'[c] = 4
    BY <1>5, <1>7, Where DEF Encrypt, Advance
  <2>4. \A x \in Chunk : ~(4 > CopyAt(c, x))
    BY <1>7 DEF Chunk, CopyAt
  <2> QED
    BY <1>2, <1>7, <2>2, <2>3, <2>4 DEF StepOf, Chunk, Stopped
<1>8. ASSUME NEW c \in Callers, EncryptFails(c) PROVE PanicInv'
  <2>1. pc'[c] = End(c)
    BY <1>5, <1>8, Where DEF EncryptFails
  <2> QED
    BY <1>3, <1>8, <2>1, Where DEF StepOf, Stopped
<1>9. ASSUME NEW c \in Callers, GoNil(c) PROVE PanicInv'
  <2> DEFINE y == Name(c)
  <2>1. /\ c \in GoCallers /\ y \in Names /\ pc[c] = CopyAt(c, y)
        /\ buf[c][y].data = NULL \/ buf[c][y].len = 0
    BY <1>9, Where DEF GoNil, Buffer
  <2>2. UNCHANGED <<len, buf, copy>> /\ Goto(c, pc[c] + 2)
    BY <1>9 DEF GoNil, Advance
  <2> HIDE DEF y
  <2>3. pc'[c] = pc[c] + 2
    BY <1>5, <2>1, <2>2, Where DEF CopyAt
  <2>4. \A x \in Chunk : pc'[c] \in 4 .. 10 /\ pc'[c] > CopyAt(c, x) =>
            x = y \/ pc[c] > CopyAt(c, x)
    BY <2>1, <2>3, NamesAre DEF CopyAt, Chunk
  <2>5. pc'[c] \in 4 .. 10 => pc[c] \in 4 .. 10
    BY <2>1, <2>3 DEF CopyAt
  <2>6. pc'[c] # Stopped
    BY <2>1, <2>3 DEF CopyAt, Stopped
  <2> QED
    BY <1>2, <1>9, <2>1, <2>2, <2>4, <2>5, <2>6 DEF StepOf, PanicInv, ChunkInv
<1>10. ASSUME NEW c \in Callers, Copy(c), c \in GoCallers PROVE PanicInv'
  <2> DEFINE y == Name(c)
  <2>1. y \in Names /\ pc[c] = CopyAt(c, y) /\ buf[c][y].data # NULL
    BY <1>10, Where DEF Copy, Buffer
  <2>2. UNCHANGED <<len, buf>> /\ Goto(c, pc[c] + 1)
    BY <1>10 DEF Copy, Advance
  <2>3. copy' = [copy EXCEPT ![c][y] = heap[buf[c][y].data]]
    BY <1>10 DEF Copy, Buffer
  <2> HIDE DEF y
  <2>4. pc'[c] = pc[c] + 1
    BY <1>5, <2>1, <2>2, Where DEF CopyAt
  <2>5. heap[buf[c][y].data] # Nothing
    <3>1. Holds(c, y)
      BY <1>10, <2>1, NamesAre DEF Holds, MadeAt, FreeAt, CopyAt
    <3>2. heap[buf[c][y].data] = Output(c, y, buf[c][y].len) /\ buf[c][y].len \in Nat
      BY <2>1, <3>1 DEF MemInv, HeldInv, TypeOK
    <3> QED
      BY <2>1, <3>2, OutputType
  <2>6. copy'[c][y] # Nothing /\ \A x \in Names : x # y => copy'[c][x] = copy[c][x]
    BY <2>1, <2>3, <2>5 DEF TypeOK
  <2>7. \A x \in Chunk : pc'[c] \in 4 .. 10 /\ pc'[c] > CopyAt(c, x) =>
            x = y \/ pc[c] > CopyAt(c, x)
    BY <1>10, <2>1, <2>4, NamesAre DEF CopyAt, Chunk
  <2>8. pc'[c] \in 4 .. 10 => pc[c] \in 4 .. 10
    BY <2>1, <2>4 DEF CopyAt
  <2>9. pc'[c] # Stopped /\ Chunk \subseteq Names
    BY <2>1, <2>4 DEF CopyAt, Stopped, Names
  <2> QED
    BY <1>2, <1>10, <2>2, <2>6, <2>7, <2>8, <2>9 DEF StepOf, PanicInv, ChunkInv
<1>11. ASSUME NEW c \in Callers, SwiftTrap(c) PROVE PanicInv'
  BY <1>4, <1>11, CApiAssumption DEF SwiftTrap, StepOf
<1>12. ASSUME NEW c \in Callers, FreeBuffer(c), c \in GoCallers PROVE PanicInv'
  <2>1. Name(c) \in Names /\ pc[c] = FreeAt(c, Name(c))
    BY <1>12, Where DEF FreeBuffer
  <2>2. UNCHANGED <<len, buf, copy>> /\ Goto(c, pc[c] + 1)
    BY <1>12 DEF FreeBuffer, Advance
  <2>3. pc'[c] = pc[c] + 1
    BY <1>5, <2>1, <2>2, Where DEF FreeAt
  <2>4. \A x \in Chunk : pc'[c] > CopyAt(c, x) => pc[c] > CopyAt(c, x)
    BY <1>12, <2>1, <2>3, NamesAre DEF CopyAt, FreeAt, Chunk
  <2>5. /\ pc'[c] \in 4 .. 10 => pc[c] \in 4 .. 10
        /\ pc'[c] # Stopped
    BY <2>1, <2>3 DEF FreeAt, Stopped
  <2> QED
    BY <1>2, <1>12, <2>2, <2>4, <2>5 DEF StepOf, PanicInv, ChunkInv
<1>13. ASSUME NEW c \in Callers, GoPanic(c) PROVE PanicInv'
  <2>1. pc[c] = 10 /\ c \in GoCallers /\ UNCHANGED <<len, buf>> /\ Goto(c, Stopped)
    BY <1>13, Where DEF GoPanic
  <2>2. pc'[c] = Stopped
    BY <1>5, <2>1, Where DEF Stopped
  <2>3. PICK x \in Chunk : copy[c][x] = Nothing
    BY <1>13 DEF GoPanic
  <2>4. 10 > CopyAt(c, x) /\ x \in Names
    BY <2>1 DEF CopyAt, Chunk, Names
  <2>5. buf[c][x].data = NULL \/ len[c] = 0
    BY <2>1, <2>3, <2>4 DEF PanicInv, ChunkInv
  <2>6. buf[c][x].len \in Nat /\ (buf[c][x].len = 0 => len[c] = 0)
    BY <2>1, <2>3, <2>4 DEF PanicInv, ChunkInv, TypeOK
  <2>7. len[c] = 0 \/ (buf[c][x].data = NULL /\ buf[c][x].len > 0)
    BY <2>5, <2>6
  <2> QED
    BY <1>2, <1>13, <2>1, <2>2, <2>4, <2>7 DEF StepOf, Stopped
<1>14. ASSUME NEW c \in Callers, GoSends(c) \/ (DecryptFails(c) /\ c \in GoCallers)
       PROVE  PanicInv'
  <2>1. Goto(c, End(c))
    BY <1>14 DEF GoSends, DecryptFails
  <2>2. pc'[c] = End(c)
    BY <1>5, <2>1, Where
  <2> QED
    BY <1>3, <1>14, <2>2, Where DEF StepOf, Stopped
<1>15. ASSUME NEW c \in Callers, Decrypt(c) PROVE PanicInv'
  <2>1. pc'[c] = 11
    BY <1>5, <1>15, Where DEF Decrypt, Advance
  <2> QED
    BY <1>3, <1>15, <2>1 DEF StepOf, Stopped
<1>16. ASSUME NEW c \in Callers, Compare(c) \/ Tamper(c) PROVE PanicInv'
  <2>1. c \notin GoCallers
    BY <1>16, Where DEF Compare, Tamper
  <2> QED
    BY <1>4, <1>16, <2>1 DEF StepOf
<1>17. ASSUME NEW c \in Callers, Return(c) PROVE PanicInv'
  <2>1. pc'[c] = 1
    BY <1>5, <1>17, Where DEF Return
  <2> QED
    BY <1>3, <1>17, <2>1 DEF StepOf, Stopped
<1> QED
  <2>1. ASSUME NEW c \in Callers, c \notin GoCallers, StepOf(c) PROVE PanicInv'
    BY <1>4, <2>1
  <2>2. ASSUME NEW c \in Callers, c \in GoCallers, StepOf(c) PROVE PanicInv'
    BY <2>2, <1>6, <1>7, <1>8, <1>9, <1>10, <1>11, <1>12, <1>13, <1>14, <1>15, <1>16, <1>17
    DEF StepOf
  <2> QED
    BY <1>1, <2>1, <2>2 DEF Next, StepOf

\* A goroutine panics only for an empty chunk or for want of memory.
THEOREM PanicsOnlyForEmpty == Spec => []PanicNeedsEmpty
<1>1. Init => PanicInv
  BY DEF Init, PanicInv, ChunkInv, PanicNeedsEmpty, Stopped, Callers
<1>2. (TypeOK /\ MemInv) /\ PanicInv /\ [Next]_vars => PanicInv'
  BY PanicNext
<1>3. PanicInv => PanicNeedsEmpty
  BY DEF PanicInv
<1> QED
  BY <1>1, <1>2, <1>3, MemInvariance, PTL DEF Spec

\* StepsInv of one self test.
StepsInvOf(c) ==
    /\ pc[c] \in 1 .. 3 => Len(steps[c]) = pc[c] - 1
    /\ pc[c] \in 4 .. 13 => Len(steps[c]) = 3
    /\ pc[c] = 14 => Len(steps[c]) = 4
    /\ pc[c] = 15 => Len(steps[c]) = 5 \/ \E i \in DOMAIN steps[c] : ~steps[c][i]
    /\ pc[c] \in {14, 15} /\ Len(steps[c]) >= 4 /\ steps[c][4] =>
          copy[c]["plaintext"] = Output(c, "plaintext", len[c])

\* Every step keeps what is known of the reports.
LEMMA StepsNext == TypeOK /\ StepsInv /\ [Next]_vars => StepsInv'
<1> SUFFICES ASSUME TypeOK, StepsInv, [Next]_vars PROVE StepsInv'
  OBVIOUS
<1>1. CASE UNCHANGED vars
  BY <1>1 DEF vars, StepsInv, Output
<1>2. ASSUME NEW c \in Callers, StepOf(c), c \in SwiftCallers => StepsInvOf(c)'
      PROVE  StepsInv'
  <2>1. SwiftCallers \subseteq Callers
    BY DEF Callers
  <2>2. ASSUME NEW d \in SwiftCallers PROVE StepsInvOf(d)'
    <3>1. CASE d = c
      BY <1>2, <3>1
    <3>2. CASE d # c
      BY <1>2, <2>1, <3>2, OthersKept DEF StepsInv, StepsInvOf, Output
    <3> QED
      BY <3>1, <3>2
  <2> QED
    BY <2>2 DEF StepsInv, StepsInvOf
<1>3. ASSUME NEW c \in Callers, StepOf(c), c \notin SwiftCallers PROVE StepsInv'
  BY <1>2, <1>3
<1>4. ASSUME NEW c \in Callers, NEW q \in 0 .. End(c), Goto(c, q) PROVE pc'[c] = q
  BY <1>4, GotoType
<1>5. ASSUME NEW c \in SwiftCallers
      PROVE  /\ c \in Callers /\ End(c) = 15 /\ c \notin GoCallers
             /\ steps[c] \in Seq(BOOLEAN) /\ Len(steps[c]) \in Nat
             /\ StepsInvOf(c)
  <2>1. c \in Callers /\ c \notin GoCallers
    BY CApiAssumption DEF Callers
  <2>2. End(c) = 15
    BY <2>1, Where
  <2>3. steps[c] \in Seq(BOOLEAN) /\ Len(steps[c]) \in Nat
    BY DEF TypeOK
  <2> QED
    BY <2>1, <2>2, <2>3 DEF StepsInv, StepsInvOf
\* A step that reports nothing, between the third report and the fourth.
<1>6. ASSUME NEW c \in SwiftCallers, StepOf(c), steps' = steps,
             pc[c] \in 4 .. 12, pc'[c] \in 4 .. 13
      PROVE  StepsInv'
  BY <1>2, <1>5, <1>6 DEF StepsInvOf
\* A report that lets the self test go on, and one that ends it.
<1>7. ASSUME NEW c \in SwiftCallers, StepOf(c), NEW ok \in BOOLEAN, Report(c, ok),
             pc[c] \in {1, 2, 3}, pc'[c] = pc[c] + 1
      PROVE  StepsInv'
  <2>1. Len(steps'[c]) = Len(steps[c]) + 1
    BY <1>5, <1>7, ReportType
  <2>2. Len(steps[c]) = pc[c] - 1 /\ pc'[c] \in 2 .. 4
    BY <1>5, <1>7 DEF StepsInvOf
  <2>3. pc'[c] \in 2 .. 4 /\ Len(steps'[c]) = pc'[c] - 1
    <3>1. pc[c] \in 1 .. 3 /\ pc'[c] = pc[c] + 1
      BY <1>7
    <3> QED
      BY <2>1, <2>2, <3>1
  <2>4. StepsInvOf(c)'
    BY <2>3 DEF StepsInvOf
  <2> QED
    BY <1>2, <1>5, <1>7, <2>4
<1>8. ASSUME NEW c \in SwiftCallers, StepOf(c), Report(c, FALSE),
             pc[c] \in {1, 2, 3}, pc'[c] = 15
      PROVE  StepsInv'
  <2>1. /\ steps'[c] \in Seq(BOOLEAN) /\ Len(steps'[c]) = Len(steps[c]) + 1
        /\ steps'[c][Len(steps[c]) + 1] = FALSE
    BY <1>5, <1>8, ReportType
  <2>2. Len(steps[c]) + 1 \in DOMAIN steps'[c] /\ Len(steps'[c]) < 4
    BY <1>5, <1>8, <2>1 DEF StepsInvOf
  <2>3. \E i \in DOMAIN steps'[c] : ~steps'[c][i]
    BY <2>1, <2>2
  <2>4. StepsInvOf(c)'
    BY <1>8, <2>1, <2>2, <2>3 DEF StepsInvOf
  <2> QED
    BY <1>2, <1>5, <1>8, <2>4
<1>9. ASSUME NEW c \in SwiftCallers,
             airdrop_generate_keypair(c) \/ airdrop_derive_session_key(c)
      PROVE  StepsInv'
  <2>1. PICK op \in {"keypair", "derive"} : CallForBoth(c, op)
    BY <1>9 DEF airdrop_generate_keypair, airdrop_derive_session_key
  <2>2. PICK ok \in BOOLEAN :
            Report(c, ok) /\ Goto(c, IF ok THEN pc[c] + 1 ELSE End(c))
    BY <2>1 DEF CallForBoth
  <2>3. pc[c] \in {1, 2} /\ StepOf(c)
    BY <1>5, <1>9, <2>1, Where DEF CallForBoth, StepOf
  <2>4. CASE ok = TRUE
    <3>1. pc'[c] = pc[c] + 1
      BY <1>4, <1>5, <2>2, <2>3, <2>4
    <3> QED
      BY <1>7, <2>2, <2>3, <3>1
  <2>5. CASE ok = FALSE
    <3>1. Report(c, FALSE)
      BY <2>2, <2>5
    <3>2. Goto(c, End(c)) /\ End(c) \in 0 .. End(c)
      BY <1>5, <2>2, <2>5
    <3>3. pc'[c] = 15
      BY <1>4, <1>5, <3>2
    <3> QED
      BY <1>8, <2>3, <3>1, <3>3
  <2> QED
    BY <2>4, <2>5
<1>10. ASSUME NEW c \in SwiftCallers, Encrypt(c) PROVE StepsInv'
  <2>1. pc[c] = 3 /\ Goto(c, pc[c] + 1)
    BY <1>5, <1>10, Where DEF Encrypt, Advance
  <2>2. pc'[c] = pc[c] + 1
    BY <1>4, <1>5, <2>1
  <2>3. Report(c, TRUE) /\ StepOf(c)
    BY <1>10 DEF Encrypt, StepOf
  <2> QED
    BY <1>7, <2>1, <2>2, <2>3
<1>11. ASSUME NEW c \in SwiftCallers, EncryptFails(c) PROVE StepsInv'
  <2>1. pc[c] = 3 /\ Goto(c, End(c))
    BY <1>5, <1>11, Where DEF EncryptFails
  <2>2. pc'[c] = 15
    BY <1>4, <1>5, <2>1
  <2>3. Report(c, FALSE) /\ StepOf(c)
    BY <1>11 DEF EncryptFails, StepOf
  <2> QED
    BY <1>8, <2>1, <2>2, <2>3
<1>12. ASSUME NEW c \in SwiftCallers, Copy(c) \/ FreeBuffer(c) PROVE StepsInv'
  <2>1. Goto(c, pc[c] + 1) /\ steps' = steps /\ StepOf(c)
    BY <1>12 DEF Copy, FreeBuffer, Advance, StepOf
  <2>2. pc[c] \in 4 .. 12
    BY <1>5, <1>12, Where DEF Copy, FreeBuffer, CopyAt, FreeAt
  <2>3. pc'[c] = pc[c] + 1
    BY <1>4, <1>5, <2>1, <2>2
  <2> QED
    BY <1>6, <2>1, <2>2, <2>3
<1>13. ASSUME NEW c \in SwiftCallers, SwiftTrap(c) PROVE StepsInv'
  <2>1. pc'[c] = 0 /\ StepOf(c)
    BY <1>4, <1>5, <1>13 DEF SwiftTrap, StepOf, Stopped
  <2>2. StepsInvOf(c)'
    BY <2>1 DEF StepsInvOf
  <2> QED
    BY <1>2, <1>5, <2>1, <2>2
<1>14. ASSUME NEW c \in SwiftCallers, Decrypt(c) PROVE StepsInv'
  <2>1. pc[c] = 10 /\ Goto(c, pc[c] + 1) /\ steps' = steps /\ StepOf(c)
    BY <1>5, <1>14, Where DEF Decrypt, Advance, StepOf
  <2>2. pc'[c] = 11
    BY <1>4, <1>5, <2>1
  <2> QED
    BY <1>6, <2>1, <2>2
<1>15. ASSUME NEW c \in SwiftCallers, DecryptFails(c) PROVE StepsInv'
  <2>1. pc[c] = 10 /\ Goto(c, pc[c] + 3) /\ steps' = steps /\ StepOf(c)
    BY <1>5, <1>15, Where DEF DecryptFails, StepOf
  <2>2. pc'[c] = 13
    BY <1>4, <1>5, <2>1
  <2> QED
    BY <1>6, <2>1, <2>2
<1>16. ASSUME NEW c \in SwiftCallers, Compare(c) PROVE StepsInv'
  <2> DEFINE ok == copy[c]["plaintext"] = Output(c, "plaintext", len[c])
  <2>1. pc[c] = 13 /\ Goto(c, pc[c] + 1) /\ StepOf(c)
    BY <1>5, <1>16, Where DEF Compare, Advance, StepOf
  <2>2. Report(c, ok) /\ ok \in BOOLEAN /\ UNCHANGED <<round, len, copy>>
    BY <1>16 DEF Compare
  <2>3. pc'[c] = 14
    BY <1>4, <1>5, <2>1
  <2>4. Len(steps[c]) = 3
    BY <1>5, <2>1 DEF StepsInvOf
  <2>5. Len(steps'[c]) = 4 /\ (steps'[c][4] => ok)
    <3>1. PICK r \in BOOLEAN : Report(c, r) /\ (r => ok)
      BY <2>2, Zenon
    <3>2. Len(steps'[c]) = Len(steps[c]) + 1 /\ steps'[c][Len(steps[c]) + 1] = r
      BY <1>5, <3>1, ReportType
    <3> QED
      BY <2>4, <3>1, <3>2
  <2>6. ok => copy'[c]["plaintext"] = Output(c, "plaintext", len[c])'
    BY <2>2 DEF Output
  <2> HIDE DEF ok
  <2>7. StepsInvOf(c)'
    BY <2>3, <2>5, <2>6 DEF StepsInvOf
  <2> QED
    BY <1>2, <1>5, <2>1, <2>7
<1>17. ASSUME NEW c \in SwiftCallers, Tamper(c) PROVE StepsInv'
  <2>1. pc[c] = 14 /\ Goto(c, pc[c] + 1) /\ StepOf(c)
    BY <1>5, <1>17, Where DEF Tamper, Advance, StepOf
  <2>2. PICK r \in BOOLEAN : Report(c, r) /\ UNCHANGED <<round, len, copy>>
    BY <1>17 DEF Tamper
  <2>3. pc'[c] = 15
    BY <1>4, <1>5, <2>1
  <2>4. Len(steps[c]) = 4
    BY <1>5, <2>1 DEF StepsInvOf
  <2>5. Len(steps'[c]) = 5 /\ steps'[c][4] = steps[c][4]
    <3>1. /\ Len(steps'[c]) = Len(steps[c]) + 1
          /\ \A i \in 1 .. Len(steps[c]) : steps'[c][i] = steps[c][i]
      BY <1>5, <2>2, ReportType
    <3> QED
      BY <2>4, <3>1
  <2>6. steps[c][4] => copy[c]["plaintext"] = Output(c, "plaintext", len[c])
    BY <1>5, <2>1, <2>4 DEF StepsInvOf
  <2>7. StepsInvOf(c)'
    BY <2>2, <2>3, <2>5, <2>6 DEF StepsInvOf, Output
  <2> QED
    BY <1>2, <1>5, <2>1, <2>7
<1>18. ASSUME NEW c \in SwiftCallers, Return(c) PROVE StepsInv'
  <2>1. pc'[c] = 1 /\ steps'[c] = <<>> /\ StepOf(c)
    BY <1>4, <1>5, <1>18 DEF Return, StepOf
  <2> QED
    BY <1>2, <1>5, <2>1 DEF StepsInvOf
<1> QED
  <2>1. ASSUME NEW c \in Callers, c \in SwiftCallers, StepOf(c) PROVE StepsInv'
    BY <2>1, <1>5, <1>9, <1>10, <1>11, <1>12, <1>13, <1>14, <1>15, <1>16, <1>17, <1>18
    DEF StepOf, GoNil, GoPanic, GoSends
  <2>2. ASSUME NEW c \in Callers, c \notin SwiftCallers, StepOf(c) PROVE StepsInv'
    BY <1>3, <2>2
  <2> QED
    BY <1>1, <2>1, <2>2 DEF Next, StepOf

\* A list of successes is never the list of a self test that stopped early.
THEOREM SuccessIsEarned == Spec => []AllOkIsEarned
<1>1. Init => StepsInv
  BY DEF Init, StepsInv, Stopped, Callers
<1>2. ASSUME TypeOK, StepsInv PROVE AllOkIsEarned
  <2> SUFFICES ASSUME NEW c \in SwiftCallers, pc[c] = End(c),
                      \A i \in DOMAIN steps[c] : steps[c][i]
               PROVE  /\ Len(steps[c]) = 5
                      /\ copy[c]["plaintext"] = Output(c, "plaintext", len[c])
    BY DEF AllOkIsEarned
  <2>1. c \in Callers /\ c \notin GoCallers
    BY CApiAssumption DEF Callers
  <2>2. pc[c] = 15
    BY <2>1, Where
  <2>3. Len(steps[c]) = 5
    BY <1>2, <2>2 DEF StepsInv
  <2>4. 4 \in DOMAIN steps[c]
    BY <1>2, <2>3 DEF TypeOK
  <2> QED
    BY <1>2, <2>2, <2>3, <2>4 DEF StepsInv
<1>3. (TypeOK /\ MemInv) /\ StepsInv /\ [Next]_vars => StepsInv'
  BY StepsNext
<1> QED
  BY <1>1, <1>2, <1>3, MemInvariance, PTL DEF Spec

=============================================================================
