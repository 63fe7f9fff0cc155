-------------------------- MODULE AsconcryptProofs --------------------------
(***************************************************************************)
(* Proofs about asconcrypt, for any number of files, any lengths of files, *)
(* tags and buffers: that a failure leaves nothing behind, whatever fails, *)
(* and that a success means the exact output, as long as no write fails.   *)
(***************************************************************************)
EXTENDS Asconcrypt, SequenceLemmas, TLAPS

(***************************************************************************)
(* Where the program is.  It works on one argument after the other; those  *)
(* it has not finished have no result yet.                                 *)
(***************************************************************************)
Encrypting == {"enc_header", "enc_loop", "enc_tag"}
Decrypting == {"dec_header", "dec_loop", "dec_tag"}

ControlInv ==
  /\ mode \in {"detect", "encrypt", "decrypt", "generate"}
  /\ pc \in {"main", "open", "exit"} \cup Encrypting \cup Decrypting
  /\ cur \in Arg
  /\ exit_val \in {0, 1}
  /\ out = [a \in Arg |-> out[a]] /\ inp = [a \in Arg |-> inp[a]]
  /\ result = [a \in Arg |-> result[a]]
  /\ pc = "main" => cur = 1
  /\ pc # "exit" => status = -1 /\ \A a \in Arg : a >= cur => result[a] = -1
  /\ pc = "open" => mode \in {"encrypt", "decrypt"}
  /\ pc \in Encrypting => mode = "encrypt"
  /\ pc \in Decrypting => mode = "decrypt"

\* What makes FailureLeavesNoOutput inductive: outputs that were not opened yet
\* are as they were.
FailureInv ==
  /\ FailureLeavesNoOutput
  /\ \A a \in Arg :
       pc # "exit" /\ (a > cur \/ (a = cur /\ pc \in {"main", "open"}))
         => out[a] \in {Absent, Old}

(***************************************************************************)
(* What makes SuccessIsExact inductive: how the output so far, what went   *)
(* through the cipher, what is kept back and what is still to be read make *)
(* up the file, as long as nothing has gone wrong.                         *)
(***************************************************************************)
BodiesAreSequences ==
  /\ IsSequence(rest) /\ IsSequence(data) /\ IsSequence(aead)

OpenedInv ==
  /\ \A a \in Arg : inp[a] \in InputFiles \cup {NotOpened}
  /\ pc \in {"main", "open"} => aead = <<>> /\ data = <<>>
  /\ pc \in Encrypting \cup Decrypting => inp[cur] \in InputFiles
  /\ pc \in {"enc_header", "dec_header"} =>
       out[cur] = <<>> /\ rest = inp[cur].body /\ aead = <<>>

\* The plaintext that a decryption of c gives.
DecryptedAll(c) == [i \in 1 .. Len(c) |-> Decrypted(c[i], i)]

EncryptionInv ==
  pc \in {"enc_loop", "enc_tag"} /\ exit_val = 1 =>
    /\ inp[cur].body = aead \o rest
    /\ out[cur] = <<Header, SivBlock>> \o Encrypted(aead)
    /\ pc = "enc_tag" => rest = <<>>

DecryptionInv ==
  pc \in {"dec_loop", "dec_tag"} /\ exit_val = 1 =>
    /\ inp[cur].head = "ok"
    /\ Len(data) = TAG_SIZE
    /\ inp[cur].body = (aead \o data) \o rest
    /\ out[cur] = DecryptedAll(aead)
    /\ pc = "dec_tag" => rest = <<>>

ExactInv ==
  /\ SuccessIsExact
  /\ BodiesAreSequences
  /\ OpenedInv
  /\ EncryptionInv
  /\ DecryptionInv
-----------------------------------------------------------------------------
(* Control and failures.                                                   *)

LEMMA ControlInit == ASSUME Init PROVE ControlInv /\ FailureInv
<1>1. 1 \in Arg
  BY AsconcryptAssumption DEF Arg
<1>2. ControlInv
  BY <1>1 DEF Init, ControlInv, Encrypting, Decrypting
<1>3. FailureInv
  BY DEF Init, FailureInv, FailureLeavesNoOutput
<1> QED BY <1>2, <1>3

\* The end of encrypt_file or decrypt_file.
LEMMA FileDoneControl ==
  ASSUME ControlInv, FailureInv, pc \notin {"main", "exit"},
         NEW r \in {0, 1}, NEW file, FileDone(r, file),
         r = 0 => file \in {Absent, Old}
  PROVE  ControlInv' /\ FailureInv'
<1>1. /\ out' = [out EXCEPT ![cur] = file]
      /\ result' = [result EXCEPT ![cur] = r]
      /\ exit_val' = 0
      /\ UNCHANGED <<inp, mode>>
  BY DEF FileDone
<1>2. /\ cur \in Arg /\ status = -1
      /\ \A a \in Arg : a >= cur => result[a] = -1
      /\ mode \in {"encrypt", "decrypt"}
  BY DEF ControlInv, Encrypting, Decrypting
<1>3. /\ result'[cur] = r /\ out'[cur] = file
      /\ \A a \in Arg \ {cur} : result'[a] = result[a] /\ out'[a] = out[a]
  BY <1>1, <1>2 DEF ControlInv
<1>4. \A a \in Arg : result'[a] = 0 => out'[a] \in {Absent, Old}
  BY <1>3 DEF FailureInv, FailureLeavesNoOutput
<1>5. CASE cur < Args
  <2>1. cur' = cur + 1 /\ pc' = "open" /\ status' = -1
    BY <1>2, <1>5 DEF FileDone
  <2>2. cur + 1 \in Arg /\ \A a \in Arg : a >= cur + 1 => a # cur /\ a > cur
    BY <1>2, <1>5, AsconcryptAssumption DEF Arg
  <2>3. ControlInv'
    <3>1. /\ out' = [a \in Arg |-> out'[a]] /\ inp' = [a \in Arg |-> inp'[a]]
          /\ result' = [a \in Arg |-> result'[a]]
      BY <1>1 DEF ControlInv
    <3>2. \A a \in Arg : a >= cur + 1 => result'[a] = -1
      BY <1>2, <1>3, <2>2, AsconcryptAssumption DEF Arg
    <3> QED BY <1>1, <1>2, <2>1, <2>2, <3>1, <3>2 DEF ControlInv, Encrypting, Decrypting
  <2>4. \A a \in Arg : a > cur => out[a] \in {Absent, Old}
    BY DEF FailureInv, ControlInv
  <2>5. \A a \in Arg : a > cur + 1 \/ a = cur + 1 => out'[a] \in {Absent, Old}
    BY <1>3, <2>2, <2>4, AsconcryptAssumption DEF Arg
  <2>6. FailureInv'
    BY <1>4, <2>1, <2>5 DEF FailureInv, FailureLeavesNoOutput
  <2> QED BY <2>3, <2>6
<1>6. CASE ~(cur < Args)
  <2>1. /\ cur' = cur /\ pc' = "exit"
        /\ status' = IF \E a \in Arg : result'[a] = 0 THEN 1 ELSE 0
    BY <1>6 DEF FileDone
  <2>2. ControlInv'
    BY <1>1, <1>2, <2>1 DEF ControlInv, Encrypting, Decrypting
  <2>3. FailureInv'
    BY <1>4, <2>1 DEF FailureInv, FailureLeavesNoOutput
  <2> QED BY <2>2, <2>3
<1> QED BY <1>5, <1>6

LEMMA CleanupControl ==
  ASSUME ControlInv, FailureInv, pc \notin {"main", "exit"},
         NEW val \in {0, 1}, NEW file, Cleanup(val, file)
  PROVE  ControlInv' /\ FailureInv'
BY FileDoneControl DEF Cleanup

\* A step within a file: what is written goes to the output that was opened.
LEMMA WorkControl ==
  ASSUME ControlInv, FailureInv, pc \in {"open"} \cup Encrypting \cup Decrypting,
         \/ pc' \in Encrypting /\ mode = "encrypt"
         \/ pc' \in Decrypting /\ mode = "decrypt",
         UNCHANGED <<mode, cur, result, status>>, exit_val' \in {0, 1},
         inp' = inp \/ (\E f \in InputFiles : inp' = [inp EXCEPT ![cur] = f]),
         out' = out \/ (\E file : out' = [out EXCEPT ![cur] = file])
  PROVE  ControlInv' /\ FailureInv'
<1>1. pc # "exit" /\ pc' \notin {"main", "open", "exit"} /\ cur \in Arg
  BY DEF ControlInv, Encrypting, Decrypting
<1>2. /\ out' = [a \in Arg |-> out'[a]] /\ inp' = [a \in Arg |-> inp'[a]]
      /\ \A a \in Arg \ {cur} : out'[a] = out[a]
  BY DEF ControlInv
<1>3. ControlInv'
  BY <1>1, <1>2 DEF ControlInv, Encrypting, Decrypting
<1>4. result[cur] # 0
  BY <1>1 DEF ControlInv, Arg
<1>5. \A a \in Arg : result[a] = 0 => out'[a] \in {Absent, Old}
  BY <1>2, <1>4 DEF FailureInv, FailureLeavesNoOutput
<1>6. \A a \in Arg : a > cur => out'[a] \in {Absent, Old}
  BY <1>1, <1>2 DEF FailureInv, Arg
<1>7. FailureInv'
  BY <1>1, <1>5, <1>6 DEF FailureInv, FailureLeavesNoOutput
<1> QED BY <1>3, <1>7

LEMMA ExitControl ==
  ASSUME ControlInv, FailureInv, pc = "main", Exit(1), UNCHANGED mode
  PROVE  ControlInv' /\ FailureInv'
<1>1. /\ pc' = "exit" /\ status' = 1
      /\ UNCHANGED <<names, inp, cur, out, result>> /\ exit_val' = exit_val
  BY DEF Exit, fileVars
<1>2. ControlInv'
  BY <1>1 DEF ControlInv, Encrypting, Decrypting
<1>3. FailureInv'
  BY <1>1 DEF FailureInv, FailureLeavesNoOutput
<1> QED BY <1>2, <1>3

LEMMA DetectControl ==
  ASSUME ControlInv, FailureInv, Detect
  PROVE  ControlInv' /\ FailureInv'
<1>1. CASE DetectMode = "mixture"
  <2>1. pc = "main" /\ Exit(1) /\ UNCHANGED mode
    BY <1>1 DEF Detect
  <2> QED BY <2>1, ExitControl
<1>2. CASE DetectMode # "mixture"
  <2>1. /\ pc = "main" /\ mode' \in {"encrypt", "decrypt"}
        /\ UNCHANGED <<inp, pc, cur, out, result, status, exit_val>>
    BY <1>2 DEF Detect, DetectMode, fileVars
  <2>2. ControlInv'
    BY <2>1 DEF ControlInv, Encrypting, Decrypting
  <2>3. FailureInv'
    BY <2>1 DEF FailureInv, FailureLeavesNoOutput
  <2> QED BY <2>2, <2>3
<1> QED BY <1>1, <1>2

LEMMA PasswordControl ==
  ASSUME ControlInv, FailureInv, Password
  PROVE  ControlInv' /\ FailureInv'
<1>1. /\ pc = "main" /\ mode \in {"encrypt", "decrypt"} /\ pc' = "open"
      /\ UNCHANGED <<inp, mode, cur, out, result, status, exit_val>>
  BY DEF Password, fileVars
<1>2. ControlInv'
  BY <1>1 DEF ControlInv, Encrypting, Decrypting
<1>3. FailureInv'
  BY <1>1 DEF FailureInv, FailureLeavesNoOutput
<1> QED BY <1>2, <1>3

LEMMA OpenFailsControl ==
  ASSUME ControlInv, FailureInv, OpenFails
  PROVE  ControlInv' /\ FailureInv'
<1>1. pc = "open" /\ FileDone(0, out[cur])
  BY DEF OpenFails
<1>2. out[cur] \in {Absent, Old}
  BY <1>1 DEF FailureInv, ControlInv
<1> QED BY <1>1, <1>2, FileDoneControl

LEMMA OpenControl ==
  ASSUME ControlInv, FailureInv, Open
  PROVE  ControlInv' /\ FailureInv'
<1>1. /\ pc = "open" /\ mode \in {"encrypt", "decrypt"} /\ exit_val \in {0, 1}
  BY DEF Open, ControlInv
<1>2. /\ \E f \in InputFiles : inp' = [inp EXCEPT ![cur] = f]
      /\ out' = [out EXCEPT ![cur] = <<>>]
      /\ pc' = IF mode = "encrypt" THEN "enc_header" ELSE "dec_header"
      /\ UNCHANGED <<mode, cur, exit_val, result, status>>
  BY DEF Open
<1>3. \/ pc' \in Encrypting /\ mode = "encrypt"
      \/ pc' \in Decrypting /\ mode = "decrypt"
  BY <1>1, <1>2 DEF Encrypting, Decrypting
<1> QED BY <1>1, <1>2, <1>3, WorkControl

\* A step of encrypt_file that goes on with the same file.
LEMMA EncWorkControl ==
  ASSUME ControlInv, FailureInv, pc \in Encrypting, pc' \in Encrypting,
         UNCHANGED <<inp, mode, cur, result, status>>, exit_val' \in {0, 1},
         out' = out \/ (\E file : out' = [out EXCEPT ![cur] = file])
  PROVE  ControlInv' /\ FailureInv'
<1>1. mode = "encrypt"
  BY DEF ControlInv
<1> QED BY <1>1, WorkControl

\* A step of decrypt_file that does.
LEMMA DecWorkControl ==
  ASSUME ControlInv, FailureInv, pc \in Decrypting, pc' \in Decrypting,
         UNCHANGED <<inp, mode, cur, result, status>>, exit_val' \in {0, 1},
         out' = out \/ (\E file : out' = [out EXCEPT ![cur] = file])
  PROVE  ControlInv' /\ FailureInv'
<1>1. mode = "decrypt"
  BY DEF ControlInv
<1> QED BY <1>1, WorkControl

LEMMA EncHeaderControl ==
  ASSUME ControlInv, FailureInv, EncHeader
  PROVE  ControlInv' /\ FailureInv'
<1>1. PICK w : /\ out' = [out EXCEPT ![cur] = w.file]
               /\ exit_val' = AfterWrite(w, 1)
               /\ pc' = IF exit_val' = 0 THEN "enc_tag" ELSE "enc_loop"
  BY DEF EncHeader
<1>2. exit_val' \in {0, 1}
  BY <1>1 DEF AfterWrite
<1>3. /\ pc \in Encrypting /\ pc' \in Encrypting
      /\ UNCHANGED <<inp, mode, cur, result, status>>
  BY <1>1 DEF EncHeader, Encrypting
<1> QED BY <1>1, <1>2, <1>3, EncWorkControl

LEMMA EncStepControl ==
  ASSUME ControlInv, FailureInv, EncStep
  PROVE  ControlInv' /\ FailureInv'
<1>1. /\ pc \in Encrypting /\ exit_val \in {0, 1}
      /\ UNCHANGED <<inp, mode, cur, result, status>>
  BY DEF EncStep, Encrypting, ControlInv
<1>2. /\ pc' \in Encrypting
      /\ exit_val' = 0 \/ exit_val' = exit_val
      /\ out' = out \/ \E file : out' = [out EXCEPT ![cur] = file]
  BY Zenon DEF EncStep, Encrypting, AfterWrite
<1>3. exit_val' \in {0, 1}
  BY <1>1, <1>2
<1> QED BY <1>1, <1>2, <1>3, EncWorkControl

LEMMA EncTagControl ==
  ASSUME ControlInv, FailureInv, EncTag
  PROVE  ControlInv' /\ FailureInv'
<1>1. pc \notin {"main", "exit"}
  BY DEF EncTag
<1>2. CASE Cleanup(0, out[cur])
  BY <1>1, <1>2, CleanupControl
<1>3. CASE \E w \in safe_file_write(out[cur], TagOf(Encrypted(aead))) :
             Cleanup(AfterWrite(w, 1), w.file)
  <2>1. PICK w : Cleanup(AfterWrite(w, 1), w.file)
    BY <1>3
  <2>2. AfterWrite(w, 1) \in {0, 1}
    BY DEF AfterWrite
  <2> QED BY <1>1, <2>1, <2>2, CleanupControl
<1> QED BY <1>2, <1>3 DEF EncTag

LEMMA DecHeaderControl ==
  ASSUME ControlInv, FailureInv, DecHeader
  PROVE  ControlInv' /\ FailureInv'
<1>1. /\ pc \in Decrypting /\ pc' \in Decrypting /\ exit_val' \in {0, 1}
      /\ UNCHANGED <<inp, mode, cur, out, result, status>>
  BY DEF DecHeader, Decrypting
<1> QED BY <1>1, DecWorkControl

LEMMA DecStepControl ==
  ASSUME ControlInv, FailureInv, DecStep
  PROVE  ControlInv' /\ FailureInv'
<1>1. /\ pc \in Decrypting /\ exit_val \in {0, 1}
      /\ UNCHANGED <<inp, mode, cur, result, status>>
  BY DEF DecStep, Decrypting, ControlInv
<1>2. /\ pc' \in Decrypting
      /\ exit_val' = 0 \/ exit_val' = exit_val
      /\ out' = out \/ \E file : out' = [out EXCEPT ![cur] = file]
  BY Zenon DEF DecStep, Decrypting, AfterWrite
<1>3. exit_val' \in {0, 1}
  BY <1>1, <1>2
<1> QED BY <1>1, <1>2, <1>3, DecWorkControl

LEMMA DecTagControl ==
  ASSUME ControlInv, FailureInv, DecTag
  PROVE  ControlInv' /\ FailureInv'
<1>1. /\ pc \notin {"main", "exit"}
      /\ (IF data # TagOf(aead) THEN 0 ELSE exit_val) \in {0, 1}
  BY DEF DecTag, ControlInv
<1> QED BY <1>1, CleanupControl DEF DecTag

LEMMA GenerateControl ==
  ASSUME ControlInv, FailureInv, Generate
  PROVE  ControlInv' /\ FailureInv'
<1>1. CASE Exit(1)
  BY <1>1, ExitControl DEF Generate
<1>2. CASE ~Exit(1)
  <2>1. /\ pc = "main" /\ pc' = "exit"
        /\ UNCHANGED <<inp, mode, cur, result, exit_val>>
        /\ \E file : out' = [out EXCEPT ![1] = file]
    BY <1>2 DEF Generate, fileVars
  <2>2. cur = 1 /\ \A a \in Arg : result[a] = -1
    BY <2>1 DEF ControlInv, Arg
  <2>3. \A a \in Arg : result'[a] # 0
    BY <2>1, <2>2
  <2>4. ControlInv'
    BY <2>1 DEF ControlInv, Encrypting, Decrypting
  <2>5. FailureInv'
    BY <2>1, <2>3 DEF FailureInv, FailureLeavesNoOutput
  <2> QED BY <2>4, <2>5
<1> QED BY <1>1, <1>2

LEMMA NextControl ==
  ASSUME ControlInv, FailureInv, [Next]_vars
  PROVE  ControlInv' /\ FailureInv'
<1>1. CASE Detect          BY <1>1, DetectControl
<1>2. CASE NoPassword      BY <1>2, ExitControl DEF NoPassword
<1>3. CASE Password        BY <1>3, PasswordControl
<1>4. CASE OpenFails       BY <1>4, OpenFailsControl
<1>5. CASE Open            BY <1>5, OpenControl
<1>6. CASE NoRandom
  <2>1. pc \notin {"main", "exit"} /\ Cleanup(0, out[cur])
    BY <1>6 DEF NoRandom
  <2> QED BY <2>1, CleanupControl
<1>7. CASE EncHeader       BY <1>7, EncHeaderControl
<1>8. CASE EncStep         BY <1>8, EncStepControl
<1>9. CASE EncTag          BY <1>9, EncTagControl
<1>10. CASE DecHeaderFails
  <2>1. pc \notin {"main", "exit"} /\ Cleanup(0, out[cur])
    BY <1>10 DEF DecHeaderFails
  <2> QED BY <2>1, CleanupControl
<1>11. CASE DecHeader      BY <1>11, DecHeaderControl
<1>12. CASE DecStep        BY <1>12, DecStepControl
<1>13. CASE DecTag         BY <1>13, DecTagControl
<1>14. CASE Generate       BY <1>14, GenerateControl
<1>15. CASE UNCHANGED vars
  BY <1>15 DEF vars, ControlInv, FailureInv, FailureLeavesNoOutput
<1> QED
  BY <1>1, <1>2, <1>3, <1>4, <1>5, <1>6, <1>7, <1>8, <1>9, <1>10, <1>11, <1>12,
     <1>13, <1>14, <1>15 DEF Next

(***************************************************************************)
(* ControlInvariant: what the program works on and which results it has,   *)
(* and that the outputs it has not opened yet are as they were: the        *)
(* inductive invariant behind FailureLeavesNoOutput.                       *)
(***************************************************************************)
THEOREM ControlInvariant == Spec => [](ControlInv /\ FailureInv)
<1>1. Init => ControlInv /\ FailureInv
  BY ControlInit
<1>2. (ControlInv /\ FailureInv) /\ [Next]_vars => (ControlInv /\ FailureInv)'
  BY NextControl
<1> QED BY <1>1, <1>2, PTL DEF Spec

(***************************************************************************)
(* FailureIsClean: when encrypt_file or decrypt_file fails, whichever of   *)
(* its steps it was, the cleanup leaves no partial output behind, and the  *)
(* exit status tells.                                                      *)
(***************************************************************************)
THEOREM FailureIsClean == Spec => []FailureLeavesNoOutput
<1>1. FailureInv => FailureLeavesNoOutput
  BY DEF FailureInv
<1> QED BY <1>1, ControlInvariant, PTL

-----------------------------------------------------------------------------
(* Reads and writes.                                                       *)

LEMMA ReadResult ==
  ASSUME NEW file, IsSequence(file), NEW len \in Nat \ {0},
         NEW r \in safe_file_read(file, len)
  PROVE  \E got, left :
           /\ r.got = got /\ r.rest = left
           /\ IsSequence(got) /\ IsSequence(left)
           /\ file = got \o left
           /\ r.ret \in Nat \cup {-1}
           /\ r.ret \in Nat => r.ret = Len(got)
           /\ r.ret \in Nat /\ r.ret < len => left = <<>>
           /\ r.ret = 0 => file = <<>>
<1> DEFINE n == ShorterOf(len, Len(file))
           ok == [ret |-> n, got |-> SubSeq(file, 1, n),
                  rest |-> SubSeq(file, n + 1, Len(file))]
           fault == [ret |-> -1, got |-> <<>>, rest |-> file]
<1>1. Len(file) \in Nat /\ n \in 0 .. Len(file) /\ n <= len
      /\ (n < len => n = Len(file)) /\ (n = 0 => Len(file) = 0)
  BY SequenceLength DEF ShorterOf
<1>2. r = ok \/ r = fault
  BY DEF safe_file_read
<1>3. CASE r = ok
  <2>1. /\ IsSequence(SubSeq(file, 1, n)) /\ Len(SubSeq(file, 1, n)) = n
    <3> HIDE DEF n
    <3>1. 1 \in 1 .. Len(file) + 1 /\ n \in 1 - 1 .. Len(file) /\ n - 1 + 1 = n
      BY <1>1
    <3>2. Len(SubSeq(file, 1, n)) = n - 1 + 1 /\ IsSequence(SubSeq(file, 1, n))
      BY <3>1, Subsequence
    <3> QED BY <3>1, <3>2
  <2>2. /\ IsSequence(SubSeq(file, n + 1, Len(file)))
        /\ Len(SubSeq(file, n + 1, Len(file))) = Len(file) - n
    <3> HIDE DEF n
    <3>1. /\ n + 1 \in 1 .. Len(file) + 1 /\ Len(file) \in (n + 1) - 1 .. Len(file)
          /\ Len(file) - (n + 1) + 1 = Len(file) - n
      BY <1>1
    <3>2. /\ IsSequence(SubSeq(file, n + 1, Len(file)))
          /\ Len(SubSeq(file, n + 1, Len(file))) = Len(file) - (n + 1) + 1
      BY <3>1, Subsequence
    <3> QED BY <3>1, <3>2
  <2>3. file = SubSeq(file, 1, n) \o SubSeq(file, n + 1, Len(file))
    <3> HIDE DEF n
    <3> QED BY <1>1, Cut
  <2>4. n < len => SubSeq(file, n + 1, Len(file)) = <<>>
    <3> HIDE DEF n
    <3>1. n < len => Len(SubSeq(file, n + 1, Len(file))) = 0
      BY <1>1, <2>2
    <3> QED BY <2>2, <3>1, LengthZero
  <2>5. n = 0 => file = <<>>
    <3> HIDE DEF n
    <3> QED BY <1>1, LengthZero
  <2>6. /\ r.ret = n /\ r.got = SubSeq(file, 1, n)
        /\ r.rest = SubSeq(file, n + 1, Len(file))
    BY <1>3
  <2>7. n \in Nat
    BY <1>1
  <2> DEFINE got == SubSeq(file, 1, n)
             left == SubSeq(file, n + 1, Len(file))
  <2> HIDE DEF n
  <2>8. /\ r.ret = n /\ r.got = got /\ r.rest = left
        /\ IsSequence(got) /\ Len(got) = n /\ IsSequence(left)
        /\ file = got \o left
        /\ n < len => left = <<>>
        /\ n = 0 => file = <<>>
    BY <2>1, <2>2, <2>3, <2>4, <2>5, <2>6
  <2> HIDE DEF got, left
  <2> QED BY <2>7, <2>8
<1>4. CASE r = fault
  <2>1. r.ret = -1 /\ r.got = <<>> /\ r.rest = file
    BY <1>4
  <2> DEFINE got == <<>>
             left == file
  <2>2. /\ r.ret = -1 /\ r.got = got /\ r.rest = left
        /\ IsSequence(got) /\ IsSequence(left)
        /\ file = got \o left
    BY <2>1, ConcatenatedEmpty, EmptySequence
  <2> HIDE DEF got, left
  <2> QED BY <2>2
<1> QED BY <1>2, <1>3, <1>4

LEMMA WriteResult ==
  ASSUME ~WriteFaults, NEW file, NEW bytes, NEW w \in safe_file_write(file, bytes)
  PROVE  w.ret = Len(bytes) /\ w.file = file \o bytes
BY DEF safe_file_write

(* Ciphertexts, tags and plaintexts.                                       *)

LEMMA EncryptedItems ==
  ASSUME NEW m, IsSequence(m)
  PROVE  /\ IsSequence(Encrypted(m)) /\ Len(Encrypted(m)) = Len(m)
         /\ \A i \in 1 .. Len(m) : Encrypted(m)[i] = <<"c", i, m[i]>>
<1>1. Len(m) \in Nat /\ DOMAIN m = 1 .. Len(m)
  BY SequenceLength
<1>2. Encrypted(m) = [i \in 1 .. Len(m) |-> <<"c", i, m[i]>>]
  BY <1>1 DEF Encrypted
<1>3. Encrypted(m) = [i \in 1 .. Len(m) |-> Encrypted(m)[i]]
  BY <1>2
<1>4. IsSequence(Encrypted(m)) /\ Len(Encrypted(m)) = Len(m)
  BY <1>1, <1>3, FunctionSequence
<1> QED BY <1>2, <1>4

LEMMA TagItems ==
  ASSUME NEW c
  PROVE  /\ IsSequence(TagOf(c)) /\ Len(TagOf(c)) = TAG_SIZE
         /\ \A j \in 1 .. TAG_SIZE : TagOf(c)[j] = <<"t", j, c>>
<1>1. TAG_SIZE \in Nat
  BY AsconcryptAssumption
<1>2. TagOf(c) = [j \in 1 .. TAG_SIZE |-> TagOf(c)[j]]
  BY DEF TagOf
<1>3. IsSequence(TagOf(c)) /\ Len(TagOf(c)) = TAG_SIZE
  BY <1>1, <1>2, FunctionSequence
<1> QED BY <1>3 DEF TagOf

LEMMA PlainItems ==
  ASSUME NEW n \in PlainLengths
  PROVE  IsSequence(Plain(n)) /\ Len(Plain(n)) = n /\ n \in Nat
<1>1. n \in Nat
  BY AsconcryptAssumption
<1>2. Plain(n) = [i \in 1 .. n |-> Plain(n)[i]]
  BY DEF Plain
<1> QED BY <1>1, <1>2, FunctionSequence

LEMMA SealedItems ==
  ASSUME NEW m, IsSequence(m)
  PROVE  /\ IsSequence(Sealed(m)) /\ Len(Sealed(m)) = Len(m) + TAG_SIZE
         /\ \A i \in 1 .. Len(m) : Sealed(m)[i] = <<"c", i, m[i]>>
         /\ \A j \in 1 .. TAG_SIZE :
              Sealed(m)[Len(m) + j] = <<"t", j, Encrypted(m)>>
<1> DEFINE e == Encrypted(m)
           t == TagOf(e)
<1>1. /\ IsSequence(e) /\ Len(e) = Len(m)
      /\ \A i \in 1 .. Len(m) : e[i] = <<"c", i, m[i]>>
  BY EncryptedItems
<1>2. /\ IsSequence(t) /\ Len(t) = TAG_SIZE
      /\ \A j \in 1 .. TAG_SIZE : t[j] = <<"t", j, e>>
  BY TagItems
<1>3. Sealed(m) = e \o t
  BY DEF Sealed
<1> HIDE DEF t
<1>4. /\ IsSequence(e \o t) /\ Len(e \o t) = Len(e) + Len(t)
      /\ \A i \in 1 .. Len(e) : (e \o t)[i] = e[i]
      /\ \A i \in 1 .. Len(t) : (e \o t)[Len(e) + i] = t[i]
  <2> HIDE DEF e
  <2>1. IsSequence(e)
    BY <1>1
  <2>2. IsSequence(t)
    BY <1>2
  <2> QED BY <2>1, <2>2, Concatenated
<1> HIDE DEF e
<1>5. \A i \in 1 .. Len(m) : Sealed(m)[i] = <<"c", i, m[i]>>
  BY <1>1, <1>3, <1>4
<1>6. \A j \in 1 .. TAG_SIZE : Sealed(m)[Len(m) + j] = <<"t", j, e>>
  BY <1>1, <1>2, <1>3, <1>4
<1>7. IsSequence(Sealed(m)) /\ Len(Sealed(m)) = Len(m) + TAG_SIZE
  BY <1>1, <1>2, <1>3, <1>4
<1> QED BY <1>5, <1>6, <1>7 DEF e

\* What encrypt_file writes for one block is the rest of the ciphertext.
LEMMA EncryptedPiece ==
  ASSUME NEW a, NEW b, IsSequence(a), IsSequence(b)
  PROVE  LET e == Encrypted(a \o b)
             c == SubSeq(e, Len(a) + 1, Len(a \o b))
         IN  /\ IsSequence(c) /\ Len(c) = Len(b)
             /\ Encrypted(a \o b) = Encrypted(a) \o c
<1> DEFINE m == a \o b
           e == Encrypted(m)
           n == Len(a)
           c == SubSeq(e, n + 1, Len(m))
<1>1. /\ IsSequence(m) /\ Len(m) = n + Len(b)
      /\ \A i \in 1 .. n : m[i] = a[i]
  BY Concatenated
<1>2. n \in Nat /\ Len(b) \in Nat
  BY SequenceLength
<1>3. /\ IsSequence(e) /\ Len(e) = Len(m)
      /\ \A i \in 1 .. Len(m) : e[i] = <<"c", i, m[i]>>
  <2> HIDE DEF m
  <2>1. IsSequence(m)
    BY <1>1
  <2> QED BY <2>1, EncryptedItems
<1>4. /\ IsSequence(Encrypted(a)) /\ Len(Encrypted(a)) = n
      /\ \A i \in 1 .. n : Encrypted(a)[i] = <<"c", i, a[i]>>
  BY EncryptedItems
<1> HIDE DEF m, e, n
<1>5. n \in 0 .. Len(e) /\ 1 \in 1 .. Len(e) + 1 /\ n \in 1 - 1 .. Len(e)
      /\ n + 1 \in 1 .. Len(e) + 1 /\ Len(e) \in (n + 1) - 1 .. Len(e)
      /\ n - 1 + 1 = n /\ Len(e) - (n + 1) + 1 = Len(b)
  BY <1>1, <1>2, <1>3
<1>6. IsSequence(e)
  BY <1>3
<1>7. e = SubSeq(e, 1, n) \o SubSeq(e, n + 1, Len(e))
  BY <1>5, <1>6, Cut
<1>8. /\ IsSequence(SubSeq(e, 1, n)) /\ Len(SubSeq(e, 1, n)) = n - 1 + 1
      /\ \A i \in 1 .. n - 1 + 1 : SubSeq(e, 1, n)[i] = e[1 + i - 1]
  BY <1>5, <1>6, Subsequence
<1>9. SubSeq(e, 1, n) = Encrypted(a)
  <2>1. \A i \in 1 .. n : i \in 1 .. Len(m) /\ 1 + i - 1 = i
    BY <1>1, <1>2
  <2>2. \A i \in 1 .. n : SubSeq(e, 1, n)[i] = Encrypted(a)[i]
    BY <1>1, <1>3, <1>4, <1>5, <1>8, <2>1
  <2>3. Len(SubSeq(e, 1, n)) = Len(Encrypted(a)) /\ Len(SubSeq(e, 1, n)) = n
    BY <1>4, <1>5, <1>8
  <2> QED BY <1>4, <1>8, <2>2, <2>3, SameSequence
<1>10. /\ IsSequence(SubSeq(e, n + 1, Len(e)))
       /\ Len(SubSeq(e, n + 1, Len(e))) = Len(e) - (n + 1) + 1
  BY <1>5, <1>6, Subsequence
<1>11. IsSequence(c) /\ Len(c) = Len(b) /\ e = Encrypted(a) \o c
  BY <1>3, <1>5, <1>7, <1>9, <1>10
<1> QED BY <1>11 DEF c, e, m, n

LEMMA DecryptedAllItems ==
  ASSUME NEW c, IsSequence(c)
  PROVE  /\ IsSequence(DecryptedAll(c)) /\ Len(DecryptedAll(c)) = Len(c)
         /\ \A i \in 1 .. Len(c) : DecryptedAll(c)[i] = Decrypted(c[i], i)
<1>1. Len(c) \in Nat
  BY SequenceLength
<1>2. DecryptedAll(c) = [i \in 1 .. Len(c) |-> DecryptedAll(c)[i]]
  BY DEF DecryptedAll
<1>3. IsSequence(DecryptedAll(c)) /\ Len(DecryptedAll(c)) = Len(c)
  BY <1>1, <1>2, FunctionSequence
<1> QED BY <1>3 DEF DecryptedAll

\* What decrypt_file writes for one block is the rest of the plaintext.
LEMMA DecryptedPiece ==
  ASSUME NEW a, NEW x, NEW n \in Nat, IsSequence(a), IsSequence(x), Len(x) = n,
         NEW m, m = [i \in 1 .. n |-> Decrypted(x[i], Len(a) + i)]
  PROVE  IsSequence(m) /\ Len(m) = n /\ DecryptedAll(a \o x) = DecryptedAll(a) \o m
<1>1. /\ IsSequence(m) /\ Len(m) = n
      /\ \A i \in 1 .. n : m[i] = Decrypted(x[i], Len(a) + i)
  <2>1. m = [i \in 1 .. n |-> m[i]]
    OBVIOUS
  <2>2. IsSequence(m) /\ Len(m) = n
    BY <2>1, FunctionSequence
  <2> QED BY <2>2
<1>2. /\ IsSequence(a \o x) /\ Len(a \o x) = Len(a) + n
      /\ \A i \in 1 .. Len(a) : (a \o x)[i] = a[i]
      /\ \A i \in 1 .. n : (a \o x)[Len(a) + i] = x[i]
  BY Concatenated
<1> DEFINE d == DecryptedAll(a \o x)
           l == DecryptedAll(a)
<1>3. /\ IsSequence(d) /\ Len(d) = Len(a) + n
      /\ \A i \in 1 .. Len(a) + n : d[i] = Decrypted((a \o x)[i], i)
  BY <1>2, DecryptedAllItems
<1>4. /\ IsSequence(l) /\ Len(l) = Len(a)
      /\ \A i \in 1 .. Len(a) : l[i] = Decrypted(a[i], i)
  BY DecryptedAllItems
<1>5. Len(a) \in Nat
  BY SequenceLength
<1> HIDE DEF d, l
<1>6. /\ IsSequence(l \o m) /\ Len(l \o m) = Len(l) + Len(m)
      /\ \A i \in 1 .. Len(l) : (l \o m)[i] = l[i]
      /\ \A i \in 1 .. Len(m) : (l \o m)[Len(l) + i] = m[i]
  <2>1. IsSequence(l)
    BY <1>4
  <2>2. IsSequence(m)
    BY <1>1
  <2> QED BY <2>1, <2>2, Concatenated
<1>7. \A i \in 1 .. Len(a) : d[i] = (l \o m)[i]
  BY <1>2, <1>3, <1>4, <1>5, <1>6
<1>8. \A i \in 1 .. n : d[Len(a) + i] = (l \o m)[Len(a) + i]
  <2> TAKE i \in 1 .. n
  <2>1. Len(a) + i \in 1 .. Len(a) + n
    BY <1>5
  <2>2. d[Len(a) + i] = Decrypted((a \o x)[Len(a) + i], Len(a) + i)
    BY <1>3, <2>1
  <2>3. (a \o x)[Len(a) + i] = x[i] /\ m[i] = Decrypted(x[i], Len(a) + i)
    BY <1>1, <1>2
  <2>4. (l \o m)[Len(a) + i] = m[i]
    BY <1>1, <1>4, <1>6
  <2> QED BY <2>2, <2>3, <2>4
<1>9. \A i \in 1 .. Len(d) : d[i] = (l \o m)[i]
  <2> TAKE i \in 1 .. Len(d)
  <2>1. i \in 1 .. Len(a) \/ i - Len(a) \in 1 .. n
    BY <1>3, <1>5
  <2>2. Len(a) + (i - Len(a)) = i
    BY <1>3, <1>5
  <2> QED BY <1>7, <1>8, <2>1, <2>2
<1>10. Len(d) = Len(l \o m)
  BY <1>1, <1>3, <1>4, <1>6
<1>11. d = l \o m
  BY <1>3, <1>6, <1>9, <1>10, SameSequence
<1> QED BY <1>1, <1>11 DEF d, l

\* Decryption undoes encryption.
LEMMA DecryptedEncrypted ==
  ASSUME NEW m, IsSequence(m)
  PROVE  DecryptedAll(Encrypted(m)) = m
<1> DEFINE e == Encrypted(m)
<1>1. /\ IsSequence(e) /\ Len(e) = Len(m)
      /\ \A i \in 1 .. Len(m) : e[i] = <<"c", i, m[i]>>
  BY EncryptedItems
<1> HIDE DEF e
<1>2. /\ IsSequence(DecryptedAll(e)) /\ Len(DecryptedAll(e)) = Len(e)
      /\ \A i \in 1 .. Len(e) : DecryptedAll(e)[i] = Decrypted(e[i], i)
  BY <1>1, DecryptedAllItems
<1>3. \A i \in 1 .. Len(m) : Decrypted(e[i], i) = m[i]
  BY <1>1 DEF Decrypted
<1>4. DecryptedAll(e) = m
  BY <1>1, <1>2, <1>3, SameSequence
<1> QED BY <1>4 DEF e

(* What the input may be.                                                  *)

WholeBody(f) == f.body = Sealed(f.of)
CutBody(f) == \E k \in 0 .. Len(Sealed(f.of)) - 1 : f.body = SubSeq(Sealed(f.of), 1, k)
DamagedBody(f) == \E i \in 1 .. Len(Sealed(f.of)) : f.body = Damaged(Sealed(f.of), i)

LEMMA InputForms ==
  ASSUME NEW f \in InputFiles
  PROVE  \E n \in PlainLengths :
           /\ f.of = Plain(n)
           /\ f.body = Plain(n) \/ WholeBody(f) \/ CutBody(f) \/ DamagedBody(f)
           /\ f.head = "ok" => WholeBody(f) \/ CutBody(f) \/ DamagedBody(f)
<1> DEFINE File(n, head, body) == [head |-> head, body |-> body, of |-> Plain(n)]
<1>1. PICK n \in PlainLengths :
        LET s == Sealed(Plain(n))
        IN  f \in {File(n, "bad", Plain(n)), File(n, "other_password", s), File(n, "ok", s)}
               \cup {File(n, "ok", SubSeq(s, 1, k)) : k \in 0 .. Len(s) - 1}
               \cup {File(n, "ok", Damaged(s, i)) : i \in DOMAIN s}
  BY DEF InputFiles
<1> DEFINE s == Sealed(Plain(n))
<1>2. f.of = Plain(n)
  BY <1>1
<1>3. DOMAIN s = 1 .. Len(s)
  <2>1. IsSequence(s)
    BY PlainItems, SealedItems
  <2> QED BY <2>1, SequenceLength
<1>4. CASE f = File(n, "bad", Plain(n))
  BY <1>2, <1>4
<1>5. CASE f = File(n, "other_password", s) \/ f = File(n, "ok", s)
  BY <1>2, <1>5 DEF WholeBody
<1>6. CASE \E k \in 0 .. Len(s) - 1 : f = File(n, "ok", SubSeq(s, 1, k))
  BY <1>2, <1>6 DEF CutBody
<1>7. CASE \E i \in DOMAIN s : f = File(n, "ok", Damaged(s, i))
  BY <1>2, <1>3, <1>7 DEF DamagedBody
<1> QED BY <1>1, <1>4, <1>5, <1>6, <1>7

LEMMA CutItems ==
  ASSUME NEW s, IsSequence(s), NEW k \in 0 .. Len(s)
  PROVE  /\ IsSequence(SubSeq(s, 1, k)) /\ Len(SubSeq(s, 1, k)) = k
         /\ \A i \in 1 .. k : SubSeq(s, 1, k)[i] = s[i]
<1>1. Len(s) \in Nat
  BY SequenceLength
<1>2. /\ 1 \in 1 .. Len(s) + 1 /\ k \in 1 - 1 .. Len(s) /\ k - 1 + 1 = k
      /\ \A i \in 1 .. k : 1 + i - 1 = i
  BY <1>1
<1>3. /\ IsSequence(SubSeq(s, 1, k)) /\ Len(SubSeq(s, 1, k)) = k - 1 + 1
      /\ \A i \in 1 .. k - 1 + 1 : SubSeq(s, 1, k)[i] = s[1 + i - 1]
  BY <1>2, Subsequence
<1> QED BY <1>2, <1>3

LEMMA DamagedItems ==
  ASSUME NEW s, IsSequence(s), NEW i \in 1 .. Len(s)
  PROVE  /\ IsSequence(Damaged(s, i)) /\ Len(Damaged(s, i)) = Len(s)
         /\ Damaged(s, i)[i] = <<"x", i, <<>>>>
         /\ \A j \in 1 .. Len(s) : j # i => Damaged(s, i)[j] = s[j]
<1>1. Len(s) \in Nat /\ DOMAIN s = 1 .. Len(s)
  BY SequenceLength
<1> DEFINE d == Damaged(s, i)
<1>2. d = [j \in 1 .. Len(s) |-> IF j = i THEN <<"x", i, <<>>>> ELSE s[j]]
  BY <1>1 DEF Damaged
<1>3. d = [j \in 1 .. Len(s) |-> d[j]]
  BY <1>2
<1>4. /\ d[i] = <<"x", i, <<>>>>
      /\ \A j \in 1 .. Len(s) : j # i => d[j] = s[j]
  BY <1>2
<1> HIDE DEF d
<1>5. IsSequence(d) /\ Len(d) = Len(s)
  BY <1>1, <1>3, FunctionSequence
<1> QED BY <1>4, <1>5 DEF d

LEMMA BodyIsSequence ==
  ASSUME NEW f \in InputFiles
  PROVE  IsSequence(f.body)
<1>1. PICK n \in PlainLengths :
        /\ f.of = Plain(n)
        /\ f.body = Plain(n) \/ WholeBody(f) \/ CutBody(f) \/ DamagedBody(f)
  BY InputForms
<1>2. IsSequence(Plain(n))
  BY PlainItems
<1> DEFINE s == Sealed(f.of)
<1>3. IsSequence(s)
  BY <1>1, <1>2, SealedItems
<1>4. CASE WholeBody(f)
  BY <1>3, <1>4 DEF WholeBody
<1> HIDE DEF s
<1>5. Len(s) \in Nat
  BY <1>3, SequenceLength
<1>6. CASE CutBody(f)
  <2>1. PICK k \in 0 .. Len(s) - 1 : f.body = SubSeq(s, 1, k)
    BY <1>6 DEF CutBody, s
  <2>2. k \in 0 .. Len(s)
    BY <1>5
  <2> QED BY <1>3, <2>1, <2>2, CutItems
<1>7. CASE DamagedBody(f)
  <2>1. PICK i \in 1 .. Len(s) : f.body = Damaged(s, i)
    BY <1>7 DEF DamagedBody, s
  <2> QED BY <1>3, <2>1, DamagedItems
<1> QED BY <1>1, <1>2, <1>4, <1>6, <1>7

\* Bytes of different kinds differ.
LEMMA KindTells ==
  ASSUME NEW i, NEW j, NEW x, NEW y, NEW k, NEW l, <<k, i, x>> = <<l, j, y>>
  PROVE  k = l
<1>1. <<k, i, x>>[1] = k /\ <<l, j, y>>[1] = l
  OBVIOUS
<1> QED BY <1>1

\* A tag byte tells which ciphertext it is for.
LEMMA TagTells ==
  ASSUME NEW j, NEW a, NEW e, <<"t", j, a>> = <<"t", j, e>>
  PROVE  a = e
<1>1. <<"t", j, a>>[3] = a /\ <<"t", j, e>>[3] = e
  OBVIOUS
<1> QED BY <1>1

(***************************************************************************)
(* A payload that ends in the tag of what comes before is the sealed file, *)
(* uncut and undamaged: no prefix of it and no altered copy passes.        *)
(***************************************************************************)
LEMMA AuthenticIsWhole ==
  ASSUME NEW f \in InputFiles, f.head = "ok",
         NEW a, IsSequence(a), f.body = a \o TagOf(a)
  PROVE  f.body = Sealed(f.of) /\ a = Encrypted(f.of) /\ IsSequence(f.of)
<1>1. PICK n \in PlainLengths :
        /\ f.of = Plain(n)
        /\ WholeBody(f) \/ CutBody(f) \/ DamagedBody(f)
  BY InputForms
<1> DEFINE m == f.of
           e == Encrypted(m)
           s == Sealed(m)
           t == TagOf(a)
<1>2. IsSequence(m) /\ Len(m) = n /\ n \in Nat
  BY <1>1, PlainItems
<1>3. /\ IsSequence(e) /\ Len(e) = n
      /\ \A i \in 1 .. n : e[i] = <<"c", i, m[i]>>
  BY <1>2, EncryptedItems
<1>4. /\ IsSequence(s) /\ Len(s) = n + TAG_SIZE
      /\ \A i \in 1 .. n : s[i] = <<"c", i, m[i]>>
      /\ \A j \in 1 .. TAG_SIZE : s[n + j] = <<"t", j, e>>
  BY <1>2, SealedItems
<1>5. /\ IsSequence(t) /\ Len(t) = TAG_SIZE
      /\ \A j \in 1 .. TAG_SIZE : t[j] = <<"t", j, a>>
  BY TagItems
<1>6. Len(a) \in Nat /\ TAG_SIZE \in Nat \ {0}
  BY SequenceLength, AsconcryptAssumption
<1> HIDE DEF t
<1>7. IsSequence(t)
  BY <1>5
<1>8. /\ Len(a \o t) = Len(a) + Len(t)
      /\ \A i \in 1 .. Len(a) : (a \o t)[i] = a[i]
      /\ \A i \in 1 .. Len(t) : (a \o t)[Len(a) + i] = t[i]
  BY <1>7, Concatenated
<1>9. /\ Len(f.body) = Len(a) + TAG_SIZE
      /\ \A i \in 1 .. Len(a) : f.body[i] = a[i]
      /\ \A j \in 1 .. TAG_SIZE : f.body[Len(a) + j] = <<"t", j, a>>
  BY <1>5, <1>8 DEF t
<1>0. m = f.of /\ e = Encrypted(f.of) /\ s = Sealed(f.of)
  OBVIOUS
<1> HIDE DEF e, s, m
<1>10. CASE WholeBody(f)
  <2>1. f.body = s
    BY <1>0, <1>10 DEF WholeBody
  <2>2. Len(a) = n
    BY <1>2, <1>4, <1>6, <1>9, <2>1
  <2>3. \A i \in 1 .. n : a[i] = e[i]
    BY <1>3, <1>4, <1>9, <2>1, <2>2
  <2>4. a = e
    BY <1>3, <2>2, <2>3, SameSequence
  <2> QED BY <1>0, <1>2, <2>1, <2>4
<1>11. CASE CutBody(f)
  <2>1. PICK k \in 0 .. Len(s) - 1 : f.body = SubSeq(s, 1, k)
    BY <1>0, <1>11 DEF CutBody
  <2>2. k \in 0 .. Len(s) /\ k < n + TAG_SIZE
    BY <1>2, <1>4, <1>6
  <2>3. Len(f.body) = k /\ \A i \in 1 .. k : f.body[i] = s[i]
    BY <1>4, <2>1, <2>2, CutItems
  <2>4. Len(a) + 1 \in 1 .. k /\ Len(a) + 1 \in 1 .. n /\ 1 \in 1 .. TAG_SIZE
    BY <1>2, <1>6, <1>9, <2>2, <2>3
  <2>5. f.body[Len(a) + 1] = <<"t", 1, a>>
    BY <1>9, <2>4
  <2>6. f.body[Len(a) + 1] = <<"c", Len(a) + 1, m[Len(a) + 1]>>
    BY <1>4, <2>3, <2>4
  <2>7. "t" = "c"
    BY <2>5, <2>6, KindTells
  <2> QED BY <2>7
<1>12. CASE DamagedBody(f)
  <2>1. PICK i \in 1 .. Len(s) : f.body = Damaged(s, i)
    BY <1>0, <1>12 DEF DamagedBody
  <2>2. /\ Len(f.body) = Len(s) /\ f.body[i] = <<"x", i, <<>>>>
        /\ \A j \in 1 .. Len(s) : j # i => f.body[j] = s[j]
    BY <1>4, <2>1, DamagedItems
  <2>3. Len(a) = n
    BY <1>2, <1>4, <1>6, <1>9, <2>2
  <2>4. i \in Nat /\ i <= n + TAG_SIZE /\ i >= 1
    BY <1>2, <1>4, <1>6
  <2>5. CASE i > n
    <3>1. i - n \in 1 .. TAG_SIZE /\ n + (i - n) = i
      BY <1>2, <1>6, <2>4, <2>5
    <3>2. f.body[i] = <<"t", i - n, a>>
      BY <1>9, <2>3, <3>1
    <3> QED BY <2>2, <3>2
  <2>6. CASE i <= n
    <3>1. i \in 1 .. n /\ 1 \in 1 .. TAG_SIZE /\ n + 1 \in 1 .. Len(s) /\ n + 1 # i
      BY <1>2, <1>4, <1>6, <2>4, <2>6
    <3>2. f.body[n + 1] = <<"t", 1, e>> /\ f.body[n + 1] = <<"t", 1, a>>
      BY <1>4, <1>9, <2>2, <2>3, <3>1
    <3>3. a = e
      BY <3>2, TagTells
    <3>4. a[i] = <<"x", i, <<>>>> /\ e[i] = <<"c", i, m[i]>>
      BY <1>3, <1>9, <2>2, <2>3, <3>1
    <3> QED BY <3>3, <3>4
  <2> QED BY <1>2, <2>4, <2>5, <2>6
<1> QED BY <1>1, <1>10, <1>11, <1>12

-----------------------------------------------------------------------------
(* Success.                                                                *)

LEMMA ExactInit == ASSUME Init PROVE ExactInv
<1>1. SuccessIsExact
  BY DEF Init, SuccessIsExact, DecryptedIsWhole
<1>2. BodiesAreSequences
  BY EmptySequence DEF Init, BodiesAreSequences
<1>3. OpenedInv
  BY DEF Init, OpenedInv, Encrypting, Decrypting
<1>4. EncryptionInv /\ DecryptionInv
  BY DEF Init, EncryptionInv, DecryptionInv
<1> QED BY <1>1, <1>2, <1>3, <1>4 DEF ExactInv

\* A file that is done with success has its exact output.
LEMMA FileDoneExact ==
  ASSUME ControlInv, ExactInv, pc \notin {"main", "exit"},
         NEW r \in {0, 1}, NEW file, FileDone(r, file),
         r = 1 /\ mode = "encrypt" =>
           file = <<Header, SivBlock>> \o Sealed(inp[cur].body),
         r = 1 /\ mode = "decrypt" =>
           /\ inp[cur].head = "ok" /\ inp[cur].body = Sealed(inp[cur].of)
           /\ file = inp[cur].of
  PROVE  ExactInv'
<1>1. /\ out' = [out EXCEPT ![cur] = file]
      /\ result' = [result EXCEPT ![cur] = r]
      /\ pc' \in {"open", "exit"}
      /\ rest' = <<>> /\ data' = <<>> /\ aead' = <<>>
      /\ UNCHANGED <<inp, mode>>
  BY DEF FileDone
<1>2. cur \in Arg /\ mode \in {"encrypt", "decrypt"}
  BY DEF ControlInv, Encrypting, Decrypting
<1>3. /\ result'[cur] = r /\ out'[cur] = file
      /\ \A a \in Arg \ {cur} : result'[a] = result[a] /\ out'[a] = out[a]
  BY <1>1, <1>2 DEF ControlInv
<1>4. SuccessIsExact
  BY DEF ExactInv
<1>5. SuccessIsExact'
  <2>1. DecryptedIsWhole'
    BY <1>1, <1>3, <1>4 DEF SuccessIsExact, DecryptedIsWhole
  <2>2. \A a \in Arg : mode' = "encrypt" /\ result'[a] = 1 =>
          out'[a] = <<Header, SivBlock>> \o Sealed(inp'[a].body)
    <3> SUFFICES ASSUME NEW a \in Arg, mode' = "encrypt", result'[a] = 1
                 PROVE  out'[a] = <<Header, SivBlock>> \o Sealed(inp'[a].body)
      OBVIOUS
    <3>1. mode = "encrypt" /\ inp' = inp
      BY <1>1
    <3>2. CASE a = cur
      BY <1>3, <3>1, <3>2
    <3>3. CASE a # cur
      BY <1>3, <1>4, <3>1, <3>3 DEF SuccessIsExact
    <3> QED BY <3>2, <3>3
  <2>3. mode' # "generate"
    BY <1>1, <1>2
  <2> QED BY <2>1, <2>2, <2>3 DEF SuccessIsExact
<1>6. BodiesAreSequences'
  BY <1>1, EmptySequence DEF BodiesAreSequences
<1>7. OpenedInv'
  BY <1>1 DEF ExactInv, OpenedInv, Encrypting, Decrypting
<1>8. EncryptionInv' /\ DecryptionInv'
  BY <1>1 DEF EncryptionInv, DecryptionInv
<1> QED BY <1>5, <1>6, <1>7, <1>8 DEF ExactInv

\* A file that fails says nothing about its output.
LEMMA FileFailsExact ==
  ASSUME ControlInv, ExactInv, pc \notin {"main", "exit"},
         NEW file, FileDone(0, file)
  PROVE  ExactInv'
BY FileDoneExact

\* A step within a file leaves the outputs of the others alone.
LEMMA WorkSuccess ==
  ASSUME ControlInv, SuccessIsExact,
         pc \in {"open"} \cup Encrypting \cup Decrypting,
         UNCHANGED <<mode, result, status>>,
         \A a \in Arg \ {cur} : out'[a] = out[a] /\ inp'[a] = inp[a]
  PROVE  SuccessIsExact'
<1>1. /\ cur \in Arg /\ result[cur] = -1 /\ mode \in {"encrypt", "decrypt"}
  BY DEF ControlInv, Arg, Encrypting, Decrypting
<1>2. \A a \in Arg : result'[a] = 1 =>
        result[a] = 1 /\ out'[a] = out[a] /\ inp'[a] = inp[a]
  BY <1>1
<1>3. DecryptedIsWhole'
  BY <1>2 DEF SuccessIsExact, DecryptedIsWhole
<1>4. \A a \in Arg : mode' = "encrypt" /\ result'[a] = 1 =>
        out'[a] = <<Header, SivBlock>> \o Sealed(inp'[a].body)
  <2> SUFFICES ASSUME NEW a \in Arg, mode' = "encrypt", result'[a] = 1
               PROVE  out'[a] = <<Header, SivBlock>> \o Sealed(inp'[a].body)
    OBVIOUS
  <2>1. mode = "encrypt" /\ result[a] = 1 /\ out'[a] = out[a] /\ inp'[a] = inp[a]
    BY <1>2
  <2>2. out[a] = <<Header, SivBlock>> \o Sealed(inp[a].body)
    BY <2>1 DEF SuccessIsExact
  <2> QED BY <2>1, <2>2
<1>5. mode' # "generate"
  BY <1>1
<1> QED BY <1>3, <1>4, <1>5 DEF SuccessIsExact

\* A step of the main program before any file is opened.
LEMMA MainExact ==
  ASSUME ControlInv, ExactInv, pc = "main", pc' \in {"main", "open", "exit"},
         UNCHANGED <<inp, result>>, UNCHANGED fileVars,
         mode' = "generate" /\ status' = 0 => out'[1] = KeyLine
  PROVE  ExactInv'
<1>1. \A a \in Arg : result'[a] # 1
  BY DEF ControlInv, Arg
<1>2. SuccessIsExact'
  BY <1>1 DEF SuccessIsExact, DecryptedIsWhole
<1>3. UNCHANGED <<rest, data, aead>>
  BY DEF fileVars
<1>4. BodiesAreSequences'
  BY <1>3 DEF ExactInv, BodiesAreSequences
<1>5. OpenedInv'
  BY <1>3 DEF ExactInv, OpenedInv, Encrypting, Decrypting
<1>6. EncryptionInv' /\ DecryptionInv'
  BY DEF EncryptionInv, DecryptionInv
<1> QED BY <1>2, <1>4, <1>5, <1>6 DEF ExactInv

LEMMA DetectExact ==
  ASSUME ControlInv, ExactInv, Detect
  PROVE  ExactInv'
<1>1. /\ pc = "main" /\ pc' \in {"main", "exit"}
      /\ UNCHANGED <<inp, result>> /\ UNCHANGED fileVars
      /\ mode' # "generate"
  BY DEF Detect, DetectMode, Exit
<1> QED BY <1>1, MainExact

LEMMA NoPasswordExact ==
  ASSUME ControlInv, ExactInv, NoPassword
  PROVE  ExactInv'
BY MainExact DEF NoPassword, Exit

LEMMA PasswordExact ==
  ASSUME ControlInv, ExactInv, Password
  PROVE  ExactInv'
BY MainExact DEF Password

LEMMA GenerateExact ==
  ASSUME ControlInv, ExactInv, Generate, ~WriteFaults
  PROVE  ExactInv'
<1>1. /\ pc = "main" /\ pc' = "exit"
      /\ UNCHANGED <<inp, result>> /\ UNCHANGED fileVars
  BY DEF Generate, Exit
<1>2. CASE status' # 0
  BY <1>1, <1>2, MainExact
<1>3. CASE status' = 0
  <2>0. PICK w1 \in safe_file_write(<<>>, SubSeq(KeyLine, 1, 1)) :
          \E w2 \in safe_file_write(w1.file, SubSeq(KeyLine, 2, 2)) :
             out' = [out EXCEPT ![1] = w2.file]
    BY <1>3 DEF Generate, Exit
  <2>1. PICK w2 \in safe_file_write(w1.file, SubSeq(KeyLine, 2, 2)) :
          out' = [out EXCEPT ![1] = w2.file]
    BY <2>0
  <2>2. w1.file = <<>> \o SubSeq(KeyLine, 1, 1)
    BY WriteResult
  <2>3. w2.file = w1.file \o SubSeq(KeyLine, 2, 2)
    BY WriteResult
  <2>4. IsSequence(KeyLine) /\ Len(KeyLine) = 2
    <3>1. KeyLine = [i \in 1 .. 2 |-> KeyLine[i]]
      BY DEF KeyLine
    <3> QED BY <3>1, FunctionSequence
  <2>5. IsSequence(SubSeq(KeyLine, 1, 1))
    <3>1. 1 \in 0 .. Len(KeyLine)
      BY <2>4
    <3> QED BY <2>4, <3>1, CutItems
  <2>6. KeyLine = SubSeq(KeyLine, 1, 1) \o SubSeq(KeyLine, 1 + 1, Len(KeyLine))
    <3>1. 1 \in 0 .. Len(KeyLine)
      BY <2>4
    <3> QED BY <2>4, <3>1, Cut
  <2>7. KeyLine = SubSeq(KeyLine, 1, 1) \o SubSeq(KeyLine, 2, 2)
    BY <2>4, <2>6
  <2>8. w2.file = KeyLine
    BY <2>2, <2>3, <2>5, <2>7, ConcatenatedEmpty
  <2>9. 1 \in Arg /\ out = [a \in Arg |-> out[a]]
    BY <1>1, AsconcryptAssumption DEF ControlInv, Arg
  <2>10. out'[1] = KeyLine
    BY <2>1, <2>8, <2>9
  <2> QED BY <1>1, <2>10, MainExact
<1> QED BY <1>2, <1>3

(* The steps within a file.                                                *)

LEMMA OpenFailsExact ==
  ASSUME ControlInv, ExactInv, OpenFails
  PROVE  ExactInv'
<1>1. pc \notin {"main", "exit"} /\ FileDone(0, out[cur])
  BY DEF OpenFails
<1> QED BY <1>1, FileFailsExact

LEMMA OpenExact ==
  ASSUME ControlInv, ExactInv, Open
  PROVE  ExactInv'
<1>1. PICK f \in InputFiles : inp' = [inp EXCEPT ![cur] = f] /\ rest' = f.body
  BY DEF Open
<1>2. /\ pc = "open" /\ pc' \in {"enc_header", "dec_header"}
      /\ out' = [out EXCEPT ![cur] = <<>>]
      /\ UNCHANGED <<mode, cur, data, aead, result, status>>
  BY DEF Open
<1>3. cur \in Arg /\ aead = <<>> /\ IsSequence(data) /\ IsSequence(aead)
  BY <1>2 DEF ControlInv, ExactInv, OpenedInv, BodiesAreSequences
<1>4. /\ inp'[cur] = f /\ out'[cur] = <<>>
      /\ \A a \in Arg \ {cur} : inp'[a] = inp[a] /\ out'[a] = out[a]
  BY <1>1, <1>2, <1>3 DEF ControlInv
<1>5. SuccessIsExact'
  BY <1>2, <1>4, WorkSuccess DEF ExactInv
<1>6. BodiesAreSequences'
  BY <1>1, <1>2, <1>3, BodyIsSequence DEF BodiesAreSequences
<1>7. OpenedInv'
  <2>1. \A a \in Arg : inp'[a] \in InputFiles \cup {NotOpened}
    BY <1>4 DEF ExactInv, OpenedInv
  <2>2. cur' = cur /\ inp'[cur] \in InputFiles /\ out'[cur] = <<>>
        /\ rest' = inp'[cur].body /\ aead' = <<>> /\ pc' \notin {"main", "open"}
    BY <1>1, <1>2, <1>3, <1>4
  <2> QED BY <2>1, <2>2 DEF OpenedInv
<1>8. EncryptionInv' /\ DecryptionInv'
  BY <1>2 DEF EncryptionInv, DecryptionInv
<1> QED BY <1>5, <1>6, <1>7, <1>8 DEF ExactInv

LEMMA CleanupFailsExact ==
  ASSUME ControlInv, ExactInv, pc \notin {"main", "exit"}, Cleanup(0, out[cur])
  PROVE  ExactInv'
BY FileFailsExact DEF Cleanup

\* What is left to show of a step of encrypt_file that goes on with the file.
LEMMA EncWorkExact ==
  ASSUME ControlInv, ExactInv, pc \in Encrypting,
         pc' \in {"enc_loop", "enc_tag"},
         UNCHANGED <<inp, mode, cur, data, result, status>>,
         out' = out \/ (\E file : out' = [out EXCEPT ![cur] = file]),
         IsSequence(rest'), IsSequence(aead'),
         EncryptionInv'
  PROVE  ExactInv'
<1>1. \A a \in Arg \ {cur} : out'[a] = out[a] /\ inp'[a] = inp[a]
  BY DEF ControlInv
<1>2. SuccessIsExact'
  BY <1>1, WorkSuccess DEF ExactInv
<1>3. BodiesAreSequences'
  BY DEF ExactInv, BodiesAreSequences
<1>4. OpenedInv'
  BY DEF ExactInv, OpenedInv, Encrypting, Decrypting
<1>5. DecryptionInv'
  BY DEF DecryptionInv
<1> QED BY <1>2, <1>3, <1>4, <1>5 DEF ExactInv

LEMMA DecWorkExact ==
  ASSUME ControlInv, ExactInv, pc \in Decrypting,
         pc' \in {"dec_loop", "dec_tag"},
         UNCHANGED <<inp, mode, cur, result, status>>,
         out' = out \/ (\E file : out' = [out EXCEPT ![cur] = file]),
         IsSequence(rest'), IsSequence(aead'), IsSequence(data'),
         DecryptionInv'
  PROVE  ExactInv'
<1>1. \A a \in Arg \ {cur} : out'[a] = out[a] /\ inp'[a] = inp[a]
  BY DEF ControlInv
<1>2. SuccessIsExact'
  BY <1>1, WorkSuccess DEF ExactInv
<1>3. BodiesAreSequences'
  BY DEF ExactInv, BodiesAreSequences
<1>4. OpenedInv'
  BY DEF ExactInv, OpenedInv, Encrypting, Decrypting
<1>5. EncryptionInv'
  BY DEF EncryptionInv
<1> QED BY <1>2, <1>3, <1>4, <1>5 DEF ExactInv

LEMMA PairOfItems ==
  ASSUME NEW x, NEW y
  PROVE  IsSequence(<<x, y>>) /\ <<x>> \o <<y>> = <<x, y>>
<1> DEFINE p == <<x, y>>
           s == <<x>>
           t == <<y>>
<1>1. IsSequence(p) /\ Len(p) = 2 /\ p[1] = x /\ p[2] = y
  <2>1. p = [i \in 1 .. 2 |-> p[i]] /\ p[1] = x /\ p[2] = y
    OBVIOUS
  <2> HIDE DEF p
  <2> QED BY <2>1, FunctionSequence
<1>2. IsSequence(s) /\ Len(s) = 1 /\ s[1] = x
  BY SingleSequence
<1>3. IsSequence(t) /\ Len(t) = 1 /\ t[1] = y
  BY SingleSequence
<1> HIDE DEF p, s, t
<1>4. /\ IsSequence(s \o t) /\ Len(s \o t) = Len(s) + Len(t)
      /\ \A i \in 1 .. Len(s) : (s \o t)[i] = s[i]
      /\ \A i \in 1 .. Len(t) : (s \o t)[Len(s) + i] = t[i]
  <2>1. IsSequence(s) /\ IsSequence(t)
    BY <1>2, <1>3
  <2> QED BY ONLY <2>1, Concatenated, SMTT(30)
<1>5. Len(s \o t) = 2 /\ (s \o t)[1] = x /\ (s \o t)[1 + 1] = y
  <2>1. Len(s \o t) = 1 + 1
    BY ONLY <1>2, <1>3, <1>4
  <2>2. (s \o t)[1] = s[1]
    BY ONLY <1>2, <1>4
  <2>3. (s \o t)[1 + 1] = t[1]
    BY ONLY <1>2, <1>3, <1>4
  <2> QED BY ONLY <1>2, <1>3, <2>1, <2>2, <2>3
<1>6. \A i \in 1 .. Len(s \o t) : (s \o t)[i] = p[i]
  BY <1>1, <1>5
<1>7. s \o t = p
  BY <1>1, <1>4, <1>5, <1>6, SameSequence
<1> QED BY <1>1, <1>7 DEF p, s, t

LEMMA HeaderPair ==
  /\ IsSequence(<<Header, SivBlock>>)
  /\ (<<>> \o <<Header>>) \o <<SivBlock>> = <<Header, SivBlock>>
  /\ <<Header, SivBlock>> \o Encrypted(<<>>) = <<Header, SivBlock>>
<1> DEFINE p == <<Header, SivBlock>>
<1>1. IsSequence(p) /\ <<Header>> \o <<SivBlock>> = p
  BY PairOfItems
<1>2. IsSequence(<<Header>>)
  BY SingleSequence
<1>3. <<>> \o <<Header>> = <<Header>>
  BY <1>2, ConcatenatedEmpty
<1>4. Encrypted(<<>>) = <<>>
  BY EmptySequence, EncryptedItems, LengthZero
<1> HIDE DEF p
<1>5. p \o <<>> = p
  BY <1>1, ConcatenatedEmpty
<1> QED BY <1>1, <1>3, <1>4, <1>5 DEF p

LEMMA EncHeaderExact ==
  ASSUME ControlInv, ExactInv, EncHeader, ~WriteFaults
  PROVE  ExactInv'
<1>1. PICK w1 \in safe_file_write(out[cur], <<Header>>) :
        \E w2 \in safe_file_write(w1.file, <<SivBlock>>) :
          LET w == IF w1.ret = 0 THEN w1 ELSE w2 IN
          /\ out' = [out EXCEPT ![cur] = w.file]
          /\ pc' = IF exit_val' = 0 THEN "enc_tag" ELSE "enc_loop"
  BY DEF EncHeader
<1>2. w1.ret = 1 /\ w1.file = out[cur] \o <<Header>>
  BY WriteResult, SingleSequence, SMTT(30)
<1>3. PICK w2 \in safe_file_write(w1.file, <<SivBlock>>) :
        /\ out' = [out EXCEPT ![cur] = w2.file]
        /\ pc' = IF exit_val' = 0 THEN "enc_tag" ELSE "enc_loop"
  <2>1. PICK w2 \in safe_file_write(w1.file, <<SivBlock>>) :
          LET w == IF w1.ret = 0 THEN w1 ELSE w2 IN
          /\ out' = [out EXCEPT ![cur] = w.file]
          /\ pc' = IF exit_val' = 0 THEN "enc_tag" ELSE "enc_loop"
    BY <1>1
  <2>2. (IF w1.ret = 0 THEN w1 ELSE w2) = w2
    BY <1>2
  <2> QED BY <2>1, <2>2, Zenon
<1>4. w2.file = w1.file \o <<SivBlock>>
  BY WriteResult
<1>5. /\ pc = "enc_header" /\ pc \in Encrypting
      /\ UNCHANGED <<inp, mode, cur, rest, data, aead, result, status>>
  BY DEF EncHeader, Encrypting
<1>6. /\ cur \in Arg /\ out[cur] = <<>> /\ rest = inp[cur].body /\ aead = <<>>
      /\ IsSequence(rest) /\ IsSequence(aead)
  BY <1>5 DEF ControlInv, ExactInv, OpenedInv, BodiesAreSequences
<1>7. out'[cur] = <<Header, SivBlock>> \o Encrypted(aead)
  BY <1>2, <1>3, <1>4, <1>6, HeaderPair DEF ControlInv
<1>8. inp[cur].body = aead \o rest
  BY <1>6, ConcatenatedEmpty
<1>9. EncryptionInv'
  BY <1>3, <1>5, <1>7, <1>8 DEF EncryptionInv
<1>10. pc' \in {"enc_loop", "enc_tag"}
  BY <1>3
<1> QED BY <1>3, <1>5, <1>6, <1>9, <1>10, EncWorkExact

LEMMA EncStepExact ==
  ASSUME ControlInv, ExactInv, EncStep, ~WriteFaults
  PROVE  ExactInv'
<1>1. /\ pc = "enc_loop" /\ pc \in Encrypting /\ cur \in Arg
      /\ UNCHANGED <<inp, mode, cur, data, result, status>>
      /\ IsSequence(rest) /\ IsSequence(aead) /\ exit_val \in {0, 1}
  BY DEF EncStep, ControlInv, ExactInv, BodiesAreSequences, Encrypting
<1>2. exit_val = 1 => /\ inp[cur].body = aead \o rest
                      /\ out[cur] = <<Header, SivBlock>> \o Encrypted(aead)
  BY <1>1 DEF ExactInv, EncryptionInv
<1>3. BUFSIZ \in Nat \ {0}
  BY AsconcryptAssumption
<1>4. PICK r \in safe_file_read(rest, BUFSIZ) :
        \/ /\ r.ret <= 0
           /\ exit_val' = IF r.ret < 0 THEN 0 ELSE exit_val
           /\ pc' = "enc_tag"
           /\ UNCHANGED <<rest, aead, out>>
        \/ /\ r.ret > 0
           /\ exit_val' = 0 /\ pc' = "enc_tag"
           /\ rest' = r.rest /\ UNCHANGED <<aead, out>>
        \/ /\ r.ret > 0
           /\ LET m == aead \o r.got
                  c == SubSeq(Encrypted(m), Len(aead) + 1, Len(m))
              IN  \E w \in safe_file_write(out[cur], c) :
                     /\ out' = [out EXCEPT ![cur] = w.file]
                     /\ exit_val' = AfterWrite(w, exit_val)
                     /\ pc' = IF r.ret < BUFSIZ \/ exit_val' = 0
                              THEN "enc_tag" ELSE "enc_loop"
                     /\ rest' = r.rest /\ aead' = m
  BY DEF EncStep
<1>5. PICK got, left :
        /\ r.got = got /\ r.rest = left
        /\ IsSequence(got) /\ IsSequence(left)
        /\ rest = got \o left
        /\ r.ret \in Nat \cup {-1}
        /\ r.ret \in Nat /\ r.ret < BUFSIZ => left = <<>>
        /\ r.ret = 0 => rest = <<>>
  BY <1>1, <1>3, ReadResult
<1>6. CASE /\ r.ret <= 0
           /\ exit_val' = IF r.ret < 0 THEN 0 ELSE exit_val
           /\ pc' = "enc_tag"
           /\ UNCHANGED <<rest, aead, out>>
  <2>1. exit_val' = 1 => exit_val = 1 /\ rest = <<>>
    BY <1>5, <1>6
  <2>2. EncryptionInv'
    BY <1>1, <1>2, <1>6, <2>1 DEF EncryptionInv
  <2> QED BY <1>1, <1>6, <2>2, EncWorkExact
<1>7. CASE /\ exit_val' = 0 /\ pc' = "enc_tag"
           /\ rest' = r.rest /\ UNCHANGED <<aead, out>>
  <2>1. EncryptionInv'
    BY <1>7 DEF EncryptionInv
  <2> QED BY <1>1, <1>5, <1>7, <2>1, EncWorkExact
<1>8. CASE /\ r.ret > 0
           /\ LET m == aead \o r.got
                  c == SubSeq(Encrypted(m), Len(aead) + 1, Len(m))
              IN  \E w \in safe_file_write(out[cur], c) :
                     /\ out' = [out EXCEPT ![cur] = w.file]
                     /\ exit_val' = AfterWrite(w, exit_val)
                     /\ pc' = IF r.ret < BUFSIZ \/ exit_val' = 0
                              THEN "enc_tag" ELSE "enc_loop"
                     /\ rest' = r.rest /\ aead' = m
  <2> DEFINE m == aead \o got
             c == SubSeq(Encrypted(m), Len(aead) + 1, Len(m))
  <2>1. PICK w \in safe_file_write(out[cur], c) :
          /\ out' = [out EXCEPT ![cur] = w.file]
          /\ exit_val' = AfterWrite(w, exit_val)
          /\ pc' = IF r.ret < BUFSIZ \/ exit_val' = 0
                   THEN "enc_tag" ELSE "enc_loop"
          /\ rest' = left /\ aead' = m
    BY <1>5, <1>8
  <2>2. w.file = out[cur] \o c
    <3> HIDE DEF c
    <3> QED BY WriteResult
  <2>3. IsSequence(c) /\ Encrypted(m) = Encrypted(aead) \o c
    BY <1>1, <1>5, EncryptedPiece
  <2>4. IsSequence(Encrypted(aead))
    BY <1>1, EncryptedItems
  <2>5. IsSequence(m)
    BY <1>1, <1>5, Concatenated
  <2>6. aead \o rest = m \o left
    <3>1. IsSequence(aead) /\ IsSequence(got) /\ IsSequence(left) /\ rest = got \o left
      BY <1>1, <1>5
    <3>2. aead \o rest = (aead \o got) \o left
      BY ONLY <3>1, ConcatenatedTwice, SMTT(30)
    <3> QED BY <3>2
  <2> HIDE DEF m, c
  <2>7. exit_val' = 1 => exit_val = 1
    BY <1>1, <2>1 DEF AfterWrite
  <2>8. pc' = "enc_tag" /\ exit_val' = 1 => rest' = <<>>
    BY <1>5, <1>8, <2>1
  <2>9. (<<Header, SivBlock>> \o Encrypted(aead)) \o c = <<Header, SivBlock>> \o Encrypted(m)
    BY <2>3, <2>4, HeaderPair, ConcatenatedTwice
  <2>10. out'[cur] = w.file
    BY <1>1, <2>1 DEF ControlInv
  <2>11. EncryptionInv'
    <3> SUFFICES ASSUME exit_val' = 1
                 PROVE  /\ inp'[cur'].body = aead' \o rest'
                        /\ out'[cur'] = <<Header, SivBlock>> \o Encrypted(aead')
                        /\ pc' = "enc_tag" => rest' = <<>>
      BY DEF EncryptionInv
    <3>1. inp'[cur'].body = aead' \o rest'
      BY <1>1, <1>2, <2>1, <2>6, <2>7
    <3>2. out'[cur'] = <<Header, SivBlock>> \o Encrypted(aead')
      BY <1>1, <1>2, <2>1, <2>2, <2>7, <2>9, <2>10
    <3> QED BY <2>8, <3>1, <3>2
  <2>12. /\ pc' \in {"enc_loop", "enc_tag"}
         /\ IsSequence(rest') /\ IsSequence(aead')
         /\ \E file : out' = [out EXCEPT ![cur] = file]
    BY <1>5, <2>1, <2>5
  <2> QED BY <1>1, <2>11, <2>12, EncWorkExact
<1> QED BY <1>4, <1>6, <1>7, <1>8

LEMMA EncTagExact ==
  ASSUME ControlInv, ExactInv, EncTag, ~WriteFaults
  PROVE  ExactInv'
<1>1. pc = "enc_tag" /\ pc \notin {"main", "exit"} /\ mode = "encrypt"
      /\ IsSequence(aead)
  BY DEF EncTag, ControlInv, Encrypting, ExactInv, BodiesAreSequences
<1>2. CASE exit_val = 0 /\ Cleanup(0, out[cur])
  BY <1>1, <1>2, CleanupFailsExact
<1>3. CASE /\ exit_val = 1
           /\ \E w \in safe_file_write(out[cur], TagOf(Encrypted(aead))) :
                Cleanup(AfterWrite(w, 1), w.file)
  <2> DEFINE t == TagOf(Encrypted(aead))
  <2>1. PICK w \in safe_file_write(out[cur], t) : Cleanup(AfterWrite(w, 1), w.file)
    BY <1>3
  <2>2. IsSequence(t) /\ Len(t) = TAG_SIZE
    BY TagItems
  <2>3. w.file = out[cur] \o t /\ w.ret = Len(t)
    <3> HIDE DEF t
    <3> QED BY WriteResult
  <2>4. AfterWrite(w, 1) = 1
    BY <2>2, <2>3, AsconcryptAssumption DEF AfterWrite
  <2>5. FileDone(1, w.file)
    BY <2>1, <2>4 DEF Cleanup
  <2>6. /\ inp[cur].body = aead \o <<>>
        /\ out[cur] = <<Header, SivBlock>> \o Encrypted(aead)
    BY <1>1, <1>3 DEF ExactInv, EncryptionInv
  <2>7. inp[cur].body = aead
    BY <1>1, <2>6, ConcatenatedEmpty
  <2>8. IsSequence(Encrypted(aead))
    BY <1>1, EncryptedItems
  <2>9. (<<Header, SivBlock>> \o Encrypted(aead)) \o t
          = <<Header, SivBlock>> \o (Encrypted(aead) \o t)
    <3> HIDE DEF t
    <3> QED BY <2>2, <2>8, HeaderPair, ConcatenatedTwice
  <2>10. w.file = <<Header, SivBlock>> \o Sealed(inp[cur].body)
    BY <2>3, <2>6, <2>7, <2>9 DEF Sealed
  <2> QED BY <1>1, <2>5, <2>10, FileDoneExact
<1> QED BY <1>2, <1>3 DEF EncTag

LEMMA DecHeaderExact ==
  ASSUME ControlInv, ExactInv, DecHeader
  PROVE  ExactInv'
<1>1. /\ pc = "dec_header" /\ pc \in Decrypting /\ pc' = "dec_loop"
      /\ inp[cur].head = "ok"
      /\ UNCHANGED <<inp, mode, cur, aead, out, result, status>>
  BY DEF DecHeader, Decrypting
<1>2. PICK r \in safe_file_read(rest, TAG_SIZE) :
        r.ret = TAG_SIZE /\ data' = r.got /\ rest' = r.rest
  BY DEF DecHeader
<1>3. /\ out[cur] = <<>> /\ rest = inp[cur].body /\ aead = <<>>
      /\ IsSequence(rest) /\ IsSequence(aead)
  BY <1>1 DEF ExactInv, OpenedInv, BodiesAreSequences
<1>4. TAG_SIZE \in Nat \ {0}
  BY AsconcryptAssumption
<1>5. PICK got, left :
        /\ r.got = got /\ r.rest = left
        /\ IsSequence(got) /\ IsSequence(left)
        /\ rest = got \o left
        /\ r.ret \in Nat => r.ret = Len(got)
  BY ONLY <1>2, <1>3, <1>4, ReadResult, SMTT(30)
<1>6. data' = got /\ rest' = left /\ Len(got) = TAG_SIZE
  BY <1>2, <1>4, <1>5
<1>7. inp[cur].body = (aead \o got) \o left
  BY <1>3, <1>5, ConcatenatedEmpty
<1>8. out[cur] = DecryptedAll(aead)
  BY <1>3, EmptySequence, DecryptedAllItems, LengthZero
<1>9. DecryptionInv'
  BY <1>1, <1>6, <1>7, <1>8 DEF DecryptionInv
<1> QED BY <1>1, <1>3, <1>5, <1>6, <1>9, DecWorkExact

\* The buffer is what was kept back and what was read; its first bytes are
\* decrypted and its last TAG_SIZE are kept back.
LEMMA BufferParts ==
  ASSUME NEW buf, IsSequence(buf), NEW n \in 0 .. Len(buf)
  PROVE  LET x == SubSeq(buf, 1, n)
             y == SubSeq(buf, n + 1, Len(buf))
         IN  /\ IsSequence(x) /\ Len(x) = n /\ \A i \in 1 .. n : x[i] = buf[i]
             /\ IsSequence(y) /\ Len(y) = Len(buf) - n
             /\ buf = x \o y
<1>1. /\ n + 1 \in 1 .. Len(buf) + 1 /\ Len(buf) \in (n + 1) - 1 .. Len(buf)
      /\ Len(buf) - (n + 1) + 1 = Len(buf) - n
  BY SequenceLength
<1> DEFINE x == SubSeq(buf, 1, n)
           y == SubSeq(buf, n + 1, Len(buf))
<1>2. buf = x \o y
  BY Cut
<1>3. IsSequence(x) /\ Len(x) = n /\ \A i \in 1 .. n : x[i] = buf[i]
  BY CutItems
<1>4. IsSequence(y) /\ Len(y) = Len(buf) - n
  BY <1>1, Subsequence
<1> HIDE DEF x, y
<1>5. /\ IsSequence(x) /\ Len(x) = n /\ \A i \in 1 .. n : x[i] = buf[i]
      /\ IsSequence(y) /\ Len(y) = Len(buf) - n
      /\ buf = x \o y
  BY <1>2, <1>3, <1>4
<1> QED BY <1>5 DEF x, y

LEMMA Regrouped ==
  ASSUME NEW a, NEW d, NEW got, NEW left,
         IsSequence(a), IsSequence(d), IsSequence(got), IsSequence(left)
  PROVE  (a \o d) \o (got \o left) = (a \o (d \o got)) \o left
<1> DEFINE ad == a \o d
<1>1. IsSequence(ad)
  BY Concatenated
<1>2. ad \o got = a \o (d \o got)
  BY ConcatenatedTwice
<1> HIDE DEF ad
<1>3. (ad \o got) \o left = ad \o (got \o left)
  BY <1>1, ConcatenatedTwice
<1> QED BY <1>2, <1>3 DEF ad

LEMMA DecStepExact ==
  ASSUME ControlInv, ExactInv, DecStep, ~WriteFaults
  PROVE  ExactInv'
<1>1. /\ pc = "dec_loop" /\ pc \in Decrypting /\ cur \in Arg
      /\ UNCHANGED <<inp, mode, cur, result, status>>
      /\ IsSequence(rest) /\ IsSequence(aead) /\ IsSequence(data)
      /\ exit_val \in {0, 1}
  BY DEF DecStep, ControlInv, ExactInv, BodiesAreSequences, Decrypting
<1>2. exit_val = 1 => /\ inp[cur].head = "ok" /\ Len(data) = TAG_SIZE
                      /\ inp[cur].body = (aead \o data) \o rest
                      /\ out[cur] = DecryptedAll(aead)
  BY <1>1 DEF ExactInv, DecryptionInv
<1> DEFINE room == BUFSIZ - TAG_SIZE
<1>3. room \in Nat \ {0}
  BY AsconcryptAssumption
<1>4. PICK r \in safe_file_read(rest, room) :
        \/ /\ r.ret <= 0
           /\ exit_val' = IF r.ret < 0 THEN 0 ELSE exit_val
           /\ pc' = "dec_tag"
           /\ UNCHANGED <<rest, data, aead, out>>
        \/ /\ r.ret > 0
           /\ exit_val' = 0 /\ pc' = "dec_tag"
           /\ rest' = r.rest /\ UNCHANGED <<data, aead, out>>
        \/ /\ r.ret > 0
           /\ LET buf == data \o r.got
                  m == [i \in 1 .. r.ret |-> Decrypted(buf[i], Len(aead) + i)]
              IN  /\ \E w \in safe_file_write(out[cur], m) :
                        /\ out' = [out EXCEPT ![cur] = w.file]
                        /\ exit_val' = AfterWrite(w, exit_val)
                  /\ aead' = aead \o SubSeq(buf, 1, r.ret)
                  /\ data' = SubSeq(buf, r.ret + 1, Len(buf))
                  /\ rest' = r.rest
                  /\ pc' = IF r.ret < room \/ exit_val' = 0
                           THEN "dec_tag" ELSE "dec_loop"
  BY DEF DecStep
<1> HIDE DEF room
<1>5. PICK got, left :
        /\ r.got = got /\ r.rest = left
        /\ IsSequence(got) /\ IsSequence(left)
        /\ rest = got \o left
        /\ r.ret \in Nat \cup {-1}
        /\ r.ret \in Nat => r.ret = Len(got)
        /\ r.ret \in Nat /\ r.ret < room => left = <<>>
        /\ r.ret = 0 => rest = <<>>
  BY <1>1, <1>3, ReadResult
<1>6. CASE /\ r.ret <= 0
           /\ exit_val' = IF r.ret < 0 THEN 0 ELSE exit_val
           /\ pc' = "dec_tag"
           /\ UNCHANGED <<rest, data, aead, out>>
  <2>1. exit_val' = 1 => exit_val = 1 /\ rest = <<>>
    BY <1>5, <1>6
  <2>2. DecryptionInv'
    BY <1>1, <1>2, <1>6, <2>1 DEF DecryptionInv
  <2> QED BY <1>1, <1>6, <2>2, DecWorkExact
<1>7. CASE /\ exit_val' = 0 /\ pc' = "dec_tag"
           /\ rest' = r.rest /\ UNCHANGED <<data, aead, out>>
  <2>1. DecryptionInv'
    BY <1>7 DEF DecryptionInv
  <2> QED BY <1>1, <1>5, <1>7, <2>1, DecWorkExact
<1>8. CASE /\ r.ret > 0
           /\ LET buf == data \o r.got
                  m == [i \in 1 .. r.ret |-> Decrypted(buf[i], Len(aead) + i)]
              IN  /\ \E w \in safe_file_write(out[cur], m) :
                        /\ out' = [out EXCEPT ![cur] = w.file]
                        /\ exit_val' = AfterWrite(w, exit_val)
                  /\ aead' = aead \o SubSeq(buf, 1, r.ret)
                  /\ data' = SubSeq(buf, r.ret + 1, Len(buf))
                  /\ rest' = r.rest
                  /\ pc' = IF r.ret < room \/ exit_val' = 0
                           THEN "dec_tag" ELSE "dec_loop"
  <2> DEFINE n == Len(got)
             buf == data \o got
             m == [i \in 1 .. n |-> Decrypted(buf[i], Len(aead) + i)]
             x == SubSeq(buf, 1, n)
             y == SubSeq(buf, n + 1, Len(buf))
  <2>1. r.ret = n /\ n \in Nat
    BY <1>5, <1>8, SequenceLength
  <2>2. PICK w \in safe_file_write(out[cur], m) :
          /\ out' = [out EXCEPT ![cur] = w.file]
          /\ exit_val' = AfterWrite(w, exit_val)
          /\ aead' = aead \o x /\ data' = y /\ rest' = left
          /\ pc' = IF n < room \/ exit_val' = 0 THEN "dec_tag" ELSE "dec_loop"
    BY <1>5, <1>8, <2>1
  <2>3. w.file = out[cur] \o m
    <3> HIDE DEF m
    <3> QED BY WriteResult
  <2>4. exit_val' = 1 => exit_val = 1
    BY <1>1, <2>2 DEF AfterWrite
  <2>5. pc' = "dec_tag" /\ exit_val' = 1 => rest' = <<>>
    BY <1>5, <2>1, <2>2
  <2>6. out'[cur] = w.file
    BY <1>1, <2>2 DEF ControlInv
  <2>7. /\ IsSequence(x) /\ Len(x) = n /\ \A i \in 1 .. n : x[i] = buf[i]
        /\ IsSequence(y) /\ Len(y) = Len(data)
        /\ buf = x \o y
    <3>1. IsSequence(buf) /\ Len(buf) = Len(data) + n /\ Len(data) \in Nat
      BY <1>1, <1>5, Concatenated, SequenceLength
    <3> HIDE DEF buf, n
    <3>2. n \in 0 .. Len(buf) /\ Len(buf) - n = Len(data)
      BY <2>1, <3>1
    <3>3. /\ IsSequence(x) /\ Len(x) = n /\ \A i \in 1 .. n : x[i] = buf[i]
          /\ IsSequence(y) /\ Len(y) = Len(buf) - n
          /\ buf = x \o y
      BY <3>1, <3>2, BufferParts
    <3> HIDE DEF x, y
    <3> QED BY <3>2, <3>3
  <2>8. DecryptionInv'
    <3> SUFFICES ASSUME exit_val' = 1
                 PROVE  /\ inp'[cur'].head = "ok" /\ Len(data') = TAG_SIZE
                        /\ inp'[cur'].body = (aead' \o data') \o rest'
                        /\ out'[cur'] = DecryptedAll(aead')
                        /\ pc' = "dec_tag" => rest' = <<>>
      BY DEF DecryptionInv, DecryptedAll
    <3>1. /\ inp[cur].head = "ok" /\ Len(data) = TAG_SIZE
          /\ inp[cur].body = (aead \o data) \o (got \o left)
          /\ out[cur] = DecryptedAll(aead)
      BY <1>2, <1>5, <2>4
    <3>2. (aead \o data) \o (got \o left) = ((aead \o x) \o y) \o left
      <4>1. data \o got = x \o y
        BY <2>7
      <4>2. /\ IsSequence(aead) /\ IsSequence(data) /\ IsSequence(got)
            /\ IsSequence(left)
        BY <1>1, <1>5
      <4>3. IsSequence(x) /\ IsSequence(y)
        BY <2>7
      <4> HIDE DEF x, y
      <4>4. (aead \o data) \o (got \o left) = (aead \o (data \o got)) \o left
        BY ONLY <4>2, Regrouped, SMTT(30)
      <4>5. (aead \o x) \o y = aead \o (x \o y)
        <5>1. IsSequence(aead) /\ IsSequence(x) /\ IsSequence(y)
          BY <4>2, <4>3
        <5> QED BY ONLY <5>1, ConcatenatedTwice
      <4> QED BY <4>1, <4>4, <4>5, Zenon
    <3>3. m = [i \in 1 .. n |-> Decrypted(x[i], Len(aead) + i)]
      <4> HIDE DEF x, y, buf
      <4> QED BY <2>7
    <3> HIDE DEF m, x, y, buf, n
    <3>4. DecryptedAll(aead \o x) = DecryptedAll(aead) \o m
      <4>1. IsSequence(x)
        BY <2>7
      <4> QED BY <1>1, <2>1, <2>7, <3>3, <4>1, DecryptedPiece
    <3>5. inp'[cur'].head = "ok" /\ Len(data') = TAG_SIZE
      BY <1>1, <2>2, <2>7, <3>1
    <3>6. inp'[cur'].body = (aead' \o data') \o rest'
      BY <1>1, <2>2, <3>1, <3>2
    <3>7. out'[cur'] = DecryptedAll(aead \o x)
      BY <1>1, <2>3, <2>6, <3>1, <3>4
    <3> QED BY <2>2, <2>5, <3>5, <3>6, <3>7
  <2>9. /\ pc' \in {"dec_loop", "dec_tag"}
        /\ IsSequence(rest') /\ IsSequence(aead') /\ IsSequence(data')
        /\ \E file : out' = [out EXCEPT ![cur] = file]
    <3>1. IsSequence(aead \o x)
      <4> HIDE DEF x
      <4> QED BY <1>1, <2>7, Concatenated
    <3> HIDE DEF x, y, m, n, buf
    <3> QED BY <1>5, <2>2, <2>7, <3>1
  <2> QED BY <1>1, <2>8, <2>9, DecWorkExact
<1> QED BY <1>4, <1>6, <1>7, <1>8

\* The tag that was kept back is that of what was decrypted.
LEMMA DecTagExact ==
  ASSUME ControlInv, ExactInv, DecTag
  PROVE  ExactInv'
<1>1. pc = "dec_tag" /\ pc \notin {"main", "exit"} /\ mode = "decrypt"
      /\ inp[cur] \in InputFiles /\ exit_val \in {0, 1}
      /\ IsSequence(aead) /\ IsSequence(data)
  BY DEF DecTag, ControlInv, Encrypting, Decrypting, ExactInv, OpenedInv, BodiesAreSequences
<1>2. CASE data # TagOf(aead) \/ exit_val = 0
  BY <1>1, <1>2, CleanupFailsExact DEF DecTag
<1>3. CASE data = TagOf(aead) /\ exit_val = 1
  <2>1. FileDone(1, out[cur])
    BY <1>3 DEF DecTag, Cleanup
  <2>2. /\ inp[cur].head = "ok"
        /\ inp[cur].body = (aead \o data) \o <<>>
        /\ out[cur] = DecryptedAll(aead)
    BY <1>1, <1>3 DEF ExactInv, DecryptionInv
  <2>3. IsSequence(aead \o data)
    BY <1>1, Concatenated
  <2>4. inp[cur].body = aead \o TagOf(aead)
    BY <1>3, <2>2, <2>3, ConcatenatedEmpty
  <2>5. /\ inp[cur].body = Sealed(inp[cur].of)
        /\ aead = Encrypted(inp[cur].of) /\ IsSequence(inp[cur].of)
    <3> DEFINE f == inp[cur]
    <3>1. f \in InputFiles /\ f.head = "ok" /\ f.body = aead \o TagOf(aead)
      BY <1>1, <2>2, <2>4
    <3> HIDE DEF f
    <3>2. f.body = Sealed(f.of) /\ aead = Encrypted(f.of) /\ IsSequence(f.of)
      BY <1>1, <3>1, AuthenticIsWhole
    <3> QED BY <3>2 DEF f
  <2>6. out[cur] = inp[cur].of
    BY <2>2, <2>5, DecryptedEncrypted
  <2> QED BY <1>1, <2>1, <2>2, <2>5, <2>6, FileDoneExact
<1> QED BY <1>1, <1>2, <1>3

LEMMA NextExact ==
  ASSUME ControlInv, ExactInv, [Next]_vars, ~WriteFaults
  PROVE  ExactInv'
<1>1. CASE Detect          BY <1>1, DetectExact
<1>2. CASE NoPassword      BY <1>2, NoPasswordExact
<1>3. CASE Password        BY <1>3, PasswordExact
<1>4. CASE OpenFails       BY <1>4, OpenFailsExact
<1>5. CASE Open            BY <1>5, OpenExact
<1>6. CASE NoRandom
  <2>1. pc \notin {"main", "exit"} /\ Cleanup(0, out[cur])
    BY <1>6 DEF NoRandom
  <2> QED BY <2>1, CleanupFailsExact
<1>7. CASE EncHeader       BY <1>7, EncHeaderExact
<1>8. CASE EncStep         BY <1>8, EncStepExact
<1>9. CASE EncTag          BY <1>9, EncTagExact
<1>10. CASE DecHeaderFails
  <2>1. pc \notin {"main", "exit"} /\ Cleanup(0, out[cur])
    BY <1>10 DEF DecHeaderFails
  <2> QED BY <2>1, CleanupFailsExact
<1>11. CASE DecHeader      BY <1>11, DecHeaderExact
<1>12. CASE DecStep        BY <1>12, DecStepExact
<1>13. CASE DecTag         BY <1>13, DecTagExact
<1>14. CASE Generate       BY <1>14, GenerateExact
<1>15. CASE UNCHANGED vars
  <2>1. UNCHANGED <<names, inp, mode, pc, cur, rest, data, aead, exit_val, out,
                    result, status>>
    BY <1>15 DEF vars
  <2>2. SuccessIsExact'
    BY <2>1 DEF ExactInv, SuccessIsExact, DecryptedIsWhole
  <2>3. BodiesAreSequences' /\ OpenedInv'
    BY <2>1 DEF ExactInv, BodiesAreSequences, OpenedInv
  <2>4. EncryptionInv' /\ DecryptionInv'
    BY <2>1 DEF ExactInv, EncryptionInv, DecryptionInv, DecryptedAll
  <2> QED BY <2>2, <2>3, <2>4 DEF ExactInv
<1> QED
  BY <1>1, <1>2, <1>3, <1>4, <1>5, <1>6, <1>7, <1>8, <1>9, <1>10, <1>11, <1>12,
     <1>13, <1>14, <1>15 DEF Next

(***************************************************************************)
(* SuccessMeansExact: with no failing write, a file that encrypt_file      *)
(* reports as done is the complete encryption of its whole input, one that *)
(* decrypt_file reports is the whole plaintext of an intact input, and a   *)
(* key file reported as written holds the password, for every length of    *)
(* file, tag and buffer and for every failure of open, read and random     *)
(* source.  With a failing write it does not hold: the code compares the   *)
(* result of safe_file_write with 0, where a failure is -1.                *)
(***************************************************************************)
THEOREM SuccessMeansExact ==
  ASSUME ~WriteFaults
  PROVE  Spec => []SuccessIsExact
<1>1. Init => ExactInv
  BY ExactInit
<1>2. ControlInv /\ ExactInv /\ [Next]_vars => ExactInv'
  BY NextExact
<1>3. ExactInv => SuccessIsExact
  BY DEF ExactInv
<1>4. Spec => []ControlInv
  BY ControlInvariant, PTL
<1> QED BY <1>1, <1>2, <1>3, <1>4, PTL DEF Spec

=============================================================================
