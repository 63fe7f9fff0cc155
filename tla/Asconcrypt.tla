----------------------------- MODULE Asconcrypt -----------------------------
(***************************************************************************)
(* The asconcrypt program (apps/asconcrypt): one run of it over its        *)
(* arguments, at the level of the reads and writes it does and of the      *)
(* return values it looks at.                                              *)
(*                                                                         *)
(* The cipher is opaque.  A ciphertext byte says which plaintext byte it   *)
(* hides and where; a tag byte says which ciphertext it authenticates.     *)
(* Header and SIV block are one item each: what matters of them is whether *)
(* they are complete, well formed and under the given password.            *)
(***************************************************************************)
EXTENDS Integers, Sequences, FiniteSets

CONSTANTS
    Args,           \* number of file arguments
    TAG_SIZE,       \* bytes of the tag: 16 in the code
    BUFSIZ,         \* bytes of the buffer: ASCON_BUFSIZ
    MAX_FILE_SIZE,  \* longest payload: ASCON_MAX_FILE_SIZE
    PlainLengths,   \* lengths of plaintexts
    WriteFaults,    \* TRUE if write() may fail
    OtherFaults     \* TRUE if open(), read() and the random source may fail

ASSUME AsconcryptAssumption ==
    /\ Args \in Nat \ {0} /\ TAG_SIZE \in Nat \ {0}
    /\ BUFSIZ \in Nat /\ BUFSIZ > TAG_SIZE
    /\ MAX_FILE_SIZE \in Nat /\ PlainLengths \subseteq Nat
    /\ WriteFaults \in BOOLEAN /\ OtherFaults \in BOOLEAN

Arg == 1 .. Args

-----------------------------------------------------------------------------
(***************************************************************************)
(* Files.                                                                  *)
(***************************************************************************)
Plain(n) == [i \in 1 .. n |-> <<"m", i, <<>>>>]
Encrypted(m) == [i \in DOMAIN m |-> <<"c", i, m[i]>>]
TagOf(c) == [j \in 1 .. TAG_SIZE |-> <<"t", j, c>>]
Sealed(m) == Encrypted(m) \o TagOf(Encrypted(m))

\* The byte that a decryption at position i makes of x.
Decrypted(x, i) == IF x[1] = "c" /\ x[2] = i THEN x[3] ELSE <<"?", i, <<>>>>

Header == <<"header", 0, <<>>>>
SivBlock == <<"siv", 0, <<>>>>
KeyLine == <<<<"password", 0, <<>>>>, <<"newline", 0, <<>>>>>>

\* An output file that is not there, and one that was there before.
Absent == <<<<"absent", 0, <<>>>>>>
Old == <<<<"old", 0, <<>>>>>>

Damaged(s, i) == [s EXCEPT ![i] = <<"x", i, <<>>>>]

\* What an argument may name: a plaintext, a sealed file, one that is cut
\* short or altered in one byte, one without a header of ours, and one under
\* another password.
InputFiles ==
    UNION {LET s == Sealed(Plain(n))
               File(head, body) == [head |-> head, body |-> body, of |-> Plain(n)]
           IN  {File("bad", Plain(n)), File("other_password", s), File("ok", s)}
                  \cup {File("ok", SubSeq(s, 1, k)) : k \in 0 .. Len(s) - 1}
                  \cup {File("ok", Damaged(s, i)) : i \in DOMAIN s}
              : n \in PlainLengths}

NotOpened == [head |-> "none", body |-> <<>>, of |-> <<>>]

VARIABLES
    names,      \* what the names of the arguments look like
    inp,        \* the files they name, from when they are opened
    mode,       \* "detect", "encrypt", "decrypt" or "generate"
    pc,         \* where the program is
    cur,        \* the argument it is working on
    rest,       \* what has not been read of the input
    data,       \* the TAG_SIZE bytes that decryption keeps in its buffer
    aead,       \* the ciphertext that went through the cipher
    exit_val,   \* exit_val of encrypt_file or decrypt_file
    out,        \* the output files
    result,     \* history: what encrypt_file or decrypt_file returned
    status      \* exit status of the program, -1 while it runs

vars == <<names, inp, mode, pc, cur, rest, data, aead, exit_val, out, result, status>>
fileVars == <<rest, data, aead, exit_val>>

Init ==
    /\ names \in [Arg -> {"long", "short", "ascon"}]
    /\ inp = [a \in Arg |-> NotOpened]
    /\ mode \in {"detect", "encrypt", "decrypt", "generate"}
    /\ pc = "main" /\ cur = 1
    /\ rest = <<>> /\ data = <<>> /\ aead = <<>> /\ exit_val = 0
    /\ out \in [Arg -> {Absent, Old}]
    /\ result = [a \in Arg |-> -1]
    /\ status = -1

(***************************************************************************)
(* safe_file_read and safe_file_write: an error is the result -1.  A write *)
(* that fails may have written a part.                                     *)
(***************************************************************************)
ShorterOf(a, b) == IF a < b THEN a ELSE b

safe_file_read(file, len) ==
    LET n == ShorterOf(len, Len(file)) IN
    {[ret |-> n, got |-> SubSeq(file, 1, n), rest |-> SubSeq(file, n + 1, Len(file))]}
        \cup (IF OtherFaults THEN {[ret |-> -1, got |-> <<>>, rest |-> file]} ELSE {})

safe_file_write(file, bytes) ==
    {[ret |-> Len(bytes), file |-> file \o bytes]}
        \cup (IF WriteFaults
              THEN {[ret |-> -1, file |-> file \o SubSeq(bytes, 1, k)]
                       : k \in 0 .. Len(bytes) - 1}
              ELSE {})

\* `if (!safe_file_write(...)) exit_val = 0`
AfterWrite(w, val) == IF w.ret = 0 THEN 0 ELSE val

-----------------------------------------------------------------------------
(***************************************************************************)
(* main: the mode, the password, and one argument after the other.         *)
(***************************************************************************)

\* A name of fewer than six characters counts as encrypted.
is_encrypted_filename(name) == name \in {"ascon", "short"}

\* All arguments must ask for the same direction.
DetectMode ==
    IF \A a \in Arg : is_encrypted_filename(names[a]) THEN "decrypt"
    ELSE IF \A a \in Arg : ~is_encrypted_filename(names[a]) THEN "encrypt"
    ELSE "mixture"

Exit(code) ==
    /\ pc' = "exit" /\ status' = code
    /\ UNCHANGED <<names, inp, cur, out, result>> /\ UNCHANGED fileVars

Detect ==
    /\ pc = "main" /\ mode = "detect"
    /\ IF DetectMode = "mixture" THEN Exit(1) /\ UNCHANGED mode
       ELSE /\ mode' = DetectMode
            /\ UNCHANGED <<names, inp, pc, cur, out, result, status>> /\ UNCHANGED fileVars

\* The password on the command line, in the key file or at the prompt is
\* refused: nothing has been opened yet.
NoPassword ==
    /\ pc = "main" /\ mode \in {"encrypt", "decrypt"}
    /\ Exit(1) /\ UNCHANGED mode

Password ==
    /\ pc = "main" /\ mode \in {"encrypt", "decrypt"}
    /\ pc' = "open"
    /\ UNCHANGED <<names, inp, mode, cur, out, result, status>> /\ UNCHANGED fileVars

\* encrypt_file or decrypt_file returns r: the next argument, or the end.
FileDone(r, file) ==
    /\ out' = [out EXCEPT ![cur] = file]
    /\ result' = [result EXCEPT ![cur] = r]
    /\ IF cur < Args
       THEN cur' = cur + 1 /\ pc' = "open" /\ UNCHANGED status
       ELSE /\ pc' = "exit" /\ UNCHANGED cur
            /\ status' = IF \E a \in Arg : result'[a] = 0 THEN 1 ELSE 0
    /\ rest' = <<>> /\ data' = <<>> /\ aead' = <<>> /\ exit_val' = 0
    /\ UNCHANGED <<names, inp, mode>>

\* cleanup: the output is deleted unless all went well.
\* Mutant: it stays.
CleanupKeepsOutput(val, file) == FileDone(val, file)

Cleanup(val, file) == FileDone(val, IF val = 0 THEN Absent ELSE file)

OpenFails ==
    /\ pc = "open" /\ OtherFaults
    /\ FileDone(0, out[cur])

\* Both files are open, and the output is empty, before anything is checked.
Open ==
    /\ pc = "open"
    /\ \E f \in InputFiles :
          inp' = [inp EXCEPT ![cur] = f] /\ rest' = f.body
    /\ out' = [out EXCEPT ![cur] = <<>>]
    /\ pc' = IF mode = "encrypt" THEN "enc_header" ELSE "dec_header"
    /\ UNCHANGED <<names, mode, cur, data, aead, exit_val, result, status>>

-----------------------------------------------------------------------------
(***************************************************************************)
(* encrypt_file.                                                           *)
(***************************************************************************)
NoRandom ==
    /\ pc = "enc_header" /\ OtherFaults
    /\ Cleanup(0, out[cur])

\* The SIV block is written only if the header's write is taken for good.
EncHeader ==
    /\ pc = "enc_header"
    /\ \E w1 \in safe_file_write(out[cur], <<Header>>) :
       \E w2 \in safe_file_write(w1.file, <<SivBlock>>) :
          LET w == IF w1.ret = 0 THEN w1 ELSE w2 IN
          /\ out' = [out EXCEPT ![cur] = w.file]
          /\ exit_val' = AfterWrite(w, 1)
          /\ pc' = IF exit_val' = 0 THEN "enc_tag" ELSE "enc_loop"
    /\ UNCHANGED <<names, inp, mode, cur, rest, data, aead, result, status>>

\* Mutants: the end of the input is not noticed, and its size is not checked.
EncStepIgnoresEnd ==
    /\ pc = "enc_loop"
    /\ \E r \in safe_file_read(rest, BUFSIZ) :
          LET m == aead \o r.got
              c == SubSeq(Encrypted(m), Len(aead) + 1, Len(m))
          IN  /\ r.ret >= 0
              /\ out' = [out EXCEPT ![cur] = @ \o c]
              /\ rest' = r.rest /\ aead' = m
    /\ UNCHANGED <<names, inp, mode, pc, cur, data, exit_val, result, status>>

\* Here `aead` is the plaintext that went in.
EncStep ==
    /\ pc = "enc_loop"
    /\ \E r \in safe_file_read(rest, BUFSIZ) :
          \/ /\ r.ret <= 0
             /\ exit_val' = IF r.ret < 0 THEN 0 ELSE exit_val
             /\ pc' = "enc_tag"
             /\ UNCHANGED <<rest, aead, out>>
          \/ /\ r.ret > 0 /\ Len(aead) + r.ret > MAX_FILE_SIZE
             /\ exit_val' = 0 /\ pc' = "enc_tag"
             /\ rest' = r.rest /\ UNCHANGED <<aead, out>>
          \/ /\ r.ret > 0 /\ Len(aead) + r.ret <= MAX_FILE_SIZE
             /\ LET m == aead \o r.got
                    c == SubSeq(Encrypted(m), Len(aead) + 1, Len(m))
                IN  \E w \in safe_file_write(out[cur], c) :
                       /\ out' = [out EXCEPT ![cur] = w.file]
                       /\ exit_val' = AfterWrite(w, exit_val)
                       /\ pc' = IF r.ret < BUFSIZ \/ exit_val' = 0
                                THEN "enc_tag" ELSE "enc_loop"
                       /\ rest' = r.rest /\ aead' = m
    /\ UNCHANGED <<names, inp, mode, cur, data, result, status>>

EncTag ==
    /\ pc = "enc_tag"
    /\ \/ exit_val = 0 /\ Cleanup(0, out[cur])
       \/ /\ exit_val = 1
          /\ \E w \in safe_file_write(out[cur], TagOf(Encrypted(aead))) :
                Cleanup(AfterWrite(w, 1), w.file)

-----------------------------------------------------------------------------
(***************************************************************************)
(* decrypt_file.  Here `aead` is the ciphertext that went in.              *)
(***************************************************************************)

\* The format, the password, and the first TAG_SIZE bytes of the payload.
DecHeaderFails ==
    /\ pc = "dec_header"
    /\ inp[cur].head # "ok" \/ OtherFaults \/ Len(rest) < TAG_SIZE
    /\ Cleanup(0, out[cur])

DecHeader ==
    /\ pc = "dec_header" /\ inp[cur].head = "ok"
    /\ \E r \in safe_file_read(rest, TAG_SIZE) :
          r.ret = TAG_SIZE /\ data' = r.got /\ rest' = r.rest
    /\ exit_val' = 1 /\ pc' = "dec_loop"
    /\ UNCHANGED <<names, inp, mode, cur, aead, out, result, status>>

\* Of the bytes in the buffer all but the last TAG_SIZE are decrypted.
DecStep ==
    /\ pc = "dec_loop"
    /\ \E r \in safe_file_read(rest, BUFSIZ - TAG_SIZE) :
          \/ /\ r.ret <= 0
             /\ exit_val' = IF r.ret < 0 THEN 0 ELSE exit_val
             /\ pc' = "dec_tag"
             /\ UNCHANGED <<rest, data, aead, out>>
          \/ /\ r.ret > 0 /\ Len(aead) + r.ret > MAX_FILE_SIZE
             /\ exit_val' = 0 /\ pc' = "dec_tag"
             /\ rest' = r.rest /\ UNCHANGED <<data, aead, out>>
          \/ /\ r.ret > 0 /\ Len(aead) + r.ret <= MAX_FILE_SIZE
             /\ LET buf == data \o r.got
                    m   == [i \in 1 .. r.ret |-> Decrypted(buf[i], Len(aead) + i)]
                IN  /\ \E w \in safe_file_write(out[cur], m) :
                          /\ out' = [out EXCEPT ![cur] = w.file]
                          /\ exit_val' = AfterWrite(w, exit_val)
                    /\ aead' = aead \o SubSeq(buf, 1, r.ret)
                    /\ data' = SubSeq(buf, r.ret + 1, Len(buf))
                    /\ rest' = r.rest
                    /\ pc' = IF r.ret < BUFSIZ - TAG_SIZE \/ exit_val' = 0
                             THEN "dec_tag" ELSE "dec_loop"
    /\ UNCHANGED <<names, inp, mode, cur, result, status>>

\* Mutant: the tag is computed and not compared.
DecTagUnchecked ==
    /\ pc = "dec_tag"
    /\ Cleanup(exit_val, out[cur])

DecTag ==
    /\ pc = "dec_tag"
    /\ Cleanup(IF data # TagOf(aead) THEN 0 ELSE exit_val, out[cur])

-----------------------------------------------------------------------------
(***************************************************************************)
(* generate_password: the key file is the first output.                    *)
(***************************************************************************)
Generate ==
    /\ pc = "main" /\ mode = "generate"
    /\ \/ OtherFaults /\ Exit(1)                    \* it cannot be opened
       \/ /\ OtherFaults                            \* no random numbers
          /\ out' = [out EXCEPT ![1] = Absent]
          /\ pc' = "exit" /\ status' = 1
          /\ UNCHANGED <<names, inp, cur, result>> /\ UNCHANGED fileVars
       \/ /\ \E w1 \in safe_file_write(<<>>, SubSeq(KeyLine, 1, 1)) :
             \E w2 \in safe_file_write(w1.file, SubSeq(KeyLine, 2, 2)) :
                out' = [out EXCEPT ![1] = w2.file]
          /\ pc' = "exit" /\ status' = 0
          /\ UNCHANGED <<names, inp, cur, result>> /\ UNCHANGED fileVars
    /\ UNCHANGED mode

Next ==
    \/ Detect \/ NoPassword \/ Password \/ OpenFails \/ Open
    \/ NoRandom \/ EncHeader \/ EncStep \/ EncTag
    \/ DecHeaderFails \/ DecHeader \/ DecStep \/ DecTag
    \/ Generate

\* The process is scheduled until it exits.
Spec == Init /\ [][Next]_vars /\ WF_vars(Next)

-----------------------------------------------------------------------------
(***************************************************************************)
(* DecryptedIsWhole: when decrypt_file reports success, the input was      *)
(* intact and the output is the whole plaintext.                           *)
(***************************************************************************)
DecryptedIsWhole ==
    \A a \in Arg : mode = "decrypt" /\ result[a] = 1 =>
        /\ inp[a].head = "ok" /\ inp[a].body = Sealed(inp[a].of)
        /\ out[a] = inp[a].of

(***************************************************************************)
(* SuccessIsExact: so it is, and when encrypt_file reports success, the    *)
(* output is the complete encryption of the whole input; when a key file   *)
(* is reported as written, it holds the password.  It depends on the       *)
(* buffer arithmetic at the end of a file (a last block that is empty,     *)
(* short or just fills the buffer, the tag kept back) and on every error   *)
(* path reaching exit_val.                                                 *)
(***************************************************************************)
SuccessIsExact ==
    /\ DecryptedIsWhole
    /\ \A a \in Arg : mode = "encrypt" /\ result[a] = 1 =>
          out[a] = <<Header, SivBlock>> \o Sealed(inp[a].body)
    /\ mode = "generate" /\ status = 0 => out[1] = KeyLine

(***************************************************************************)
(* FailureLeavesNoOutput: when a file fails, in whatever step, no partial  *)
(* ciphertext and no plaintext that was not authenticated stays behind     *)
(* under the output's name, and the program's status tells.                *)
(***************************************************************************)
FailureLeavesNoOutput ==
    /\ \A a \in Arg : result[a] = 0 => out[a] \in {Absent, Old}
    /\ pc = "exit" /\ (\E a \in Arg : result[a] = 0) => status = 1

(***************************************************************************)
(* Terminates: the read loops end, whatever the length of the file and     *)
(* whatever fails.                                                         *)
(***************************************************************************)
Terminates == <>(pc = "exit")

=============================================================================
