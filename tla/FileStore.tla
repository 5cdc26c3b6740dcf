----------------------------- MODULE FileStore -----------------------------
(***************************************************************************)
(* What an application may expect of the files of a writable mount: one    *)
(* flat sequence of bytes per file, calls that take effect at once, and a  *)
(* copy in the write cache that a successful flush brings up to date.      *)
(* DirtyFile implements it with chunks in the block pool.                  *)
(***************************************************************************)
EXTENDS Integers, Sequences

CONSTANTS
  Files, NoContent,
  Initial,   \* file -> its bytes before the first call, or NoContent
  Values,    \* what can be written
  Byte(_, _), \* the byte of a value at a place of the file
  MaxLen     \* bound: length of a file

VARIABLES
  content,  \* file -> its bytes, NoContent when it does not exist
  durable,  \* file -> its bytes in the write cache, NoContent when absent
  reply     \* what the last call returned

storeVars == <<content, durable, reply>>

\* b written over s from offset off; a gap past the end reads as zeros.
Overlay(s, off, b) ==
  [i \in 1 .. (IF off + Len(b) > Len(s) THEN off + Len(b) ELSE Len(s)) |->
     IF i \in off + 1 .. off + Len(b) THEN b[i - off]
     ELSE IF i <= Len(s) THEN s[i] ELSE 0]

\* What is written of the value v from offset off.
Bytes(v, off, n) == [i \in 1 .. n |-> Byte(v, off + i)]

\* s cut, or extended with zeros, to n bytes.
Resize(s, n) == [i \in 1 .. n |-> IF i <= Len(s) THEN s[i] ELSE 0]

\* The at most n bytes of s from offset off.
Slice(s, off, n) == SubSeq(s, off + 1, IF off + n < Len(s) THEN off + n ELSE Len(s))

Done   == [status |-> "done", bytes |-> << >>]
Failed == [status |-> "failed", bytes |-> << >>]
Got(b) == [status |-> "got", bytes |-> b]

Exists(f) == content[f] # NoContent

Create(f) ==
  /\ ~Exists(f)
  /\ content' = [content EXCEPT ![f] = << >>]
  /\ reply' = Done
  /\ UNCHANGED durable

Read(f, off, n) ==
  /\ Exists(f)
  /\ reply' = Got(Slice(content[f], off, n))
  /\ UNCHANGED <<content, durable>>

Write(f, off, b) ==
  /\ Exists(f)
  /\ content' = [content EXCEPT ![f] = Overlay(@, off, b)]
  /\ reply' = Done
  /\ UNCHANGED durable

\* A write that fails half-way: the file keeps its length.
TornWrite(f, off, b) ==
  /\ Exists(f)
  /\ content' = [content EXCEPT ![f] = Resize(Overlay(@, off, b), Len(@))]
  /\ reply' = Failed
  /\ UNCHANGED durable

\* A truncate is followed by a flush, which may fail.
Truncate(f, n) ==
  /\ Exists(f)
  /\ content' = [content EXCEPT ![f] = Resize(@, n)]
  /\ \/ reply' = Done /\ durable' = [durable EXCEPT ![f] = Resize(content[f], n)]
     \/ reply' = Failed /\ UNCHANGED durable

Flush(f) ==
  /\ Exists(f)
  /\ durable' = [durable EXCEPT ![f] = content[f]]
  /\ reply' = Done
  /\ UNCHANGED content

\* The copy in the write cache goes with the file, at best.
Delete(f) ==
  /\ content' = [content EXCEPT ![f] = NoContent]
  /\ \/ reply' = Done
     \/ reply' = Failed /\ UNCHANGED durable
  /\ durable' \in {durable, [durable EXCEPT ![f] = NoContent]}

\* A directory's removal takes the new files under it.
DeleteNew(D) ==
  /\ content' = [f \in Files |-> IF f \in D /\ Initial[f] = NoContent
                                THEN NoContent ELSE content[f]]
  /\ reply' = Done
  /\ UNCHANGED durable

\* Every change is dropped; what the write cache has stays.
Reset ==
  /\ content' = [f \in Files |-> Initial[f]]
  /\ reply' = Done
  /\ UNCHANGED durable

Fail == reply' = Failed /\ UNCHANGED <<content, durable>>

StoreInit ==
  /\ content = [f \in Files |-> Initial[f]]
  /\ durable = [f \in Files |-> NoContent]
  /\ reply = Done

StoreNext ==
  \/ Fail \/ Reset
  \/ \E D \in SUBSET Files : DeleteNew(D)
  \/ \E f \in Files :
       \/ Create(f) \/ Delete(f) \/ Flush(f)
       \/ \E n \in 0 .. MaxLen : Truncate(f, n)
       \/ \E off, n \in 0 .. MaxLen : Read(f, off, n)
       \/ \E off \in 0 .. MaxLen, n \in 1 .. MaxLen, v \in Values :
            Write(f, off, Bytes(v, off, n)) \/ TornWrite(f, off, Bytes(v, off, n))

StoreSpec == StoreInit /\ [][StoreNext]_storeVars

=============================================================================
