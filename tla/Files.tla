------------------------------- MODULE Files -------------------------------
(***************************************************************************)
(* What the local file system promises its callers: named sequences of     *)
(* bytes, and devices, each with one open file and a position in it.       *)
(***************************************************************************)
EXTENDS Naturals, Sequences

CONSTANTS Name, Dev, Byte

VARIABLES
  content,   \* of each name, the bytes of its file, or Absent
  opened,    \* of each device, the open file, or Closed
  out        \* what the last call returned

vars == <<content, opened, out>>

Absent == <<"absent">>
Closed == [name |-> "none", pos |-> 0]

Init == content = [n \in Name |-> Absent] /\ opened = [d \in Dev |-> Closed] /\ out = "OK"

Open(n, d) ==
  /\ opened[d] = Closed /\ \A e \in Dev : opened[e].name # n
  /\ opened' = [opened EXCEPT ![d] = [name |-> n, pos |-> 0]]
  /\ out' = "OK"
  /\ content' = IF content[n] = Absent THEN [content EXCEPT ![n] = <<>>] ELSE content

\* The next byte, which moves the position, or the end of the file.
Getc(d) ==
  /\ opened[d] # Closed
  /\ \/ /\ opened' = [opened EXCEPT ![d].pos = @ + 1]
        /\ out' \in Byte
        /\ LET bytes == content[opened[d].name]
           IN opened[d].pos < Len(bytes) /\ out' = bytes[opened[d].pos + 1]
     \/ /\ UNCHANGED opened
        /\ out' = "EOF"
        /\ opened[d].pos >= Len(content[opened[d].name])
  /\ UNCHANGED content

\* A byte replaces the one at the position or is added at the end.
Putc(d, ch) ==
  /\ opened[d] # Closed
  /\ opened' = [opened EXCEPT ![d].pos = @ + 1]
  /\ out' = "OK"
  /\ content' = [content EXCEPT ![opened[d].name] =
       IF opened[d].pos < Len(@) THEN [@ EXCEPT ![opened[d].pos + 1] = ch] ELSE Append(@, ch)]

Seek(d) ==
  /\ opened[d] # Closed
  /\ opened' = [opened EXCEPT ![d].pos = opened'[d].pos]
  /\ out' = "OK"
  /\ LET bytes == content[opened[d].name] IN opened'[d].pos \in 0 .. Len(bytes)
  /\ UNCHANGED content

Truncate(d) ==
  /\ opened[d] # Closed
  /\ opened' = [opened EXCEPT ![d].pos = 0]
  /\ out' = "OK"
  /\ content' = [content EXCEPT ![opened[d].name] = <<>>]

Close(d) ==
  /\ opened[d] # Closed
  /\ opened' = [opened EXCEPT ![d] = Closed]
  /\ out' = "OK" /\ UNCHANGED content

Refuse == out' = "SYSERR" /\ UNCHANGED <<content, opened>>

Next ==
  \/ Refuse
  \/ \E d \in Dev :
       \/ \E n \in Name : Open(n, d)
       \/ Getc(d) \/ Seek(d) \/ Truncate(d) \/ Close(d)
       \/ \E ch \in Byte : Putc(d, ch)

Spec == Init /\ [][Next]_vars
=============================================================================
