---------------------------- MODULE FilePromise ----------------------------
(***************************************************************************)
(* What the callers of write_file may rely on, whichever workers do the    *)
(* work and whatever becomes of them.  The path holds one whole content    *)
(* after another, unless the disk cuts a write short.  A write is put in   *)
(* place at most once, in one step, after the file was seen to hold what   *)
(* the write depends on, and on the condition the caller has named, if it  *)
(* has.  Only then is a call like it told ok; of one that is told that     *)
(* nothing was committed, nothing ever is.                                 *)
(***************************************************************************)
CONSTANTS Calls, Contents, NoBase,
          Part,      \* what is left of a content that is cut short
          Short,     \* may the disk cut writes short?
          Content,   \* what each call writes
          CallBase   \* the condition it names, or NoBase

VARIABLES content,   \* what the path holds; a file that is not there is empty
          base,      \* the content each write depends on, or NoBase
          settled,   \* calls whose base will not change
          fit,       \* writes that may be put in place
          puts,      \* writes that have been
          closed,    \* writes that never will be
          told       \* the answer to each call, "none" before it has one

vars == <<content, base, settled, fit, puts, closed, told>>

Key(c)  == <<Content[c], base[c]>>
Oks     == {"ok", "ok_differs"}
Bytes   == Contents \cup {Part[x] : x \in Contents}
Refused == {"sha_mismatch", "rename_locked", "not_found"}

Init ==
  /\ content \in Contents
  /\ base = [c \in Calls |-> NoBase] /\ settled = {}
  /\ fit = {} /\ puts = {} /\ closed = {}
  /\ told = [c \in Calls |-> "none"]

Settle(c) ==
  /\ c \notin settled /\ settled' = settled \cup {c}
  /\ \E b \in Bytes \cup {NoBase} :
       /\ CallBase[c] # NoBase => b = CallBase[c]
       /\ base' = [base EXCEPT ![c] = b]
  /\ UNCHANGED <<content, fit, puts, closed, told>>

Compare(c) ==
  /\ c \in settled /\ c \notin puts \cup closed
  /\ base[c] \in {NoBase, content}
  /\ fit' = fit \cup {c}
  /\ UNCHANGED <<content, base, settled, puts, closed, told>>

Put(c) ==
  /\ c \in fit /\ fit' = fit \ {c}
  /\ content' = Content[c] \/ (Short /\ content' = Part[Content[c]])
  /\ puts' = puts \cup {c}
  /\ UNCHANGED <<base, settled, closed, told>>

Drop ==
  /\ fit' \subseteq fit
  /\ UNCHANGED <<content, base, settled, puts, closed, told>>

Close(c) ==
  /\ c \notin puts \cup fit /\ closed' = closed \cup {c}
  /\ UNCHANGED <<content, base, settled, fit, puts, told>>

(* Somebody else writes the file.                                          *)
Other ==
  /\ content' \in Contents
  /\ UNCHANGED <<base, settled, fit, puts, closed, told>>

Tell(c, answer) ==
  /\ told[c] = "none" /\ told' = [told EXCEPT ![c] = answer]
  /\ answer \in Oks => \E d \in puts : Key(d) = Key(c)
  /\ answer \in Refused => \E d \in closed : Key(d) = Key(c)
  /\ UNCHANGED <<content, base, settled, fit, puts, closed>>

(* The call stops waiting, maybe before it has read the file.              *)
GiveUp(c) ==
  /\ told[c] = "none" /\ told' = [told EXCEPT ![c] = "no_result"]
  /\ settled' = settled \cup {c}
  /\ UNCHANGED <<content, base, fit, puts, closed>>

Next ==
  \/ Drop \/ Other
  \/ \E c \in Calls :
       \/ Settle(c) \/ Compare(c) \/ Put(c) \/ Close(c) \/ GiveUp(c)
       \/ \E answer \in Refused \cup Oks \cup {"io_error"} : Tell(c, answer)

Spec == Init /\ [][Next]_vars
=============================================================================
