----------------------------- MODULE JsonLines -----------------------------
(***************************************************************************)
(* A file of JSON lines as JsonlReliabilityStore and                       *)
(* JsonlSecurityAuditSink write it: a record is appended with its newline  *)
(* and flushed, and the whole file is read back line by line.              *)
(*                                                                         *)
(* A line is the record it was written for, whether it parses, and whether *)
(* it ends with a newline.  An append that fails or is interrupted leaves  *)
(* nothing, a part of the record, the record without its newline, or all   *)
(* of it; what is appended next continues a line without a newline.        *)
(***************************************************************************)
EXTENDS Naturals, Sequences

Line(rec, ok, closed) == [rec |-> rec, ok |-> ok, closed |-> closed]

Continues(f) == f # <<>> /\ ~f[Len(f)].closed

Extend(f, line) ==
    IF Continues(f)
    THEN [f EXCEPT ![Len(f)] = Line(@.rec, FALSE, line.closed)]
    ELSE Append(f, line)

(* write(payload + newline), flush and fsync returned. *)
Put(f, rec) == Extend(f, Line(rec, TRUE, TRUE))

(* The line was not finished: the write raised, or the process ended in it. *)
Interrupted(f, rec) ==
    {f, Extend(f, Line(rec, FALSE, FALSE)), Extend(f, Line(rec, TRUE, FALSE))}

(* An append that did not return: fsync may raise, or the process end,     *)
(* with the whole line written.                                            *)
Attempted(f, rec) == Interrupted(f, rec) \cup {Put(f, rec)}

(* The readers raise ValueError at the first line that does not parse. *)
Readable(f) == \A n \in DOMAIN f : f[n].ok

Records(f) == [n \in DOMAIN f |-> f[n].rec]

(* A file that is written anew from records. *)
Rewritten(records) == [n \in DOMAIN records |-> Line(records[n], TRUE, TRUE)]
=============================================================================
