------------------------------- MODULE DareLog -------------------------------
(***************************************************************************)
(* The circular log of include/dare/dare_log.h: offsets, the arithmetic on *)
(* them, reading and appending entries.  A log is a record with the fields *)
(* of dare_log_t.  Its bytes are the function mem: its domain is the set   *)
(* of offsets at which the last thing written is the start of an entry.    *)
(***************************************************************************)
EXTENDS Integers, Sequences

CONSTANTS LogLen,   \* log->len, the size of the buffer
          HdrLen    \* sizeof(dare_log_entry_t)

ASSUME LogAssumption ==
  /\ LogLen \in Nat
  /\ HdrLen \in Nat \ {0}
  /\ HdrLen <= LogLen

Types == {"NOOP", "CONFIG", "HEAD", "CSM"}

\* An entry that log_append_entry can build: its index, its type and cmd.len.
EntryOf(idx, type, len) == [idx |-> idx, type |-> type, len |-> len]

\* What a reader makes of bytes that are not the start of an entry.
Garbage == EntryOf(0, "NOOP", 0)

Offsets == 0 .. LogLen

\* The result of log_get_entry when it returns NULL.
NoOffset == -1

-----------------------------------------------------------------------------
(* Offset arithmetic *)

log_entry_len(entry) == HdrLen + IF entry.type = "CSM" THEN entry.len ELSE 0

log_fit_entry_header(offset) == LogLen - offset >= HdrLen

log_fit_entry(offset, entry) == LogLen - offset >= log_entry_len(entry)

log_offset_end_distance(end, offset) ==
  IF end = LogLen THEN 0
  ELSE IF end >= offset THEN end - offset
  ELSE LogLen - (offset - end)

\* loffset is closer to the end than roffset.
log_is_offset_larger(end, loffset, roffset) ==
  log_offset_end_distance(end, loffset) < log_offset_end_distance(end, roffset)

-----------------------------------------------------------------------------
(* Reading *)

log_new ==
  [mem |-> [o \in {} |-> Garbage],
   head |-> 0, apply |-> 0, commit |-> 0, tail |-> LogLen, end |-> LogLen]

is_log_empty(log) == log.end = LogLen

is_log_full(log) == log.end = log.head

\* The offset of the entry that a reader at this offset finds.
log_get_entry(log, offset) ==
  IF is_log_empty(log) \/ log_offset_end_distance(log.end, offset) = 0
  THEN NoOffset
  ELSE IF log_fit_entry_header(offset) THEN offset ELSE 0

EntryAt(log, offset) ==
  IF offset \in DOMAIN log.mem THEN log.mem[offset] ELSE Garbage

\* The offset behind the entry at this offset: an entry that does not fit
\* continues on the other side.
NextOffset(log, offset) ==
  LET entry == EntryAt(log, offset)
  IN  (IF log_fit_entry(offset, entry) THEN offset ELSE 0) + log_entry_len(entry)

\* The loop of log_entries_to_nc_buf, "while ((entry = log_get_entry(log,
\* &offset)) != NULL)": the entries it reads from this offset up to the end.
EntriesFrom(log, from) ==
  LET walk[n \in Offsets, offset \in Offsets] ==
        LET o == log_get_entry(log, offset)
        IN  IF n = 0 \/ o = NoOffset THEN << >>
            ELSE <<EntryAt(log, o)>> \o walk[n - 1, NextOffset(log, o)]
  IN  walk[LogLen, from]

\* One of the three loops of log_get_tail: the offset of the last entry that
\* the same traversal meets, LogLen when it meets none.
TailFrom(log, from) ==
  LET walk[n \in Offsets, offset \in Offsets, tail \in Offsets] ==
        LET o == log_get_entry(log, offset)
        IN  IF n = 0 \/ o = NoOffset THEN tail
            ELSE walk[n - 1, NextOffset(log, o), o]
  IN  walk[LogLen, from, LogLen]

\* Mutant of log_get_tail: only the entries that are not committed are searched.
log_get_tail_NoFallback(log) ==
  IF log.tail # LogLen THEN log.tail ELSE TailFrom(log, log.commit)

log_get_tail(log) ==
  IF log.tail # LogLen THEN log.tail
  ELSE IF TailFrom(log, log.commit) # LogLen THEN TailFrom(log, log.commit)
  ELSE IF TailFrom(log, log.apply) # LogLen THEN TailFrom(log, log.apply)
  ELSE TailFrom(log, log.head)

-----------------------------------------------------------------------------
(* Appending *)

\* Write an entry of len bytes at this offset.
WriteAt(mem, offset, entry, len) ==
  [o \in {offset} \cup (DOMAIN mem \ (offset .. offset + len - 1)) |->
     IF o = offset THEN entry ELSE mem[o]]

\* The index of the next entry.
NextIdx(log) ==
  LET last == log_get_entry(log, log.tail)
  IN  IF last = NoOffset THEN 1 ELSE EntryAt(log, last).idx + 1

\* The log once log_append_entry has returned, and the index it returns.  A
\* header is written at the end even when the command does not fit there; the
\* entry then goes to the beginning, and when the head is there the call fails
\* with the end moved.
log_append_entry(log, type, len) ==
  LET log1  == [log EXCEPT !.tail = log_get_tail(log)]
      entry == EntryOf(NextIdx(log1), type, len)
      end1  == IF log_fit_entry_header(log.end) THEN log.end ELSE 0
      log2  == [log1 EXCEPT !.mem = WriteAt(log.mem, end1, entry, HdrLen)]
      fits  == log_fit_entry(end1, entry)
      end2  == IF fits THEN end1 ELSE 0
      size  == log_entry_len(entry)
  IN  IF is_log_full(log1) THEN [log |-> log1, idx |-> 0]
      ELSE IF ~fits /\ log.head = 0 THEN [log |-> [log2 EXCEPT !.end = 0], idx |-> 0]
      ELSE [idx |-> entry.idx,
            log |-> [log2 EXCEPT !.tail = end2,
                                 !.end  = end2 + size,
                                 !.mem  = WriteAt(log2.mem, end2, entry, size)]]

-----------------------------------------------------------------------------
(* Applying *)

\* Mutant of ApplyLoop: the copy of the header that stands in front of the
\* place where a command does not fit is handed over as well.
ApplyLoop_Header(log) ==
  LET loop[n \in 0 .. 2 * LogLen, apply \in Offsets] ==
        IF n = 0 \/ ~log_is_offset_larger(log.end, log.commit, apply)
        THEN [apply |-> apply, seq |-> << >>]
        ELSE LET o     == log_get_entry(log, apply)
                 entry == EntryAt(log, o)
                 rest  == loop[n - 1, IF log_fit_entry(o, entry)
                                      THEN o + log_entry_len(entry) ELSE 0]
             IN  [rest EXCEPT !.seq = <<entry.idx>> \o @]
  IN  loop[2 * LogLen, log.apply]

\* The loop of apply_committed_entries from this apply offset: where it stops
\* and the indices of the entries it consumes.
ApplyLoop(log) ==
  LET loop[n \in 0 .. 2 * LogLen, apply \in Offsets] ==
        IF n = 0 \/ ~log_is_offset_larger(log.end, log.commit, apply)
        THEN [apply |-> apply, seq |-> << >>]
        ELSE LET o     == log_get_entry(log, apply)
                 entry == EntryAt(log, o)
             IN  IF ~log_fit_entry(o, entry) THEN loop[n - 1, 0]
                 ELSE LET rest == loop[n - 1, o + log_entry_len(entry)]
                      IN  [rest EXCEPT !.seq = <<entry.idx>> \o @]
  IN  loop[2 * LogLen, log.apply]
=============================================================================
