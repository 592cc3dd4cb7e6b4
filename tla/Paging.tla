------------------------------- MODULE Paging -------------------------------
(***************************************************************************)
(* Bounded reads.  A client reads sessions, or the records around one, in  *)
(* pages: the records of a page share a budget of characters, in order,    *)
(* and the page says where the next one starts.  A record that did not fit *)
(* names the fields that were cut and where; each is read on by itself.    *)
(* The checks of a peer's answer, which an honest one passes, are left     *)
(* out.                                                                    *)
(*                                                                         *)
(* A record is the lengths of its text, tool input and tool output; a      *)
(* field that is missing has no characters.  A read without max_chars has  *)
(* a budget that nothing exhausts.  Sessions only grow while they are      *)
(* read; a client keeps to one kind of read, and asks for several sessions *)
(* at once in one order.                                                   *)
(*                                                                         *)
(* Source: src/read_budget.rs, src/machine.rs (read_session_pages,         *)
(* read_context, read_record).                                             *)
(***************************************************************************)
EXTENDS Naturals, Sequences, FiniteSets

CONSTANTS
    Shapes,     \* records, as triples of lengths
    Limits,     \* records a page may have at most
    Budgets,    \* max_chars a client may ask for
    MaxRecords  \* bound: records of each session

Fields == 1..3
Batch == 1..2    \* the sessions of one request, in its order

VARIABLES
    session,    \* the records of each session
    anchor,     \* the record a context is around, 0 when sessions are read
    place,      \* where the next page of each session starts
    got,        \* the characters of each record's fields the client has
    received,   \* how many characters were sent to it
    owed        \* the fields that were cut, and where they go on

paging_vars == <<session, anchor, place, got, received, owed>>

Least(a, b) == IF a < b THEN a ELSE b
Sum3(f) == f[1] + f[2] + f[3]
Nothing == [f \in Fields |-> {}]
Places == Batch \X (1..MaxRecords)

TypeOK ==
    /\ \A s \in Batch : session[s] \in Seq(Shapes) /\ Len(session[s]) <= MaxRecords
    /\ anchor \in 0..MaxRecords
    /\ place \in [Batch -> 0..MaxRecords]
    /\ DOMAIN got = Places /\ received \in Nat
    /\ owed \subseteq Places \X Fields \X Nat

Init ==
    /\ session \in [Batch -> UNION {[1..n -> Shapes] : n \in 0..MaxRecords}]
    /\ anchor \in 0..Len(session[1]) /\ (anchor # 0 => session[2] = <<>>)
    /\ place = [s \in Batch |-> 0]
    /\ got = [p \in Places |-> Nothing] /\ received = 0 /\ owed = {}

-----------------------------------------------------------------------------
(* ReadBudget::apply_all: how much of each field is taken.                 *)
ApplyAll(record, remaining) ==
    LET text == Least(remaining, record[1])
        input == Least(remaining - text, record[2])
        output == Least(remaining - text - input, record[3])
    IN <<text, input, output>>

(* ReadBudget::apply_field.                                                *)
ApplyField(record, field, offset, remaining) == Least(remaining, record[field] - offset)

(* apply_context_budget: a bounded context starts with its anchor and goes *)
(* on in order.  The record at a place of a session or context.            *)
At(s, i) ==
    IF anchor = 0 \/ s # 1
    THEN i
    ELSE CASE i = 1                   -> anchor
           [] i > 1 /\ i <= anchor    -> i - 1
           [] OTHER                   -> i

(* The records a page may have (records_for_session_page), by their places *)
(* in the session.                                                         *)
Candidates(s, limit) ==
    [i \in 1..Least(limit, Len(session[s]) - place[s]) |-> <<s, At(s, place[s] + i)>>]

RecordAt(p) == session[p[1]][p[2]]

(* A page goes on while something is left, so the last record may be cut.  *)
Included(page, left, i) == left[i - 1] > 0

(* apply_session_pages_budget, apply_context_budget: what is left of the   *)
(* budget after each of the records.                                       *)
Left(page, budget) ==
    LET left[i \in 0..Len(page)] ==
            IF i = 0 THEN budget
            ELSE left[i - 1] - Sum3(ApplyAll(RecordAt(page[i]), left[i - 1]))
    IN left

Taken(page, budget) == {i \in DOMAIN page : Included(page, Left(page, budget), i)}

(* A mutant of NextOffset: the last record, which may be cut, comes again. *)
NextOffsetOfLast(s, page, taken) ==
    LET mine == {i \in taken : page[i][1] = s}
    IN place[s] + Cardinality({i \in mine : \E j \in mine : i < j})

(* bounded_next_offset: where the page of a session ends.                  *)
NextOffset(s, page, taken) == place[s] + Cardinality({i \in taken : page[i][1] = s})

(* read_session_pages and read_context, answered here or by a peer.        *)
ReadPages(limit, budget) ==
    LET page == Candidates(1, limit) \o Candidates(2, limit)
        left == Left(page, budget)
        taken == Taken(page, budget)
        parts == [i \in taken |-> ApplyAll(RecordAt(page[i]), left[i - 1])]
    IN /\ taken # {}
       /\ place' = [s \in Batch |-> NextOffset(s, page, taken)]
       /\ got' = [p \in Places |-> [f \in Fields |->
                      got[p][f] \cup UNION {1..parts[i][f] : i \in {j \in taken : page[j] = p}}]]
       /\ received' = received + budget - left[Len(page)]
       /\ owed' = owed \cup {<<page[c[1]], c[2], parts[c[1]][c[2]]>> :
                                c \in {k \in taken \X Fields :
                                    parts[k[1]][k[2]] < RecordAt(page[k[1]])[k[2]]}}
       /\ UNCHANGED <<session, anchor>>

(* read_record with a field and an offset.                                 *)
ReadField(cut, budget) ==
    LET p == cut[1]  f == cut[2]  offset == cut[3]
        n == ApplyField(RecordAt(p), f, offset, budget)
    IN /\ got' = [got EXCEPT ![p][f] = @ \cup ((offset + 1)..(offset + n))]
       /\ received' = received + n
       /\ owed' = (owed \ {cut}) \cup
                      (IF offset + n < RecordAt(p)[f] THEN {<<p, f, offset + n>>} ELSE {})
       /\ UNCHANGED <<session, anchor, place>>

(* The program whose session it is goes on.                                *)
Grow(s, record) ==
    /\ Len(session[s]) < MaxRecords /\ (anchor # 0 => s = 1)
    /\ session' = [session EXCEPT ![s] = Append(@, record)]
    /\ UNCHANGED <<anchor, place, got, received, owed>>

Next ==
    \/ \E limit \in Limits, budget \in Budgets : ReadPages(limit, budget)
    \/ \E cut \in owed, budget \in Budgets : ReadField(cut, budget)
    \/ \E s \in Batch, record \in Shapes : Grow(s, record)

Spec == Init /\ [][Next]_paging_vars

-----------------------------------------------------------------------------
(* The characters of a record that its pages account for: all, or those    *)
(* before the place where a cut field goes on.                             *)
Covered(p, f) ==
    LET cuts == {cut \in owed : cut[1] = p /\ cut[2] = f}
    IN IF cuts = {} THEN 1..RecordAt(p)[f] ELSE UNION {1..cut[3] : cut \in cuts}

(* Whatever the limits and budgets of the pages, in whatever order cut     *)
(* fields are read on and however the sessions grow, following the offsets *)
(* gives every character of every record, in order and once; and the next  *)
(* page, however small its budget, goes on with the first session that is  *)
(* not read to its end.                                                    *)
WholeIsRead ==
    /\ \A s \in Batch : \A k \in 1..Len(session[s]) :
           LET p == <<s, At(s, k)>>
           IN got[p] = IF k <= place[s] THEN [f \in Fields |-> Covered(p, f)] ELSE Nothing
    /\ received = Cardinality({c \in Places \X Fields \X (1..received) :
                                 c[3] \in got[c[1]][c[2]]})
    /\ \A limit \in Limits, budget \in Budgets :
           LET page == Candidates(1, limit) \o Candidates(2, limit)
           IN page # <<>> => 1 \in Taken(page, budget)

=============================================================================
