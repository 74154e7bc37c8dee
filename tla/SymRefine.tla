----------------------------- MODULE SymRefine -----------------------------
(***************************************************************************)
(* How two metadata rows of one symbol become one (writer.rs): the row of  *)
(* a symbol is <<kind, lang, name>>, 0 is UNK for a kind or a language and *)
(* the empty string for a name.  What prefers_name asks of a name is given *)
(* by the constants, so the rule serves names that are numbers and names   *)
(* that are sequences of tokens.                                           *)
(***************************************************************************)
EXTENDS Integers

CONSTANTS
    Strings,        \* the strings that occur
    NoName,         \* the empty one
    Ticket(_),      \* does a name start with "kythe:"?
    Degenerate(_),  \* has a name no alphanumeric character?
    NameLen(_),     \* the length of a name in bytes
    Before(_, _)    \* the lexicographic order

UNK          == 0
KindVariable == 3
KindField    == 4

ASSUME NameAssumption ==
    /\ NoName \in Strings
    /\ ~Ticket(NoName) /\ ~Degenerate(NoName)
    /\ \A m \in Strings : /\ NameLen(m) \in Nat
                          /\ Ticket(m) \in BOOLEAN /\ Degenerate(m) \in BOOLEAN
                          /\ ~(Ticket(m) /\ Degenerate(m))
                          /\ ~Before(m, m)

ASSUME OrderAssumption ==
    \A m, n \in Strings :
        /\ Before(m, n) \in BOOLEAN
        /\ m # n => (Before(m, n) <=> ~Before(n, m))
        /\ \A o \in Strings : Before(m, n) /\ Before(n, o) => Before(m, o)

is_ticket_name(n)     == Ticket(n)
is_degenerate_name(n) == n = NoName \/ Degenerate(n)

(* Does cand replace cur?  A usable name beats a degenerate one, a human   *)
(* name beats a ticket, then the shorter, then the smaller one wins.       *)
prefers_name(cur, cand) ==
    /\ cand # NoName
    /\ \/ cur = NoName
       \/ is_degenerate_name(cur) /\ ~is_degenerate_name(cand)
       \/ /\ ~is_degenerate_name(cur)
          /\ ~is_degenerate_name(cand)
          /\ \/ is_ticket_name(cur) /\ ~is_ticket_name(cand)
             \/ /\ is_ticket_name(cur) = is_ticket_name(cand)
                /\ \/ NameLen(cand) < NameLen(cur)
                   \/ NameLen(cand) = NameLen(cur) /\ Before(cand, cur)

BetterName(cur, cand) == IF prefers_name(cur, cand) THEN cand ELSE cur

Known(cur, cand) == IF cur = UNK THEN cand ELSE cur

(* The one rule behind upsert_sym, merge_from and merge_syms_refine.       *)
Refine(old, new) ==
    <<Known(old[1], new[1]), Known(old[2], new[2]), BetterName(old[3], new[3])>>

(* merge_typed_by_sym's pick between two strings of one symbol.            *)
PickString(x, y) == IF x = NoName THEN y ELSE IF y = NoName THEN x
                    ELSE IF Before(y, x) THEN y ELSE x
=============================================================================
