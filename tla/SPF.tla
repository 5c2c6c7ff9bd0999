--------------------------------- MODULE SPF ---------------------------------
(***************************************************************************)
(* The evaluation of a sender's SPF record for one client                  *)
(* (auth_checker/spf.py): _evaluate walks the terms of a record, includes   *)
(* and redirects call it again, and all calls draw on one budget of        *)
(* lookups.  The Python stack is the variable stack.  A record is what its *)
(* terms say about this client: the address tests of ip4, ip6, a, mx and   *)
(* exists have an outcome, and macros are expanded.                        *)
(***************************************************************************)
EXTENDS Naturals, Sequences

CONSTANTS Domains,
          Zones,      \* what the domains may publish: functions from Domains
          Sender,     \* the domain of the envelope sender
          Limit,      \* MAX_DNS_LOOKUPS
          MaxDepth    \* the bound on nested calls

Qualifiers == {"+", "-", "~", "?"}
Codes == {"pass", "fail", "softfail", "neutral", "none", "permerror"}

(* What a matching term decides.                                           *)
ResultOf == [q \in Qualifiers |->
  CASE q = "+" -> "pass" [] q = "-" -> "fail"
    [] q = "~" -> "softfail" [] q = "?" -> "neutral"]

(* The terms, by what they cost and decide.  "all" and "ip" are free;      *)
(* "name" is a or exists, one lookup; "mx" has one lookup for the list and *)
(* one for each exchange.                                                  *)
Terms ==
  [mech : {"all"}, q : Qualifiers]
  \cup [mech : {"ip", "name"}, q : Qualifiers, hit : BOOLEAN]
  \cup [mech : {"mx"}, q : Qualifiers, hits : Seq(BOOLEAN)]
  \cup [mech : {"include"}, q : Qualifiers, of : Domains]
  \cup [mech : {"redirect"}, of : Domains]

(* A domain has one record, none (or its lookup failed), or several.       *)
Published == [kind : {"none", "several"}] \cup [kind : {"record"}, terms : Seq(Terms)]

ASSUME SPFAssumption ==
  /\ Limit \in Nat /\ MaxDepth \in Nat
  /\ Sender \in Domains
  /\ \A z \in Zones : z \in [Domains -> Published]

VARIABLES zone,     \* the zone of this evaluation
          stack,    \* the calls of _evaluate underway, the innermost last:
                    \* the domain, the term it is at, the exchange it is at
          doing,    \* what the innermost call is about to do
          code,     \* what the call that has just ended returned
          used,     \* _LookupBudget.used
          queries,  \* the DNS queries sent
          cut       \* the budget ended inside a list of exchanges

spfvars == <<zone, stack, doing, code, used, queries, cut>>

Call == [dom : Domains, at : Nat \ {0}, mx : Nat]

SPFTypeOK ==
  /\ zone \in [Domains -> Published]
  /\ stack \in Seq(Call) /\ stack # << >>
  /\ doing \in {"fetch", "terms", "return", "done"}
  /\ code \in Codes
  /\ used \in Nat /\ queries \in Nat
  /\ cut \in BOOLEAN

EvaluateCall(d) == [dom |-> d, at |-> 1, mx |-> 0]

SPFInit ==
  /\ zone \in Zones
  /\ stack = <<EvaluateCall(Sender)>>
  /\ doing = "fetch" /\ code = "none"
  /\ used = 0 /\ queries = 0 /\ cut = FALSE

Top == stack[Len(stack)]
TermsOf(d) == zone[d].terms
AtTerm(mechs) ==
  /\ doing = "terms" /\ Top.mx = 0
  /\ Top.at <= Len(TermsOf(Top.dom))
  /\ TermsOf(Top.dom)[Top.at].mech \in mechs
Term == TermsOf(Top.dom)[Top.at]

Return(result) == doing' = "return" /\ code' = result
Continue(top) == stack' = [stack EXCEPT ![Len(stack)] = top] /\ UNCHANGED <<doing, code>>
NextTerm == Continue([dom |-> Top.dom, at |-> Top.at + 1, mx |-> 0])

(* A deliberate fault: one lookup too many.                                *)
Spend_OneMore == used <= Limit /\ used' = used + 1

(* _LookupBudget.spend, when it succeeds.                                  *)
Spend == used < Limit /\ used' = used + 1
Ask == queries' = queries + 1

(* _find_spf_record at the head of a call.  The failure of the query is    *)
(* swallowed and counts as no record.                                      *)
FetchRecord ==
  /\ doing = "fetch" /\ Len(stack) - 1 <= MaxDepth
  /\ Ask
  /\ \/ zone[Top.dom].kind = "several" /\ Return("permerror")
     \/ zone[Top.dom].kind = "none" /\ Return("none")
     \/ zone[Top.dom].kind = "record" /\ doing' = "terms" /\ UNCHANGED code
  /\ UNCHANGED <<zone, stack, used, cut>>

TooDeep ==
  /\ doing = "fetch" /\ Len(stack) - 1 > MaxDepth
  /\ Return("permerror")
  /\ UNCHANGED <<zone, stack, used, queries, cut>>

(* all, ip4 and ip6 need no lookup; a redirect is remembered for the end.  *)
FreeTerm ==
  /\ AtTerm({"all", "ip", "redirect"})
  /\ IF Term.mech = "all" \/ (Term.mech = "ip" /\ Term.hit)
     THEN Return(ResultOf[Term.q]) /\ UNCHANGED stack
     ELSE NextTerm
  /\ UNCHANGED <<zone, used, queries, cut>>

NameTerm ==
  /\ AtTerm({"name"})
  /\ Spend /\ Ask
  /\ IF Term.hit
     THEN Return(ResultOf[Term.q]) /\ UNCHANGED stack
     ELSE NextTerm
  /\ UNCHANGED <<zone, cut>>

(* The list of exchanges; a failed query has none.                         *)
MXTerm ==
  /\ AtTerm({"mx"})
  /\ Spend /\ Ask
  /\ IF Term.hits = << >> THEN NextTerm ELSE Continue([Top EXCEPT !.mx = 1])
  /\ UNCHANGED <<zone, cut>>

Exchange ==
  /\ doing = "terms" /\ Top.mx > 0
  /\ Spend /\ Ask
  /\ IF Term.hits[Top.mx]
     THEN Return(ResultOf[Term.q]) /\ UNCHANGED stack
     ELSE IF Top.mx = Len(Term.hits)
     THEN NextTerm
     ELSE Continue([Top EXCEPT !.mx = @ + 1])
  /\ UNCHANGED <<zone, cut>>

(* _mx_matches runs out of lookups: no match, and the walk goes on.        *)
ExchangesCut ==
  /\ doing = "terms" /\ Top.mx > 0 /\ used >= Limit
  /\ cut' = TRUE
  /\ NextTerm
  /\ UNCHANGED <<zone, used, queries>>

(* A nested call, for an include or for the redirect at the end.           *)
Nested(d) ==
  /\ Spend
  /\ stack' = Append(stack, EvaluateCall(d))
  /\ doing' = "fetch"
  /\ UNCHANGED <<zone, code, queries, cut>>

Include == AtTerm({"include"}) /\ Nested(Term.of)

AtEnd == doing = "terms" /\ Top.at > Len(TermsOf(Top.dom))
Redirects(d) == {i \in 1..Len(TermsOf(d)) : TermsOf(d)[i].mech = "redirect"}
IsLatest(d, i) == i \in Redirects(d) /\ \A j \in Redirects(d) : j <= i

(* The last redirect of the record counts.                                 *)
Redirect ==
  /\ AtEnd
  /\ \E i \in Redirects(Top.dom) :
       IsLatest(Top.dom, i) /\ Nested(TermsOf(Top.dom)[i].of)

NothingMatched ==
  /\ AtEnd /\ Redirects(Top.dom) = {}
  /\ Return("neutral")
  /\ UNCHANGED <<zone, stack, used, queries, cut>>

OutOfLookups ==
  /\ AtTerm({"name", "mx", "include"}) \/ (AtEnd /\ Redirects(Top.dom) # {})
  /\ used >= Limit
  /\ Return("permerror")
  /\ UNCHANGED <<zone, stack, used, queries, cut>>

(* A call ends.  For an include only a pass matches and only a permanent   *)
(* error ends the caller; a redirect's result is the caller's.             *)
Caller == stack[Len(stack) - 1]
Popped == SubSeq(stack, 1, Len(stack) - 1)

ForInclude == Caller.at <= Len(TermsOf(Caller.dom))
IncludedBy == TermsOf(Caller.dom)[Caller.at]

(* A deliberate fault: what the included record denies, the caller denies. *)
Returned_FailEnds ==
  /\ doing = "return" /\ Len(stack) > 1
  /\ IF ForInclude /\ code \notin {"pass", "fail", "permerror"}
     THEN /\ stack' = [Popped EXCEPT ![Len(stack) - 1] = [Caller EXCEPT !.at = @ + 1]]
          /\ doing' = "terms" /\ UNCHANGED code
     ELSE /\ stack' = Popped
          /\ Return(IF ForInclude /\ code = "pass" THEN ResultOf[IncludedBy.q] ELSE code)
  /\ UNCHANGED <<zone, used, queries, cut>>

Returned ==
  /\ doing = "return" /\ Len(stack) > 1
  /\ IF ForInclude /\ code \notin {"pass", "permerror"}
     THEN /\ stack' = [Popped EXCEPT ![Len(stack) - 1] = [Caller EXCEPT !.at = @ + 1]]
          /\ doing' = "terms" /\ UNCHANGED code
     ELSE /\ stack' = Popped
          /\ Return(IF ForInclude /\ code = "pass" THEN ResultOf[IncludedBy.q] ELSE code)
  /\ UNCHANGED <<zone, used, queries, cut>>

(* check_spf has its result.                                               *)
CheckSpfEnds ==
  /\ doing = "return" /\ Len(stack) = 1
  /\ doing' = "done"
  /\ UNCHANGED <<zone, stack, code, used, queries, cut>>

SPFNext ==
  \/ FetchRecord \/ TooDeep
  \/ FreeTerm \/ NameTerm \/ MXTerm \/ Exchange \/ ExchangesCut
  \/ Include \/ Redirect \/ NothingMatched \/ OutOfLookups
  \/ Returned \/ CheckSpfEnds

SPFSpec == SPFInit /\ [][SPFNext]_spfvars

-----------------------------------------------------------------------------
(* The ceiling on lookups holds over the whole tree of calls, loops of     *)
(* includes among them: at most Limit lookups are counted, no more queries *)
(* are sent than were counted (the sender's own record comes on top), and  *)
(* the calls nest no deeper than lookups were spent.                       *)
LookupsBounded ==
  /\ used <= Limit
  /\ queries <= used + 1
  /\ Len(stack) <= used + 1

(* What a record says when lookups are free: the first term that matches   *)
(* decides, otherwise the last redirect does, otherwise nothing.  An       *)
(* argument says has what the domains that the terms name say.             *)
Matches(says, t) ==
  \/ t.mech = "all"
  \/ t.mech \in {"ip", "name"} /\ t.hit
  \/ t.mech = "mx" /\ \E i \in 1..Len(t.hits) : t.hits[i]
  \/ t.mech = "include" /\ says[t.of] \in {"pass", "permerror"}

RecordSays(says, T) ==
  LET deciding == {i \in 1..Len(T) : Matches(says, T[i])}
      first == CHOOSE i \in deciding : \A j \in deciding : i <= j
      redirects == {i \in 1..Len(T) : T[i].mech = "redirect"}
      last == CHOOSE i \in redirects : \A j \in redirects : j <= i
  IN IF deciding # {}
     THEN IF T[first].mech = "include" /\ says[T[first].of] = "permerror"
          THEN "permerror" ELSE ResultOf[T[first].q]
     ELSE IF redirects # {} THEN says[T[last].of] ELSE "neutral"

DomainSays(says, published) ==
  CASE published.kind = "several" -> "permerror"
    [] published.kind = "none" -> "none"
    [] published.kind = "record" -> RecordSays(says, published.terms)

(* By how many calls may still be nested: what is reached with none left   *)
(* is an error.                                                            *)
SaysWithin(z) ==
  LET f[n \in 0..(MaxDepth + 1)] ==
        [d \in Domains |-> IF n = 0 THEN "permerror" ELSE DomainSays(f[n - 1], z[d])]
  IN f

Says == SaysWithin(zone)[MaxDepth + 1][Sender]

(* Running out of lookups is the only thing that comes between a record    *)
(* and its result: check_spf answers what the sender's record says, or     *)
(* permerror with the budget spent.  (A list of exchanges that is cut      *)
(* short is excepted: there the code goes on as if none had matched.)      *)
AnswerIsTheRecords ==
  doing = "done" /\ ~cut =>
    code = Says \/ (code = "permerror" /\ used = Limit)
=============================================================================
