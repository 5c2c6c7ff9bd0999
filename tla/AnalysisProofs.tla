--------------------------- MODULE AnalysisProofs ---------------------------
(***************************************************************************)
(* Proofs about the checks of a message: SPF and AuthChecks, Attachments,  *)
(* ContentChecks and the lookups that they wait for, ProviderLookup over   *)
(* CircuitBreaker.  For every zone, message, archive, limit and threshold, *)
(* and any number of messages and lookups at once.                         *)
(***************************************************************************)
EXTENDS SPF, AuthChecks, Attachments, ContentChecks, ProviderLookup,
        FoldLemmas

-----------------------------------------------------------------------------
(* SPF: the ceiling on lookups of auth_checker/spf.py.                     *)

(* Where the calls stand: each caller waits at an include, or behind its   *)
(* terms at the redirect, of a record; the innermost, if it walks, walks a *)
(* record, and the exchange it is at belongs to the mx term it is at.      *)
Waits(c) ==
  /\ zone[c.dom].kind = "record" /\ c.mx = 0
  /\ c.at <= Len(TermsOf(c.dom)) => TermsOf(c.dom)[c.at].mech = "include"
Walks ==
  /\ \A i \in 1..Len(stack) - 1 : Waits(stack[i])
  /\ doing = "fetch" => Top.mx = 0
  /\ doing = "terms" =>
       /\ zone[Top.dom].kind = "record"
       /\ Top.mx > 0 => /\ Top.at <= Len(TermsOf(Top.dom))
                        /\ Term.mech = "mx" /\ Top.mx <= Len(Term.hits)

(* The lookups that are counted pay for the queries and for the calls; the *)
(* query that opens a call is paid for when the call is made.              *)
Paid ==
  /\ used <= Limit
  /\ queries <= used + 1
  /\ doing = "fetch" => queries <= used
  /\ Len(stack) <= used + 1

SPFInv == SPFTypeOK /\ Walks /\ Paid

-----------------------------------------------------------------------------
(* What a term of each kind carries.                                       *)
LEMMA TermFields ==
  ASSUME NEW t \in Terms
  PROVE  /\ t.mech \in {"all", "ip", "name", "mx", "include", "redirect"}
         /\ t.mech # "redirect" => t.q \in Qualifiers
         /\ t.mech \in {"include", "redirect"} => t.of \in Domains
         /\ t.mech = "mx" => t.hits \in Seq(BOOLEAN)
BY DEF Terms

LEMMA RecordTerms ==
  ASSUME zone \in [Domains -> Published], NEW d \in Domains, zone[d].kind = "record"
  PROVE  TermsOf(d) \in Seq(Terms)
<1>1. zone[d] \in Published
  OBVIOUS
<1>. QED  BY <1>1 DEF Published, TermsOf

LEMMA ResultCodes == \A q \in Qualifiers : ResultOf[q] \in Codes \ {"none", "permerror"}
BY DEF Qualifiers, Codes, ResultOf

LEMMA TopCall == SPFTypeOK => Len(stack) \in Nat \ {0} /\ Top \in Call
BY DEF SPFTypeOK, Top

(* The innermost call moves on: the callers below it are as they were.     *)
LEMMA TopMoves ==
  ASSUME SPFInv, zone' = zone, NEW c \in Call,
         stack' = [stack EXCEPT ![Len(stack)] = c]
  PROVE  /\ stack' \in Seq(Call) /\ stack' # << >>
         /\ Len(stack') = Len(stack) /\ Top' = c
         /\ (\A i \in 1..Len(stack) - 1 : Waits(stack[i]))'
<1>1. stack \in Seq(Call) /\ Len(stack) \in Nat \ {0}
  BY TopCall DEF SPFInv, SPFTypeOK
<1>2. /\ stack' \in Seq(Call) /\ stack' # << >> /\ Len(stack') = Len(stack)
      /\ stack'[Len(stack)] = c
      /\ \A i \in 1..Len(stack) - 1 : stack'[i] = stack[i]
  BY <1>1
<1>3. ASSUME NEW i \in 1..Len(stack) - 1 PROVE Waits(stack[i])'
  BY <1>2, <1>3 DEF SPFInv, Walks, Waits, TermsOf
<1>. QED  BY <1>2, <1>3 DEF Top

(* A nested call is made: its caller waits.                                *)
LEMMA CallIsMade ==
  ASSUME SPFInv, Waits(Top), NEW d \in Domains, Nested(d)
  PROVE  SPFInv'
<1>1. stack \in Seq(Call) /\ Len(stack) \in Nat \ {0} /\ Top = stack[Len(stack)]
  BY TopCall DEF SPFInv, SPFTypeOK, Top
<1>2. EvaluateCall(d) \in Call
  BY DEF EvaluateCall, Call
<1>3. /\ stack' \in Seq(Call) /\ stack' # << >> /\ Len(stack') = Len(stack) + 1
      /\ \A i \in 1..Len(stack) : stack'[i] = stack[i]
  BY <1>1, <1>2 DEF Nested
<1>4. ASSUME NEW i \in 1..Len(stack') - 1 PROVE Waits(stack[i])'
  <2>1. stack'[i] = stack[i] /\ Waits(stack[i])
    BY <1>1, <1>3 DEF SPFInv, Walks
  <2>. QED  BY <2>1 DEF Nested, Waits, TermsOf
<1>5. SPFTypeOK'
  BY <1>3 DEF SPFInv, SPFTypeOK, Nested, Spend
<1>6. Walks'
  <2>1. Top'.mx = 0
    BY <1>1, <1>2 DEF Nested, Top, EvaluateCall
  <2>2. \A i \in 1..Len(stack') - 1 : Waits(stack[i])'
    BY <1>4
  <2>. QED  BY <2>1, <2>2 DEF Walks, Nested
<1>7. Paid'
  BY <1>1, <1>3, SPFAssumption DEF SPFInv, Paid, SPFTypeOK, Nested, Spend
<1>. QED  BY <1>5, <1>6, <1>7 DEF SPFInv

(* The term a walk is at, and what may be done about it.                   *)
LEMMA AtTermFacts ==
  ASSUME SPFInv, NEW S, AtTerm(S)
  PROVE  /\ doing = "terms" /\ Top \in Call /\ Top.mx = 0
         /\ Term \in Terms /\ Term.mech \in S
         /\ Top.at <= Len(TermsOf(Top.dom))
<1>1. Top \in Call
  BY TopCall DEF SPFInv
<1>2. TermsOf(Top.dom) \in Seq(Terms)
  BY <1>1, RecordTerms DEF SPFInv, Walks, AtTerm, SPFTypeOK, Call
<1>. QED  BY <1>1, <1>2 DEF AtTerm, Term, Call

(* A call that returns leaves every other part of the state alone.         *)
LEMMA ReturnKeeps ==
  ASSUME SPFInv, NEW result \in Codes, Return(result), zone' = zone, stack' = stack,
         used' \in Nat, used' <= Limit, used' >= used,
         queries' \in Nat, queries' <= used' + 1, cut' \in BOOLEAN
  PROVE  SPFInv'
<1>1. SPFTypeOK'
  BY DEF SPFInv, SPFTypeOK, Return
<1>2. Walks'
  BY DEF SPFInv, Walks, Waits, TermsOf, Return
<1>3. Paid'
  <2>1. Len(stack) \in Nat /\ Len(stack) <= used + 1 /\ used \in Nat
    BY TopCall DEF SPFInv, Paid, SPFTypeOK
  <2>2. Len(stack') <= used' + 1
    BY <2>1
  <2>3. doing' = "return"
    BY DEF Return
  <2>. QED  BY <2>2, <2>3 DEF Paid
<1>. QED  BY <1>1, <1>2, <1>3 DEF SPFInv

(* So does a walk that goes to another place in the same record.           *)
LEMMA ContinueKeeps ==
  ASSUME SPFInv, doing = "terms", NEW c \in Call, c.dom = Top.dom, Continue(c),
         c.mx > 0 => /\ c.at <= Len(TermsOf(c.dom))
                     /\ TermsOf(c.dom)[c.at].mech = "mx"
                     /\ c.mx <= Len(TermsOf(c.dom)[c.at].hits),
         zone' = zone, used' \in Nat, used' <= Limit, used' >= used,
         queries' \in Nat, queries' <= used' + 1, cut' \in BOOLEAN
  PROVE  SPFInv'
<1>1. Top \in Call /\ Len(stack) \in Nat \ {0}
  BY TopCall DEF SPFInv
<1>3. /\ stack' \in Seq(Call) /\ stack' # << >>
      /\ Len(stack') = Len(stack) /\ Top' = c
      /\ (\A i \in 1..Len(stack) - 1 : Waits(stack[i]))'
  BY TopMoves DEF Continue
<1>4. SPFTypeOK'
  BY <1>3 DEF SPFInv, SPFTypeOK, Continue
<1>5. Walks'
  BY <1>3 DEF SPFInv, Walks, TermsOf, Term, Continue
<1>6. Paid'
  <2>1. Len(stack) <= used + 1 /\ used \in Nat /\ doing' = "terms"
    BY DEF SPFInv, SPFTypeOK, Paid, Continue
  <2>2. Len(stack') <= used' + 1
    BY <1>1, <1>3, <2>1
  <2>. QED  BY <2>1, <2>2 DEF Paid
<1>. QED  BY <1>4, <1>5, <1>6 DEF SPFInv

LEMMA NextTermKeeps ==
  ASSUME SPFInv, doing = "terms", NextTerm,
         zone' = zone, used' \in Nat, used' <= Limit, used' >= used,
         queries' \in Nat, queries' <= used' + 1, cut' \in BOOLEAN
  PROVE  SPFInv'
<1>. DEFINE c == [dom |-> Top.dom, at |-> Top.at + 1, mx |-> 0]
<1>1. c \in Call /\ c.dom = Top.dom /\ ~(c.mx > 0)
  BY TopCall DEF SPFInv, Call
<1>2. Continue(c)
  BY DEF NextTerm
<1>. HIDE DEF c
<1>. QED  BY <1>1, <1>2, ContinueKeeps

-----------------------------------------------------------------------------
(* The actions.                                                            *)

LEMMA FetchKeeps == SPFInv /\ FetchRecord => SPFInv'
<1>. SUFFICES ASSUME SPFInv, FetchRecord PROVE SPFInv'
  OBVIOUS
<1>1. /\ doing = "fetch" /\ zone' = zone /\ stack' = stack /\ used' = used /\ cut' = cut
      /\ used \in Nat /\ used <= Limit /\ queries \in Nat /\ queries + 1 <= used + 1
      /\ queries' = queries + 1
      /\ Top \in Call /\ Len(stack) \in Nat \ {0} /\ cut \in BOOLEAN
  BY TopCall DEF SPFInv, SPFTypeOK, Paid, FetchRecord, Ask
<1>2. CASE doing' = "return"
  <2>1. \E result \in Codes : Return(result)
    BY <1>2 DEF FetchRecord, Return, Codes
  <2>. QED  BY <1>1, <2>1, SPFAssumption, ReturnKeeps
<1>3. CASE zone[Top.dom].kind = "record" /\ doing' = "terms" /\ UNCHANGED code
  <2>1. SPFTypeOK'
    BY <1>1, <1>3 DEF SPFInv, SPFTypeOK
  <2>2. Top' = Top /\ Top.mx = 0
    BY <1>1 DEF SPFInv, Walks, Top
  <2>3. Walks'
    BY <1>1, <1>3, <2>2 DEF SPFInv, Walks, Waits, TermsOf
  <2>4. Paid'
    BY <1>1, <1>3 DEF SPFInv, Paid
  <2>. QED  BY <2>1, <2>3, <2>4 DEF SPFInv
<1>. QED  BY <1>2, <1>3 DEF FetchRecord, Return

LEMMA TooDeepKeeps == SPFInv /\ TooDeep => SPFInv'
BY ReturnKeeps DEF SPFInv, SPFTypeOK, Paid, TooDeep, Codes

LEMMA FreeTermKeeps == SPFInv /\ FreeTerm => SPFInv'
<1>. SUFFICES ASSUME SPFInv, FreeTerm PROVE SPFInv'
  OBVIOUS
<1>1. /\ zone' = zone /\ used' = used /\ queries' = queries /\ cut' = cut
      /\ used \in Nat /\ used <= Limit /\ queries \in Nat /\ queries <= used + 1
      /\ cut \in BOOLEAN
  BY DEF SPFInv, SPFTypeOK, Paid, FreeTerm
<1>2. /\ doing = "terms" /\ Top \in Call /\ Top.at + 1 \in Nat \ {0}
      /\ Term \in Terms /\ Term.mech \in {"all", "ip", "redirect"}
  BY AtTermFacts DEF FreeTerm, Call
<1>3. CASE Return(ResultOf[Term.q]) /\ UNCHANGED stack /\ Term.mech \in {"all", "ip"}
  <2>1. ResultOf[Term.q] \in Codes
    BY <1>2, <1>3, TermFields, ResultCodes
  <2>. QED  BY <1>1, <1>3, <2>1, SPFAssumption, ReturnKeeps
<1>4. CASE NextTerm
  BY <1>1, <1>2, <1>4, SPFAssumption, NextTermKeeps
<1>. QED  BY <1>2, <1>3, <1>4 DEF FreeTerm

LEMMA NameTermKeeps == SPFInv /\ NameTerm => SPFInv'
<1>. SUFFICES ASSUME SPFInv, NameTerm PROVE SPFInv'
  OBVIOUS
<1>1. /\ zone' = zone /\ cut' = cut /\ cut \in BOOLEAN /\ used \in Nat
      /\ used' \in Nat /\ used' <= Limit /\ used' >= used
      /\ queries' \in Nat /\ queries' <= used' + 1
  BY SPFAssumption DEF SPFInv, SPFTypeOK, Paid, NameTerm, Spend, Ask
<1>2. /\ doing = "terms" /\ Top \in Call /\ Top.at + 1 \in Nat \ {0}
      /\ Term \in Terms /\ Term.mech \in {"name"}
  BY AtTermFacts DEF NameTerm, Call
<1>3. CASE Return(ResultOf[Term.q]) /\ UNCHANGED stack
  <2>1. ResultOf[Term.q] \in Codes
    BY <1>2, TermFields, ResultCodes
  <2>. QED  BY <1>1, <1>3, <2>1, ReturnKeeps
<1>4. CASE NextTerm
  BY <1>1, <1>2, <1>4, NextTermKeeps
<1>. QED  BY <1>3, <1>4 DEF NameTerm

LEMMA MXTermKeeps == SPFInv /\ MXTerm => SPFInv'
<1>. SUFFICES ASSUME SPFInv, MXTerm PROVE SPFInv'
  OBVIOUS
<1>1. /\ zone' = zone /\ cut' = cut /\ cut \in BOOLEAN /\ used \in Nat
      /\ used' \in Nat /\ used' <= Limit /\ used' >= used
      /\ queries' \in Nat /\ queries' <= used' + 1
  BY SPFAssumption DEF SPFInv, SPFTypeOK, Paid, MXTerm, Spend, Ask
<1>2. /\ doing = "terms" /\ Top \in Call /\ Top.at \in Nat \ {0} /\ Top.at + 1 \in Nat \ {0}
      /\ Term \in Terms /\ Term.mech = "mx" /\ Top.at <= Len(TermsOf(Top.dom))
  BY AtTermFacts DEF MXTerm, Call
<1>3. CASE NextTerm
  BY <1>1, <1>2, <1>3, NextTermKeeps
<1>4. CASE Term.hits # << >> /\ Continue([Top EXCEPT !.mx = 1])
  <2>1. Term.hits \in Seq(BOOLEAN)
    BY <1>2, TermFields
  <2>2. 1 <= Len(Term.hits)
    BY <1>4, <2>1
  <2>3. /\ [Top EXCEPT !.mx = 1] \in Call
        /\ [Top EXCEPT !.mx = 1].dom = Top.dom
        /\ [Top EXCEPT !.mx = 1].at = Top.at
        /\ [Top EXCEPT !.mx = 1].mx = 1
    BY <1>2 DEF Call
  <2>. QED  BY <1>1, <1>2, <1>4, <2>2, <2>3, ContinueKeeps DEF Term
<1>. QED  BY <1>3, <1>4 DEF MXTerm

LEMMA ExchangeKeeps == SPFInv /\ Exchange => SPFInv'
<1>. SUFFICES ASSUME SPFInv, Exchange PROVE SPFInv'
  OBVIOUS
<1>1. /\ zone' = zone /\ cut' = cut /\ cut \in BOOLEAN /\ used \in Nat
      /\ used' \in Nat /\ used' <= Limit /\ used' >= used
      /\ queries' \in Nat /\ queries' <= used' + 1
  BY SPFAssumption DEF SPFInv, SPFTypeOK, Paid, Exchange, Spend, Ask
<1>2. /\ doing = "terms" /\ Top \in Call /\ Top.at \in Nat \ {0} /\ Top.mx \in Nat
      /\ Top.at <= Len(TermsOf(Top.dom)) /\ Term.mech = "mx" /\ Top.mx <= Len(Term.hits)
  BY TopCall DEF SPFInv, Walks, Exchange, Call
<1>3. Term \in Terms
  BY <1>2, RecordTerms DEF SPFInv, SPFTypeOK, Walks, Call, Term
<1>4. CASE Return(ResultOf[Term.q]) /\ UNCHANGED stack
  <2>1. ResultOf[Term.q] \in Codes
    BY <1>2, <1>3, TermFields, ResultCodes
  <2>. QED  BY <1>1, <1>4, <2>1, ReturnKeeps
<1>5. CASE NextTerm
  BY <1>1, <1>2, <1>5, NextTermKeeps
<1>6. CASE Top.mx # Len(Term.hits) /\ Continue([Top EXCEPT !.mx = @ + 1])
  <2>. DEFINE c == [Top EXCEPT !.mx = @ + 1]
  <2>1. /\ c \in Call /\ c.dom = Top.dom /\ c.at = Top.at /\ c.mx = Top.mx + 1
    BY <1>2 DEF Call
  <2>2. Term.hits \in Seq(BOOLEAN)
    BY <1>2, <1>3, TermFields
  <2>3. Top.mx + 1 <= Len(Term.hits)
    BY <1>2, <1>6, <2>2
  <2>4. Continue(c)
    BY <1>6
  <2>. HIDE DEF c
  <2>. QED  BY <1>1, <1>2, <2>1, <2>3, <2>4, ContinueKeeps DEF Term
<1>. QED  BY <1>4, <1>5, <1>6 DEF Exchange

LEMMA ExchangesCutKeeps == SPFInv /\ ExchangesCut => SPFInv'
<1>. SUFFICES ASSUME SPFInv, ExchangesCut PROVE SPFInv'
  OBVIOUS
<1>1. /\ zone' = zone /\ cut' \in BOOLEAN /\ used' = used /\ queries' = queries
      /\ used \in Nat /\ used <= Limit /\ queries \in Nat /\ queries <= used + 1
  BY DEF SPFInv, SPFTypeOK, Paid, ExchangesCut
<1>. QED  BY <1>1, SPFAssumption, NextTermKeeps DEF ExchangesCut

LEMMA IncludeKeeps == SPFInv /\ Include => SPFInv'
<1>. SUFFICES ASSUME SPFInv, Include PROVE SPFInv'
  OBVIOUS
<1>1. /\ doing = "terms" /\ Top.mx = 0 /\ Term \in Terms /\ Term.mech = "include"
  BY AtTermFacts DEF Include
<1>2. Term.of \in Domains
  BY <1>1, TermFields
<1>3. Waits(Top)
  BY <1>1 DEF SPFInv, Walks, Waits, Term
<1>. QED  BY <1>2, <1>3, CallIsMade DEF Include

LEMMA RedirectKeeps == SPFInv /\ Redirect => SPFInv'
<1>. SUFFICES ASSUME SPFInv, Redirect PROVE SPFInv'
  OBVIOUS
<1>1. /\ Top \in Call /\ zone[Top.dom].kind = "record" /\ Top.at > Len(TermsOf(Top.dom))
      /\ TermsOf(Top.dom) \in Seq(Terms)
  BY TopCall, RecordTerms DEF SPFInv, SPFTypeOK, Walks, Redirect, AtEnd, Call
<1>2. Waits(Top)
  BY <1>1 DEF SPFInv, Walks, Waits, Redirect, AtEnd, Call
<1>3. PICK i \in Redirects(Top.dom) : Nested(TermsOf(Top.dom)[i].of)
  BY DEF Redirect
<1>4. TermsOf(Top.dom)[i].of \in Domains
  BY <1>1, <1>3, TermFields DEF Redirects
<1>. QED  BY <1>2, <1>3, <1>4, CallIsMade

LEMMA NothingMatchedKeeps == SPFInv /\ NothingMatched => SPFInv'
BY ReturnKeeps DEF SPFInv, SPFTypeOK, Paid, NothingMatched, Codes

LEMMA OutOfLookupsKeeps == SPFInv /\ OutOfLookups => SPFInv'
BY ReturnKeeps DEF SPFInv, SPFTypeOK, Paid, OutOfLookups, Codes

LEMMA CheckSpfEndsKeeps == SPFInv /\ CheckSpfEnds => SPFInv'
<1>. SUFFICES ASSUME SPFInv, CheckSpfEnds PROVE SPFInv'
  OBVIOUS
<1>1. SPFTypeOK' /\ Paid'
  BY DEF SPFInv, SPFTypeOK, Paid, CheckSpfEnds
<1>2. Walks'
  BY DEF SPFInv, Walks, Waits, TermsOf, CheckSpfEnds
<1>. QED  BY <1>1, <1>2 DEF SPFInv

LEMMA ReturnedKeeps == SPFInv /\ Returned => SPFInv'
<1>. SUFFICES ASSUME SPFInv, Returned PROVE SPFInv'
  OBVIOUS
<1>0. stack \in Seq(Call) /\ Len(stack) \in Nat /\ Len(stack) > 1
  BY DEF SPFInv, SPFTypeOK, Returned
<1>. DEFINE n == Len(stack) - 1
<1>1. n \in Nat \ {0} /\ zone' = zone /\ used' = used /\ queries' = queries /\ cut' = cut
  <2>1. \A k \in Nat : k > 1 => k - 1 \in Nat \ {0}
    OBVIOUS
  <2>2. UNCHANGED <<zone, used, queries, cut>>
    BY DEF Returned
  <2>. QED  BY <1>0, <2>1, <2>2
<1>2. /\ Popped \in Seq(Call) /\ Len(Popped) = n
      /\ \A i \in 1..n : Popped[i] = stack[i]
  BY <1>0 DEF Popped
<1>3. /\ Caller = stack[n] /\ Caller \in Call /\ Waits(Caller)
      /\ \A i \in 1..n : Waits(stack[i])
  <2>1. \A i \in 1..n : Waits(stack[i])
    BY DEF SPFInv, Walks
  <2>. QED  BY <1>0, <1>1, <2>1 DEF Caller
<1>. HIDE DEF n
<1>4. CASE doing' = "terms" /\ code' = code
           /\ stack' = [Popped EXCEPT ![n] = [Caller EXCEPT !.at = @ + 1]]
  <2>1. [Caller EXCEPT !.at = @ + 1] \in Call /\ [Caller EXCEPT !.at = @ + 1].mx = 0
        /\ [Caller EXCEPT !.at = @ + 1].dom = Caller.dom
    BY <1>3 DEF Waits, Call
  <2>2. /\ stack' \in Seq(Call) /\ Len(stack') = n /\ stack' # << >>
        /\ stack'[n] = [Caller EXCEPT !.at = @ + 1]
        /\ \A i \in 1..n - 1 : stack'[i] = stack[i]
    BY <1>1, <1>2, <1>4, <2>1
  <2>3. SPFTypeOK'
    BY <1>1, <1>4, <2>2 DEF SPFInv, SPFTypeOK
  <2>4. ASSUME NEW i \in 1..n - 1 PROVE Waits(stack[i])'
    <3>1. stack'[i] = stack[i] /\ Waits(stack[i]) /\ zone' = zone
      BY <1>1, <1>3, <2>2
    <3> QED BY <3>1 DEF Waits, TermsOf
  <2>5. Top' = [Caller EXCEPT !.at = @ + 1]
    BY <2>2 DEF Top
  <2>6. zone'[Top'.dom].kind = "record" /\ ~(Top'.mx > 0)
    BY <1>1, <1>3, <2>1, <2>5 DEF Waits
  <2>7. Walks'
    BY <1>4, <2>2, <2>4, <2>6 DEF Walks
  <2>8. Paid'
    BY <1>1, <1>4, <2>2 DEF SPFInv, SPFTypeOK, Paid, n
  <2>. QED  BY <2>3, <2>7, <2>8 DEF SPFInv
<1>5. CASE \E result \in Codes : Return(result) /\ stack' = Popped
  <2>1. SPFTypeOK'
    BY <1>1, <1>2, <1>5 DEF SPFInv, SPFTypeOK, Return
  <2>2. Walks'
    <3>1. doing' = "return" /\ zone' = zone /\ Len(stack') = n
      BY <1>1, <1>2, <1>5 DEF Return
    <3>2. ASSUME NEW i \in 1..n - 1 PROVE Waits(stack[i])'
      <4>1. stack'[i] = stack[i] /\ Waits(stack[i])
        BY <1>1, <1>2, <1>3, <1>5
      <4> QED BY <3>1, <4>1 DEF Waits, TermsOf
    <3>3. \A i \in 1..n - 1 : stack'[i] = stack[i]
      BY <1>1, <1>2, <1>5
    <3> QED BY <3>1, <3>2, <3>3 DEF Walks
  <2>3. Paid'
    BY <1>1, <1>2, <1>5 DEF SPFInv, SPFTypeOK, Paid, Return, n
  <2>. QED  BY <2>1, <2>2, <2>3 DEF SPFInv
<1>6. ASSUME ForInclude PROVE ResultOf[IncludedBy.q] \in Codes
  <2>1. TermsOf(Caller.dom) \in Seq(Terms)
    BY <1>3, RecordTerms DEF SPFInv, SPFTypeOK, Waits, Call
  <2>2. IncludedBy \in Terms /\ IncludedBy.mech = "include"
    BY <1>3, <1>6, <2>1 DEF ForInclude, IncludedBy, Waits, Call
  <2>. QED  BY <2>2, TermFields, ResultCodes
<1>7. code \in Codes
  BY DEF SPFInv, SPFTypeOK
<1>8. CASE ForInclude /\ code \notin {"pass", "permerror"}
  BY <1>4, <1>8 DEF Returned, n
<1>9. CASE ~(ForInclude /\ code \notin {"pass", "permerror"})
  BY <1>5, <1>6, <1>7, <1>9 DEF Returned
<1>. QED  BY <1>8, <1>9

-----------------------------------------------------------------------------
LEMMA InvInit == SPFInit => SPFInv
<1>. SUFFICES ASSUME SPFInit PROVE SPFInv
  OBVIOUS
<1>1. EvaluateCall(Sender) \in Call /\ EvaluateCall(Sender).mx = 0
  BY SPFAssumption DEF EvaluateCall, Call
<1>2. stack \in Seq(Call) /\ Len(stack) = 1 /\ Top = EvaluateCall(Sender)
  BY <1>1 DEF SPFInit, Top
<1>3. SPFTypeOK
  BY <1>2, SPFAssumption DEF SPFInit, SPFTypeOK, Codes
<1>4. Walks
  BY <1>1, <1>2 DEF SPFInit, Walks
<1>5. Paid
  BY <1>2, SPFAssumption DEF SPFInit, Paid
<1>. QED  BY <1>3, <1>4, <1>5 DEF SPFInv

LEMMA InvNext == SPFInv /\ [SPFNext]_spfvars => SPFInv'
<1>. SUFFICES ASSUME SPFInv, [SPFNext]_spfvars PROVE SPFInv'
  OBVIOUS
<1>1. CASE FetchRecord      BY <1>1, FetchKeeps
<1>2. CASE TooDeep          BY <1>2, TooDeepKeeps
<1>3. CASE FreeTerm         BY <1>3, FreeTermKeeps
<1>4. CASE NameTerm         BY <1>4, NameTermKeeps
<1>5. CASE MXTerm           BY <1>5, MXTermKeeps
<1>6. CASE Exchange         BY <1>6, ExchangeKeeps
<1>7. CASE ExchangesCut     BY <1>7, ExchangesCutKeeps
<1>8. CASE Include          BY <1>8, IncludeKeeps
<1>9. CASE Redirect         BY <1>9, RedirectKeeps
<1>10. CASE NothingMatched  BY <1>10, NothingMatchedKeeps
<1>11. CASE OutOfLookups    BY <1>11, OutOfLookupsKeeps
<1>12. CASE Returned        BY <1>12, ReturnedKeeps
<1>13. CASE CheckSpfEnds    BY <1>13, CheckSpfEndsKeeps
<1>14. CASE UNCHANGED spfvars
  BY <1>14 DEF spfvars, SPFInv, SPFTypeOK, Walks, Waits, Paid, TermsOf, Top, Term
<1>. QED  BY <1>1, <1>2, <1>3, <1>4, <1>5, <1>6, <1>7, <1>8, <1>9, <1>10, <1>11,
             <1>12, <1>13, <1>14 DEF SPFNext

LEMMA InvAlways == SPFSpec => []SPFInv
BY InvInit, InvNext, PTL DEF SPFSpec

(* Every variable keeps its type: in particular the walk never reads a     *)
(* term of a domain that has no record, nor past the end of one.           *)
THEOREM SPFTypeCorrect == SPFSpec => []SPFTypeOK
<1>1. SPFInv => SPFTypeOK
  BY DEF SPFInv
<1>. QED  BY <1>1, InvAlways, PTL

(* _LookupBudget bounds the whole tree of calls: however the records       *)
(* include one another, no more than Limit lookups are counted, no more    *)
(* queries sent than those and the first, no deeper nesting reached.       *)
THEOREM BudgetHolds == SPFSpec => []LookupsBounded
<1>1. SPFInv => LookupsBounded
  BY DEF SPFInv, Paid, LookupsBounded
<1>. QED  BY <1>1, InvAlways, PTL

(* With the code's two limits (ten and ten) the check on the depth decides *)
(* nothing: a nested call has spent a lookup, and these run out first.     *)
THEOREM DepthNeverDecides ==
  ASSUME MaxDepth >= Limit
  PROVE  SPFSpec => [][~TooDeep]_spfvars
<1>1. SPFInv => ~TooDeep
  BY TopCall, SPFAssumption DEF SPFInv, SPFTypeOK, Paid, TooDeep
<1>. QED  BY <1>1, InvAlways, PTL

-----------------------------------------------------------------------------
(* SPF: the answer is what the records say.                                *)

(* None of the terms before n matches; the term n, or the last redirect    *)
(* behind them all, names the domain d.                                    *)
Passed(T, says, n) == \A j \in 1..Len(T) : j < n => ~Matches(says, T[j])

CallsFor(T, n, d) ==
  IF n <= Len(T) THEN T[n].of = d
  ELSE \E i \in 1..Len(T) : /\ T[i].mech = "redirect" /\ T[i].of = d
                            /\ \A j \in 1..Len(T) : T[j].mech = "redirect" => j <= i

LEMMA TermDecides ==
  ASSUME NEW says, NEW T \in Seq(Terms), NEW n \in 1..Len(T), Passed(T, says, n), Matches(says, T[n])
  PROVE  RecordSays(says, T) = IF T[n].mech = "include" /\ says[T[n].of] = "permerror"
                               THEN "permerror" ELSE ResultOf[T[n].q]
<1> DEFINE deciding == {i \in 1..Len(T) : Matches(says, T[i])}
           first == CHOOSE i \in deciding : \A j \in deciding : i <= j
<1>1. n \in deciding /\ \A j \in deciding : j \in Nat /\ n <= j
  BY DEF Passed
<1>2. first \in deciding /\ \A j \in deciding : first <= j
  <2> HIDE DEF deciding
  <2>1. \E i \in deciding : \A j \in deciding : i <= j
    BY <1>1
  <2> QED BY <2>1, Zenon
<1>3. first = n
  <2>1. first \in Nat /\ n <= first /\ first <= n
    BY <1>1, <1>2
  <2> QED BY <2>1
<1>4. deciding # {}
  BY <1>1
<1>5. RecordSays(says, T) = IF T[first].mech = "include" /\ says[T[first].of] = "permerror"
                            THEN "permerror" ELSE ResultOf[T[first].q]
  BY <1>4, Zenon DEF RecordSays
<1> HIDE DEF first, deciding
<1> QED BY <1>3, <1>5

LEMMA RedirectDecides ==
  ASSUME NEW says, NEW T \in Seq(Terms), NEW n \in Nat, n > Len(T), Passed(T, says, n),
         NEW d, CallsFor(T, n, d)
  PROVE  RecordSays(says, T) = says[d]
<1> DEFINE deciding == {i \in 1..Len(T) : Matches(says, T[i])}
           redirects == {i \in 1..Len(T) : T[i].mech = "redirect"}
           last == CHOOSE i \in redirects : \A j \in redirects : j <= i
<1>1. deciding = {}
  BY DEF Passed
<1>2. ~(n <= Len(T))
  OBVIOUS
<1>3. PICK i \in 1..Len(T) : /\ T[i].mech = "redirect" /\ T[i].of = d
                             /\ \A j \in 1..Len(T) : T[j].mech = "redirect" => j <= i
  BY <1>2 DEF CallsFor
<1>4. i \in redirects /\ \A j \in redirects : j \in Nat /\ j <= i
  BY <1>3
<1>5. last \in redirects /\ \A j \in redirects : j <= last
  <2> HIDE DEF redirects
  <2>1. \E k \in redirects : \A j \in redirects : j <= k
    BY <1>4
  <2> QED BY <2>1, Zenon
<1>6. last = i
  <2>1. last \in Nat /\ i \in Nat /\ i <= last /\ last <= i
    BY <1>4, <1>5
  <2> QED BY <2>1
<1>7. redirects # {}
  BY <1>4
<1>8. RecordSays(says, T) = says[T[last].of]
  BY <1>1, <1>7, Zenon DEF RecordSays
<1> HIDE DEF last, redirects, deciding
<1> QED BY <1>3, <1>6, <1>8

LEMMA NothingDecides ==
  ASSUME NEW says, NEW T \in Seq(Terms), NEW n \in Nat, n > Len(T), Passed(T, says, n),
         \A i \in 1..Len(T) : T[i].mech # "redirect"
  PROVE  RecordSays(says, T) = "neutral"
<1>1. {i \in 1..Len(T) : Matches(says, T[i])} = {}
  BY DEF Passed
<1>2. {i \in 1..Len(T) : T[i].mech = "redirect"} = {}
  OBVIOUS
<1> QED BY <1>1, <1>2, Zenon DEF RecordSays

LEMMA RecordCode ==
  ASSUME NEW says \in [Domains -> Codes], NEW T \in Seq(Terms)
  PROVE  RecordSays(says, T) \in Codes
<1>1. \A i \in 1..Len(T) : T[i] \in Terms
  OBVIOUS
<1>2. PICK l \in Nat : l = Len(T)
  OBVIOUS
<1>3. CASE \E i \in 1..Len(T) : Matches(says, T[i])
  <2> DEFINE D == {i \in 1..Len(T) : Matches(says, T[i])}
  <2>1. D \in SUBSET Nat /\ D # {}
    BY <1>3
  <2>2. PICK n \in D : \A m \in D : n <= m
    BY <2>1, LeastNatural
  <2>3. n \in 1..Len(T) /\ Matches(says, T[n]) /\ Passed(T, says, n)
    BY <1>2, <2>2 DEF Passed
  <2>4. T[n].mech # "redirect" /\ T[n] \in Terms
    BY <1>1, <2>3 DEF Matches
  <2>5. ResultOf[T[n].q] \in Codes
    BY <2>4, TermFields, ResultCodes
  <2>6. "permerror" \in Codes
    BY DEF Codes
  <2> QED BY <2>3, <2>5, <2>6, TermDecides
<1>4. CASE ~\E i \in 1..Len(T) : Matches(says, T[i])
  <2>1. Passed(T, says, l + 1) /\ l + 1 \in Nat /\ l + 1 > Len(T)
    BY <1>2, <1>4 DEF Passed
  <2>2. CASE \A i \in 1..Len(T) : T[i].mech # "redirect"
    <3>1. "neutral" \in Codes
      BY DEF Codes
    <3> QED BY <2>1, <2>2, <3>1, NothingDecides
  <2>3. CASE ~\A i \in 1..Len(T) : T[i].mech # "redirect"
    <3> DEFINE R == {i \in 1..l : T[i].mech = "redirect"}
    <3>1. R \in SUBSET (1..l) /\ R # {}
      BY <1>2, <2>3
    <3>2. Max(R) \in R /\ \A j \in R : j <= Max(R)
      BY <3>1, Greatest
    <3>3. PICK i : i = Max(R)
      OBVIOUS
    <3>4. /\ i \in 1..Len(T) /\ T[i].mech = "redirect"
          /\ \A j \in 1..Len(T) : T[j].mech = "redirect" => j <= i
      BY <1>2, <3>2, <3>3
    <3>5. CallsFor(T, l + 1, T[i].of)
      BY <1>2, <3>4 DEF CallsFor
    <3>6. T[i].of \in Domains
      BY <1>1, <3>4, TermFields
    <3>7. RecordSays(says, T) = says[T[i].of]
      BY <2>1, <3>5, RedirectDecides
    <3> QED BY <3>6, <3>7
  <2> QED BY <2>2, <2>3
<1> QED BY <1>3, <1>4

LEMMA DomainCode ==
  ASSUME NEW says \in [Domains -> Codes], NEW p \in Published
  PROVE  DomainSays(says, p) \in Codes
<1>1. p.kind \in {"none", "several", "record"} /\ (p.kind = "record" => p.terms \in Seq(Terms))
  BY DEF Published
<1>2. "permerror" \in Codes /\ "none" \in Codes
  BY DEF Codes
<1> QED BY <1>1, <1>2, RecordCode DEF DomainSays

(* The reference is defined, by the depth that is left.                    *)
IsSays(f, z) ==
  f = [n \in 0..(MaxDepth + 1) |->
         [d \in Domains |-> IF n = 0 THEN "permerror" ELSE DomainSays(f[n - 1], z[d])]]

LEMMA SaysIsChosen ==
  ASSUME NEW z
  PROVE  SaysWithin(z) = CHOOSE f : IsSays(f, z)
BY Zenon DEF SaysWithin, IsSays

LEMMA SaysByDepth ==
  ASSUME NEW z \in [Domains -> Published], NEW d \in Domains
  PROVE  /\ SaysWithin(z)[0][d] = "permerror"
         /\ \A n \in 1..(MaxDepth + 1) : SaysWithin(z)[n][d] = DomainSays(SaysWithin(z)[n - 1], z[d])
<1> DEFINE m == MaxDepth + 1
           S == [Domains -> Codes]
           b == [e \in Domains |-> "permerror"]
           op == [s \in S |-> [i \in 1..m |-> [e \in Domains |-> DomainSays(s, z[e])]]]
<1>1. m \in Nat
  BY SPFAssumption
<1>2. b \in S
  BY DEF Codes
<1>3. op \in [S -> [1..m -> S]]
  <2>1. \A s \in S : \A e \in Domains : DomainSays(s, z[e]) \in Codes
    BY DomainCode
  <2> QED BY <2>1
<1>4. \A s \in S : \A i \in 1..m : op[s][i] = [e \in Domains |-> DomainSays(s, z[e])]
  OBVIOUS
<1> HIDE DEF op
<1>5. PICK g \in [0..m -> S] : Steps(g, m, b, op)
  <2> HIDE DEF m, S, b
  <2> QED BY <1>1, <1>2, <1>3, StepsExist
<1>6. \A n \in 0..m :
        g[n] = [e \in Domains |-> IF n = 0 THEN "permerror" ELSE DomainSays(g[n - 1], z[e])]
  <2> SUFFICES ASSUME NEW n \in 0..m
               PROVE  g[n] = [e \in Domains |->
                                IF n = 0 THEN "permerror" ELSE DomainSays(g[n - 1], z[e])]
    OBVIOUS
  <2>1. CASE n = 0
    BY <1>5, <2>1 DEF Steps
  <2>2. CASE n # 0
    <3>1. n \in 1..m /\ n - 1 \in 0..m
      BY <1>1, <2>2
    <3>2. g[n - 1] \in S /\ g[n] = op[g[n - 1]][n]
      BY <1>5, <3>1 DEF Steps
    <3>3. g[n] = [e \in Domains |-> DomainSays(g[n - 1], z[e])]
      BY <1>4, <3>1, <3>2
    <3> QED BY <2>2, <3>3
  <2> QED BY <2>1, <2>2
<1>7. IsSays(g, z)
  <2>1. g = [n \in 0..m |-> g[n]]
    BY <1>5
  <2> QED BY <1>6, <2>1, Zenon DEF IsSays
<1>8. PICK f : f = SaysWithin(z)
  OBVIOUS
<1>9. IsSays(f, z)
  BY <1>7, <1>8, SaysIsChosen, Zenon
<1>10. \A n \in 0..m :
        f[n] = [e \in Domains |-> IF n = 0 THEN "permerror" ELSE DomainSays(f[n - 1], z[e])]
  <2>1. \A h : h = [n \in 0..m |->
                      [e \in Domains |-> IF n = 0 THEN "permerror" ELSE DomainSays(f[n - 1], z[e])]]
            => \A n \in 0..m :
                 h[n] = [e \in Domains |-> IF n = 0 THEN "permerror" ELSE DomainSays(f[n - 1], z[e])]
    OBVIOUS
  <2> QED BY <1>9, <2>1 DEF IsSays
<1>11. f[0][d] = "permerror"
  <2>1. 0 \in 0..m
    BY <1>1
  <2> QED BY <1>10, <2>1
<1>12. \A n \in 1..m : f[n][d] = DomainSays(f[n - 1], z[d])
  <2>1. \A n \in 1..m : n \in 0..m /\ n # 0
    BY <1>1
  <2> QED BY <1>10, <2>1
<1> QED BY <1>8, <1>11, <1>12

(* What the domains say to call i.                                         *)
Told(i) == SaysWithin(zone)[(MaxDepth + 2) - i]

(* A caller has passed what does not match, and asks what it must.         *)
Asked(i) ==
  /\ Passed(TermsOf(stack[i].dom), Told(i + 1), stack[i].at)
  /\ CallsFor(TermsOf(stack[i].dom), stack[i].at, stack[i + 1].dom)

Reached(c, i) ==
  /\ Passed(TermsOf(c.dom), Told(i + 1), c.at)
  /\ c.mx > 0 => \A j \in 1..Len(TermsOf(c.dom)[c.at].hits) :
                    j < c.mx => ~TermsOf(c.dom)[c.at].hits[j]

IsAnswer(i, d, result, spent) == result = Told(i)[d] \/ (result = "permerror" /\ spent = Limit)

Faithful ==
  /\ Len(stack) <= MaxDepth + 2
  /\ stack[1].dom = Sender
  /\ ~cut => \A i \in 1..(Len(stack) - 1) : Asked(i)
  /\ doing = "fetch" => Top.at = 1
  /\ doing = "terms" => Len(stack) <= MaxDepth + 1 /\ (~cut => Reached(Top, Len(stack)))
  /\ doing \in {"return", "done"} /\ ~cut => IsAnswer(Len(stack), Top.dom, code, used)
  /\ doing = "done" => Len(stack) = 1

LEMMA WorthOfCall ==
  ASSUME SPFTypeOK, NEW i \in Nat \ {0}, i <= MaxDepth + 1, NEW d \in Domains
  PROVE  Told(i)[d] = DomainSays(Told(i + 1), zone[d])
<1>1. zone \in [Domains -> Published]
  BY DEF SPFTypeOK
<1>2. PICK n \in 1..(MaxDepth + 1) : n = (MaxDepth + 2) - i /\ n - 1 = (MaxDepth + 2) - (i + 1)
  BY SPFAssumption
<1>3. SaysWithin(zone)[n][d] = DomainSays(SaysWithin(zone)[n - 1], zone[d])
  BY <1>1, SaysByDepth
<1> QED BY <1>2, <1>3 DEF Told

LEMMA WorthOfRecord ==
  ASSUME SPFTypeOK, NEW i \in Nat \ {0}, i <= MaxDepth + 1, NEW d \in Domains, zone[d].kind = "record"
  PROVE  Told(i)[d] = RecordSays(Told(i + 1), TermsOf(d)) /\ TermsOf(d) \in Seq(Terms)
<1>1. Told(i)[d] = DomainSays(Told(i + 1), zone[d])
  BY WorthOfCall
<1>2. TermsOf(d) \in Seq(Terms)
  BY RecordTerms DEF SPFTypeOK
<1> QED BY <1>1, <1>2 DEF DomainSays, TermsOf

LEMMA WorthBeyond ==
  ASSUME SPFTypeOK, NEW d \in Domains
  PROVE  Told(MaxDepth + 2)[d] = "permerror"
<1>1. zone \in [Domains -> Published] /\ (MaxDepth + 2) - (MaxDepth + 2) = 0
  BY SPFAssumption DEF SPFTypeOK
<1> QED BY <1>1, SaysByDepth DEF Told

(* A call returns what it is worth.                                        *)
LEMMA RightReturn ==
  ASSUME SPFInv, Faithful, NEW result, Return(result), zone' = zone, stack' = stack, cut' = cut,
         ~cut => IsAnswer(Len(stack), Top.dom, result, used')
  PROVE  Faithful'
<1>1. \A i : Asked(i)' <=> Asked(i)
  BY DEF Asked, Told, TermsOf
<1>2. Top' = Top
  BY DEF Top
<1>3. ~cut => IsAnswer(Len(stack), Top.dom, code, used)'
  BY <1>2 DEF IsAnswer, Told, Return
<1>4. doing' = "return"
  BY DEF Return
<1> QED BY <1>1, <1>2, <1>3, <1>4 DEF Faithful

(* A walk goes to another place in the record.                             *)
LEMMA RightPlace ==
  ASSUME SPFInv, Faithful, doing = "terms", NEW c \in Call, c.dom = Top.dom, Continue(c), zone' = zone,
         cut' \in BOOLEAN, ~cut' => ~cut /\ Reached(c, Len(stack))
  PROVE  Faithful'
<1>1. stack \in Seq(Call) /\ Len(stack) \in Nat \ {0} /\ Top = stack[Len(stack)]
  BY TopCall DEF SPFInv, SPFTypeOK, Top
<1>2. /\ stack' \in Seq(Call) /\ Len(stack') = Len(stack)
      /\ stack'[Len(stack)] = c
      /\ \A i \in 1..Len(stack) - 1 : stack'[i] = stack[i]
  BY <1>1 DEF Continue
<1>3. \A i \in 1..Len(stack) : stack'[i].dom = stack[i].dom
  BY <1>1, <1>2
<1>4. ASSUME NEW i \in 1..(Len(stack) - 1), Asked(i) PROVE Asked(i)'
  <2>1. stack'[i] = stack[i] /\ stack'[i + 1].dom = stack[i + 1].dom
    BY <1>1, <1>2, <1>3
  <2> QED BY <1>4, <2>1 DEF Asked, Told, TermsOf
<1>5. Top' = c
  BY <1>2 DEF Top
<1>6. ~cut' => Reached(Top, Len(stack))'
  BY <1>2, <1>5 DEF Reached, Told, TermsOf
<1>7. doing' = "terms"
  BY DEF Continue
<1>8. stack'[1].dom = stack[1].dom
  BY <1>1, <1>3
<1> QED BY <1>2, <1>4, <1>6, <1>7, <1>8 DEF Faithful

LEMMA PassedOne ==
  ASSUME NEW T \in Seq(Terms), NEW says, NEW n \in Nat, Passed(T, says, n),
         n \in 1..Len(T) => ~Matches(says, T[n])
  PROVE  Passed(T, says, n + 1)
<1>1. \A j \in 1..Len(T) : j < n + 1 => j < n \/ j = n
  OBVIOUS
<1> QED BY <1>1 DEF Passed

LEMMA RightNextTerm ==
  ASSUME SPFInv, Faithful, doing = "terms", NextTerm, zone' = zone,
         cut' \in BOOLEAN, ~cut' => ~cut /\ ~Matches(Told(Len(stack) + 1), Term)
  PROVE  Faithful'
<1> DEFINE c == [dom |-> Top.dom, at |-> Top.at + 1, mx |-> 0]
<1>1. c \in Call /\ c.dom = Top.dom /\ ~(c.mx > 0) /\ c.at = Top.at + 1 /\ Top.at \in Nat
  BY TopCall DEF SPFInv, Call
<1>2. Continue(c)
  BY DEF NextTerm
<1>3. TermsOf(Top.dom) \in Seq(Terms)
  BY TopCall, RecordTerms DEF SPFInv, SPFTypeOK, Walks, Call
<1> HIDE DEF c
<1>4. ~cut' => ~cut /\ Reached(c, Len(stack))
  <2> SUFFICES ASSUME ~cut' PROVE ~cut /\ Reached(c, Len(stack))
    OBVIOUS
  <2>1. ~cut /\ Passed(TermsOf(Top.dom), Told(Len(stack) + 1), Top.at)
    BY DEF Faithful, Reached
  <2>2. Passed(TermsOf(Top.dom), Told(Len(stack) + 1), Top.at + 1)
    BY <1>1, <1>3, <2>1, PassedOne DEF Term
  <2> QED BY <1>1, <2>1, <2>2 DEF Reached
<1> QED BY <1>1, <1>2, <1>4, RightPlace

(* A call is made for what the caller needs.                               *)
LEMMA RightCall ==
  ASSUME SPFInv, Faithful, doing = "terms", NEW d \in Domains, Nested(d),
         CallsFor(TermsOf(Top.dom), Top.at, d)
  PROVE  Faithful'
<1>1. /\ stack \in Seq(Call) /\ Len(stack) \in Nat \ {0} /\ Top = stack[Len(stack)]
      /\ Len(stack) <= MaxDepth + 1
  BY TopCall DEF SPFInv, SPFTypeOK, Top, Faithful
<1>2. EvaluateCall(d) \in Call /\ EvaluateCall(d).dom = d /\ EvaluateCall(d).at = 1
  BY DEF EvaluateCall, Call
<1>3. /\ stack' \in Seq(Call) /\ Len(stack') = Len(stack) + 1
      /\ stack'[Len(stack) + 1] = EvaluateCall(d)
      /\ \A i \in 1..Len(stack) : stack'[i] = stack[i]
  BY <1>1, <1>2 DEF Nested
<1>4. zone' = zone /\ cut' = cut /\ doing' = "fetch"
  BY DEF Nested
<1>5. ASSUME NEW i \in 1..Len(stack), ~cut PROVE Asked(i)'
  <2>1. CASE i = Len(stack)
    <3>1. stack'[i] = Top /\ stack'[i + 1].dom = d
      BY <1>1, <1>2, <1>3, <2>1
    <3>2. Passed(TermsOf(Top.dom), Told(i + 1), Top.at)
      BY <1>5, <2>1 DEF Faithful, Reached
    <3> QED BY <1>4, <3>1, <3>2 DEF Asked, Told, TermsOf
  <2>2. CASE i # Len(stack)
    <3>1. i \in 1..(Len(stack) - 1) /\ i + 1 \in 1..Len(stack)
      BY <1>1, <2>2
    <3>2. stack'[i] = stack[i] /\ stack'[i + 1] = stack[i + 1] /\ Asked(i)
      BY <1>3, <1>5, <3>1 DEF Faithful
    <3> QED BY <1>4, <3>2 DEF Asked, Told, TermsOf
  <2> QED BY <2>1, <2>2
<1>6. stack'[1].dom = Sender /\ Len(stack') <= MaxDepth + 2 /\ Len(stack') - 1 = Len(stack)
  BY <1>1, <1>3, SPFAssumption DEF Faithful
<1>7. Top'.at = 1
  BY <1>2, <1>3 DEF Top
<1> QED BY <1>4, <1>5, <1>6, <1>7 DEF Faithful

(* What holds while the innermost call walks its record.                   *)
LEMMA AtWalk ==
  ASSUME SPFInv, Faithful, doing = "terms"
  PROVE  /\ Top \in Call /\ Len(stack) \in Nat \ {0} /\ Len(stack) <= MaxDepth + 1
         /\ zone[Top.dom].kind = "record" /\ TermsOf(Top.dom) \in Seq(Terms)
         /\ Told(Len(stack))[Top.dom] = RecordSays(Told(Len(stack) + 1), TermsOf(Top.dom))
         /\ ~cut => Reached(Top, Len(stack))
<1>1. /\ Top \in Call /\ Len(stack) \in Nat \ {0} /\ Len(stack) <= MaxDepth + 1
      /\ zone[Top.dom].kind = "record" /\ SPFTypeOK /\ (~cut => Reached(Top, Len(stack)))
  BY TopCall DEF SPFInv, Walks, Faithful
<1>2. Top.dom \in Domains
  BY <1>1 DEF Call
<1> QED BY <1>1, <1>2, WorthOfRecord

(* The term a walk is at matches.                                          *)
LEMMA MatchIsRight ==
  ASSUME SPFInv, Faithful, doing = "terms", ~cut, Top.at <= Len(TermsOf(Top.dom)),
         Matches(Told(Len(stack) + 1), Term), Term.mech # "include", NEW n
  PROVE  IsAnswer(Len(stack), Top.dom, ResultOf[Term.q], n)
<1> DEFINE T == TermsOf(Top.dom)
           says == Told(Len(stack) + 1)
<1>1. T \in Seq(Terms) /\ Passed(T, says, Top.at) /\ Top.at \in 1..Len(T) /\ Term = T[Top.at]
      /\ Told(Len(stack))[Top.dom] = RecordSays(says, T)
  <2>1. Top.at \in Nat \ {0}
    BY AtWalk DEF Call
  <2> QED BY <2>1, AtWalk DEF Reached, Term
<1> HIDE DEF T, says
<1>2. RecordSays(says, T) = ResultOf[Term.q]
  BY <1>1, TermDecides DEF says
<1> QED BY <1>1, <1>2 DEF IsAnswer

LEMMA SpentIsRight ==
  ASSUME NEW i, NEW d
  PROVE  IsAnswer(i, d, "permerror", Limit)
BY DEF IsAnswer

-----------------------------------------------------------------------------
(* The actions.                                                            *)

LEMMA FetchRight == SPFInv /\ Faithful /\ FetchRecord => Faithful'
<1> SUFFICES ASSUME SPFInv, Faithful, FetchRecord PROVE Faithful'
  OBVIOUS
<1>1. /\ doing = "fetch" /\ zone' = zone /\ stack' = stack /\ used' = used /\ cut' = cut
      /\ Top \in Call /\ Len(stack) \in Nat \ {0} /\ Len(stack) <= MaxDepth + 1
      /\ SPFTypeOK
  BY TopCall, SPFAssumption DEF SPFInv, FetchRecord
<1>2. Top.dom \in Domains
  BY <1>1 DEF Call
<1>3. Told(Len(stack))[Top.dom] = DomainSays(Told(Len(stack) + 1), zone[Top.dom])
  BY <1>1, <1>2, WorthOfCall
<1>4. CASE zone[Top.dom].kind = "several" /\ Return("permerror")
  <2>1. IsAnswer(Len(stack), Top.dom, "permerror", used')
    BY <1>3, <1>4 DEF IsAnswer, DomainSays
  <2> QED BY <1>1, <1>4, <2>1, RightReturn
<1>5. CASE zone[Top.dom].kind = "none" /\ Return("none")
  <2>1. IsAnswer(Len(stack), Top.dom, "none", used')
    BY <1>3, <1>5 DEF IsAnswer, DomainSays
  <2> QED BY <1>1, <1>5, <2>1, RightReturn
<1>6. CASE zone[Top.dom].kind = "record" /\ doing' = "terms" /\ UNCHANGED code
  <2>1. \A i : Asked(i)' <=> Asked(i)
    BY <1>1 DEF Asked, Told, TermsOf
  <2>2. Top' = Top
    BY <1>1 DEF Top
  <2>3. Reached(Top, Len(stack))
    <3>1. Top.at = 1 /\ Top.mx = 0
      BY <1>1 DEF SPFInv, Walks, Faithful
    <3> QED BY <3>1 DEF Reached, Passed
  <2>4. Reached(Top, Len(stack))'
    BY <1>1, <2>2, <2>3 DEF Reached, Told, TermsOf
  <2> QED BY <1>1, <1>6, <2>1, <2>4 DEF Faithful
<1> QED BY <1>4, <1>5, <1>6 DEF FetchRecord

LEMMA TooDeepRight == SPFInv /\ Faithful /\ TooDeep => Faithful'
<1> SUFFICES ASSUME SPFInv, Faithful, TooDeep PROVE Faithful'
  OBVIOUS
<1>1. /\ Top \in Call /\ Len(stack) = MaxDepth + 2 /\ SPFTypeOK
      /\ zone' = zone /\ stack' = stack /\ used' = used /\ cut' = cut /\ Return("permerror")
  BY TopCall, SPFAssumption DEF SPFInv, Faithful, TooDeep
<1>2. IsAnswer(Len(stack), Top.dom, "permerror", used')
  BY <1>1, WorthBeyond DEF IsAnswer, Call
<1> QED BY <1>1, <1>2, RightReturn

LEMMA FreeTermRight == SPFInv /\ Faithful /\ FreeTerm => Faithful'
<1> SUFFICES ASSUME SPFInv, Faithful, FreeTerm PROVE Faithful'
  OBVIOUS
<1>1. /\ zone' = zone /\ used' = used /\ cut' = cut /\ cut \in BOOLEAN
      /\ doing = "terms" /\ Term.mech \in {"all", "ip", "redirect"} /\ Top.at <= Len(TermsOf(Top.dom))
  BY AtTermFacts DEF SPFInv, SPFTypeOK, FreeTerm
<1>2. CASE Term.mech = "all" \/ (Term.mech = "ip" /\ Term.hit)
  <2>1. Matches(Told(Len(stack) + 1), Term) /\ Term.mech # "include"
    BY <1>2 DEF Matches
  <2>2. ~cut => IsAnswer(Len(stack), Top.dom, ResultOf[Term.q], used')
    BY <1>1, <2>1, MatchIsRight
  <2>3. Return(ResultOf[Term.q]) /\ UNCHANGED stack
    BY <1>2 DEF FreeTerm
  <2> QED BY <1>1, <2>2, <2>3, RightReturn
<1>3. CASE ~(Term.mech = "all" \/ (Term.mech = "ip" /\ Term.hit))
  <2>1. ~Matches(Told(Len(stack) + 1), Term)
    BY <1>1, <1>3 DEF Matches
  <2>2. NextTerm
    BY <1>3 DEF FreeTerm
  <2> QED BY <1>1, <2>1, <2>2, RightNextTerm
<1> QED BY <1>2, <1>3

LEMMA NameTermRight == SPFInv /\ Faithful /\ NameTerm => Faithful'
<1> SUFFICES ASSUME SPFInv, Faithful, NameTerm PROVE Faithful'
  OBVIOUS
<1>1. /\ zone' = zone /\ cut' = cut /\ cut \in BOOLEAN
      /\ doing = "terms" /\ Term.mech = "name" /\ Top.at <= Len(TermsOf(Top.dom))
  BY AtTermFacts DEF SPFInv, SPFTypeOK, NameTerm
<1>2. CASE Term.hit
  <2>1. Matches(Told(Len(stack) + 1), Term) /\ Term.mech # "include"
    BY <1>1, <1>2 DEF Matches
  <2>2. ~cut => IsAnswer(Len(stack), Top.dom, ResultOf[Term.q], used')
    BY <1>1, <2>1, MatchIsRight
  <2>3. Return(ResultOf[Term.q]) /\ UNCHANGED stack
    BY <1>2 DEF NameTerm
  <2> QED BY <1>1, <2>2, <2>3, RightReturn
<1>3. CASE ~Term.hit
  <2>1. ~Matches(Told(Len(stack) + 1), Term)
    BY <1>1, <1>3 DEF Matches
  <2>2. NextTerm
    BY <1>3 DEF NameTerm
  <2> QED BY <1>1, <2>1, <2>2, RightNextTerm
<1> QED BY <1>2, <1>3

LEMMA MXTermRight == SPFInv /\ Faithful /\ MXTerm => Faithful'
<1> SUFFICES ASSUME SPFInv, Faithful, MXTerm PROVE Faithful'
  OBVIOUS
<1>1. /\ zone' = zone /\ cut' = cut /\ cut \in BOOLEAN
      /\ doing = "terms" /\ Term.mech = "mx" /\ Term \in Terms
  BY AtTermFacts DEF SPFInv, SPFTypeOK, MXTerm
<1>2. CASE Term.hits = << >>
  <2>1. ~Matches(Told(Len(stack) + 1), Term)
    BY <1>1, <1>2 DEF Matches
  <2>2. NextTerm
    BY <1>2 DEF MXTerm
  <2> QED BY <1>1, <2>1, <2>2, RightNextTerm
<1>3. CASE Term.hits # << >>
  <2>1. Continue([Top EXCEPT !.mx = 1])
    BY <1>3 DEF MXTerm
  <2>2. PICK c : c = [Top EXCEPT !.mx = 1]
    OBVIOUS
  <2>3. c \in Call /\ c.dom = Top.dom /\ c.at = Top.at /\ c.mx = 1
    BY <2>2, TopCall DEF SPFInv, Call
  <2>4. ~cut => Reached(c, Len(stack))
    BY <1>1, <2>3, AtWalk DEF Reached
  <2> QED BY <1>1, <2>1, <2>2, <2>3, <2>4, RightPlace
<1> QED BY <1>2, <1>3

LEMMA ExchangeRight == SPFInv /\ Faithful /\ Exchange => Faithful'
<1> SUFFICES ASSUME SPFInv, Faithful, Exchange PROVE Faithful'
  OBVIOUS
<1>1. /\ zone' = zone /\ cut' = cut /\ cut \in BOOLEAN
      /\ doing = "terms" /\ Top \in Call /\ Top.mx \in Nat /\ Top.mx > 0
      /\ Top.at <= Len(TermsOf(Top.dom)) /\ Term.mech = "mx" /\ Top.mx <= Len(Term.hits)
      /\ Top.at \in Nat \ {0}
  BY TopCall DEF SPFInv, SPFTypeOK, Walks, Exchange, Call
<1>2. Term \in Terms /\ Term = TermsOf(Top.dom)[Top.at]
  BY <1>1, AtWalk DEF Term
<1>3. Term.hits \in Seq(BOOLEAN)
  BY <1>1, <1>2, TermFields
<1>4. Top.mx \in 1..Len(Term.hits)
  BY <1>1, <1>3
<1>5. ~cut => \A j \in 1..Len(Term.hits) : j < Top.mx => ~Term.hits[j]
  BY <1>1, <1>2, AtWalk DEF Reached
<1>6. CASE Term.hits[Top.mx]
  <2>1. Matches(Told(Len(stack) + 1), Term) /\ Term.mech # "include"
    BY <1>1, <1>4, <1>6 DEF Matches
  <2>2. ~cut => IsAnswer(Len(stack), Top.dom, ResultOf[Term.q], used')
    BY <1>1, <2>1, MatchIsRight
  <2>3. Return(ResultOf[Term.q]) /\ UNCHANGED stack
    BY <1>6 DEF Exchange
  <2> QED BY <1>1, <2>2, <2>3, RightReturn
<1>7. CASE ~Term.hits[Top.mx] /\ Top.mx = Len(Term.hits)
  <2>1. ~cut => \A j \in 1..Len(Term.hits) : ~Term.hits[j]
    <3>1. \A j \in 1..Len(Term.hits) : j < Top.mx \/ j = Top.mx
      BY <1>3, <1>7
    <3> QED BY <1>5, <1>7, <3>1
  <2>2. ~cut => ~Matches(Told(Len(stack) + 1), Term)
    BY <1>1, <2>1 DEF Matches
  <2>3. NextTerm
    BY <1>7 DEF Exchange
  <2> QED BY <1>1, <2>2, <2>3, RightNextTerm
<1>8. CASE ~Term.hits[Top.mx] /\ Top.mx # Len(Term.hits)
  <2>1. Continue([Top EXCEPT !.mx = @ + 1])
    BY <1>8 DEF Exchange
  <2>2. PICK c : c = [Top EXCEPT !.mx = @ + 1]
    OBVIOUS
  <2>3. c \in Call /\ c.dom = Top.dom /\ c.at = Top.at /\ c.mx = Top.mx + 1
    BY <1>1, <2>2 DEF Call
  <2>4. \A j \in 1..Len(Term.hits) : j < c.mx => j < Top.mx \/ j = Top.mx
    BY <1>1, <2>3
  <2>5. ~cut => \A j \in 1..Len(Term.hits) : j < c.mx => ~Term.hits[j]
    BY <1>5, <1>8, <2>4
  <2>6. ~cut => Reached(c, Len(stack))
    BY <1>1, <1>2, <2>3, <2>5, AtWalk DEF Reached
  <2> QED BY <1>1, <2>1, <2>2, <2>3, <2>6, RightPlace
<1> QED BY <1>6, <1>7, <1>8

LEMMA ExchangesCutRight == SPFInv /\ Faithful /\ ExchangesCut => Faithful'
<1> SUFFICES ASSUME SPFInv, Faithful, ExchangesCut PROVE Faithful'
  OBVIOUS
<1>1. zone' = zone /\ cut' = TRUE /\ doing = "terms" /\ NextTerm
  BY DEF ExchangesCut
<1> QED BY <1>1, RightNextTerm

LEMMA IncludeRight == SPFInv /\ Faithful /\ Include => Faithful'
<1> SUFFICES ASSUME SPFInv, Faithful, Include PROVE Faithful'
  OBVIOUS
<1>1. /\ doing = "terms" /\ Term \in Terms /\ Term.mech = "include"
      /\ Top.at <= Len(TermsOf(Top.dom))
  BY AtTermFacts DEF Include
<1>2. Term.of \in Domains
  BY <1>1, TermFields
<1>3. CallsFor(TermsOf(Top.dom), Top.at, Term.of)
  BY <1>1 DEF CallsFor, Term
<1> QED BY <1>1, <1>2, <1>3, RightCall DEF Include

LEMMA RedirectRight == SPFInv /\ Faithful /\ Redirect => Faithful'
<1> SUFFICES ASSUME SPFInv, Faithful, Redirect PROVE Faithful'
  OBVIOUS
<1>1. doing = "terms" /\ Top.at > Len(TermsOf(Top.dom))
  BY DEF Redirect, AtEnd
<1>2. TermsOf(Top.dom) \in Seq(Terms) /\ Top.at \in Nat
  BY <1>1, AtWalk DEF Call
<1>3. PICK i \in Redirects(Top.dom) : IsLatest(Top.dom, i) /\ Nested(TermsOf(Top.dom)[i].of)
  BY DEF Redirect
<1>4. TermsOf(Top.dom)[i].of \in Domains
  BY <1>2, <1>3, TermFields DEF Redirects
<1>5. CallsFor(TermsOf(Top.dom), Top.at, TermsOf(Top.dom)[i].of)
  BY <1>1, <1>2, <1>3 DEF CallsFor, IsLatest, Redirects
<1> QED BY <1>1, <1>3, <1>4, <1>5, RightCall

LEMMA NothingMatchedRight == SPFInv /\ Faithful /\ NothingMatched => Faithful'
<1> SUFFICES ASSUME SPFInv, Faithful, NothingMatched PROVE Faithful'
  OBVIOUS
<1>1. /\ doing = "terms" /\ Top.at > Len(TermsOf(Top.dom)) /\ Redirects(Top.dom) = {}
      /\ Return("neutral") /\ zone' = zone /\ stack' = stack /\ cut' = cut
  BY DEF NothingMatched, AtEnd
<1>2. ~cut => IsAnswer(Len(stack), Top.dom, "neutral", used')
  <2> SUFFICES ASSUME ~cut PROVE IsAnswer(Len(stack), Top.dom, "neutral", used')
    OBVIOUS
  <2> DEFINE T == TermsOf(Top.dom)
             says == Told(Len(stack) + 1)
  <2>1. /\ T \in Seq(Terms) /\ Top.at \in Nat /\ Top.at > Len(T) /\ Passed(T, says, Top.at)
        /\ Told(Len(stack))[Top.dom] = RecordSays(says, T)
    BY <1>1, AtWalk DEF Reached, Call
  <2>2. \A i \in 1..Len(T) : T[i].mech # "redirect"
    BY <1>1 DEF Redirects
  <2> HIDE DEF T, says
  <2>3. RecordSays(says, T) = "neutral"
    BY <2>1, <2>2, NothingDecides
  <2> QED BY <2>1, <2>3 DEF IsAnswer
<1> QED BY <1>1, <1>2, RightReturn

LEMMA OutOfLookupsRight == SPFInv /\ Faithful /\ OutOfLookups => Faithful'
<1> SUFFICES ASSUME SPFInv, Faithful, OutOfLookups PROVE Faithful'
  OBVIOUS
<1>1. used' = Limit /\ Return("permerror") /\ zone' = zone /\ stack' = stack /\ cut' = cut
  BY SPFAssumption DEF SPFInv, SPFTypeOK, Paid, OutOfLookups
<1> QED BY <1>1, SpentIsRight, RightReturn

LEMMA CheckSpfEndsRight == SPFInv /\ Faithful /\ CheckSpfEnds => Faithful'
<1> SUFFICES ASSUME SPFInv, Faithful, CheckSpfEnds PROVE Faithful'
  OBVIOUS
<1>1. /\ UNCHANGED <<zone, stack, code, used, cut>>
      /\ doing = "return" /\ doing' = "done" /\ Len(stack) = 1
  BY DEF CheckSpfEnds
<1>2. \A i : Asked(i)' <=> Asked(i)
  BY <1>1 DEF Asked, Told, TermsOf
<1>3. IsAnswer(Len(stack), Top.dom, code, used)' <=> IsAnswer(Len(stack), Top.dom, code, used)
  BY <1>1 DEF IsAnswer, Told, Top
<1> QED BY <1>1, <1>2, <1>3 DEF Faithful

(* What a call returned, with what its caller then knows.                  *)
LEMMA ReturnedTo ==
  ASSUME SPFInv, Faithful, Returned, NEW n, n = Len(stack) - 1
  PROVE  /\ n \in Nat \ {0} /\ n <= MaxDepth + 1 /\ Len(stack) = n + 1
         /\ Caller = stack[n] /\ Caller \in Call /\ Caller.mx = 0
         /\ TermsOf(Caller.dom) \in Seq(Terms)
         /\ Told(n)[Caller.dom] = RecordSays(Told(n + 1), TermsOf(Caller.dom))
         /\ ForInclude => IncludedBy \in Terms /\ IncludedBy.mech = "include"
         /\ ~cut => /\ Asked(n)
                    /\ IsAnswer(n + 1, Top.dom, code, used)
<1>1. stack \in Seq(Call) /\ Len(stack) \in Nat /\ Len(stack) > 1 /\ doing = "return"
  BY DEF SPFInv, SPFTypeOK, Returned
<1>2. n \in Nat \ {0} /\ n <= MaxDepth + 1 /\ Len(stack) = n + 1 /\ n \in 1..(Len(stack) - 1)
  <2>1. Len(stack) <= MaxDepth + 2
    BY DEF Faithful, SPFInv
  <2>2. PICK l \in Nat : l = Len(stack)
    BY <1>1
  <2>3. MaxDepth \in Nat
    BY SPFAssumption
  <2> QED BY <1>1, <2>1, <2>2, <2>3
<1>3. Caller = stack[n] /\ Caller \in Call
  BY <1>1, <1>2 DEF Caller
<1>4. Waits(Caller)
  BY <1>2, <1>3 DEF SPFInv, Walks
<1>5. Caller.mx = 0 /\ zone[Caller.dom].kind = "record" /\ Caller.dom \in Domains
  BY <1>3, <1>4 DEF Waits, Call
<1>6. /\ TermsOf(Caller.dom) \in Seq(Terms)
      /\ Told(n)[Caller.dom] = RecordSays(Told(n + 1), TermsOf(Caller.dom))
  BY <1>2, <1>5, WorthOfRecord DEF SPFInv
<1>7. ForInclude => IncludedBy \in Terms /\ IncludedBy.mech = "include"
  BY <1>3, <1>4, <1>6 DEF ForInclude, IncludedBy, Waits, Call
<1>8. ~cut => Asked(n) /\ IsAnswer(n + 1, Top.dom, code, used)
  BY <1>1, <1>2 DEF Faithful
<1> QED BY <1>2, <1>3, <1>5, <1>6, <1>7, <1>8

(* The caller of an include that did not match goes on.                    *)
LEMMA WalkResumes ==
  ASSUME SPFInv, Faithful, Returned, ForInclude, code \notin {"pass", "permerror"}
  PROVE  Faithful'
<1> PICK n : n = Len(stack) - 1
  OBVIOUS
<1>1. /\ n \in Nat \ {0} /\ n <= MaxDepth + 1 /\ Len(stack) = n + 1
      /\ Caller = stack[n] /\ Caller \in Call /\ Caller.mx = 0
      /\ TermsOf(Caller.dom) \in Seq(Terms) /\ IncludedBy.mech = "include"
      /\ ~cut => Asked(n) /\ IsAnswer(n + 1, Top.dom, code, used)
  BY ReturnedTo
<1>2. /\ zone' = zone /\ cut' = cut /\ doing' = "terms"
      /\ stack' = [Popped EXCEPT ![n] = [Caller EXCEPT !.at = @ + 1]]
  BY DEF Returned
<1>3. PICK c : c = [Caller EXCEPT !.at = @ + 1]
  OBVIOUS
<1>4. c \in Call /\ c.dom = Caller.dom /\ c.at = Caller.at + 1 /\ c.mx = 0 /\ Caller.at \in Nat \ {0}
  BY <1>1, <1>3 DEF Call
<1>5. /\ stack \in Seq(Call) /\ Popped \in Seq(Call) /\ Len(Popped) = n
      /\ \A i \in 1..n : Popped[i] = stack[i]
  BY <1>1 DEF Popped, SPFInv, SPFTypeOK
<1>6. /\ stack' \in Seq(Call) /\ Len(stack') = n /\ stack'[n] = c
      /\ \A i \in 1..(n - 1) : stack'[i] = stack[i]
  <2>1. stack' = [Popped EXCEPT ![n] = c]
    BY <1>2, <1>3
  <2>2. \A i \in 1..(n - 1) : i \in 1..n /\ i # n
    BY <1>1
  <2>3. /\ stack' \in Seq(Call) /\ Len(stack') = n /\ stack'[n] = c
        /\ \A i \in 1..n : i # n => stack'[i] = Popped[i]
    <3>1. PICK q \in Seq(Call) : q = Popped
      BY <1>5
    <3>2. n \in 1..Len(q) /\ c \in Call /\ Len(q) = n
      BY <1>1, <1>4, <1>5, <3>1
    <3>3. /\ [q EXCEPT ![n] = c] \in Seq(Call) /\ Len([q EXCEPT ![n] = c]) = n
          /\ [q EXCEPT ![n] = c][n] = c
          /\ \A i \in 1..n : i # n => [q EXCEPT ![n] = c][i] = q[i]
      BY <3>2
    <3> QED BY <2>1, <3>1, <3>3
  <2> QED BY <1>5, <2>2, <2>3
<1>7. ASSUME NEW i \in 1..n PROVE stack'[i].dom = stack[i].dom
  <2>1. CASE i = n
    BY <1>1, <1>4, <1>6, <2>1
  <2>2. CASE i # n
    <3>1. i \in 1..(n - 1)
      <4>1. \A k \in Nat : \A j \in 1..k : j # k => j \in 1..(k - 1)
        OBVIOUS
      <4> QED BY <1>1, <2>2, <4>1
    <3> QED BY <1>6, <3>1
  <2> QED BY <2>1, <2>2
<1>8. ASSUME NEW i \in 1..(n - 1), ~cut PROVE Asked(i)'
  <2>1. i \in 1..(Len(stack) - 1) /\ i + 1 \in 1..n
    BY <1>1
  <2>2. Asked(i) /\ stack'[i] = stack[i] /\ stack'[i + 1].dom = stack[i + 1].dom
    BY <1>6, <1>7, <1>8, <2>1 DEF Faithful
  <2> QED BY <1>2, <2>2 DEF Asked, Told, TermsOf
<1>9. ~cut => Reached(c, n)
  <2> SUFFICES ASSUME ~cut PROVE Reached(c, n)
    OBVIOUS
  <2> DEFINE T == TermsOf(Caller.dom)
             says == Told(n + 1)
  <2>1. Caller.at \in 1..Len(T) /\ IncludedBy = T[Caller.at] /\ T \in Seq(Terms)
    BY <1>1, <1>4 DEF ForInclude, IncludedBy
  <2>2. Passed(T, says, Caller.at) /\ CallsFor(T, Caller.at, Top.dom)
    BY <1>1 DEF Asked, Top
  <2>3. T[Caller.at].of = Top.dom
    BY <2>1, <2>2 DEF CallsFor
  <2>4. code = says[Top.dom]
    BY <1>1 DEF IsAnswer
  <2>5. ~Matches(says, T[Caller.at])
    BY <1>1, <2>1, <2>3, <2>4 DEF Matches
  <2> HIDE DEF T, says
  <2>6. Passed(T, says, Caller.at + 1)
    BY <1>4, <2>1, <2>2, <2>5, PassedOne
  <2> QED BY <1>4, <2>6 DEF Reached, T, says
<1>10. Top' = c
  BY <1>6 DEF Top
<1>11. ~cut => Reached(Top, Len(stack))'
  BY <1>2, <1>6, <1>9, <1>10 DEF Reached, Told, TermsOf
<1>12. stack'[1].dom = Sender /\ Len(stack') <= MaxDepth + 1 /\ Len(stack') <= MaxDepth + 2
  BY <1>1, <1>6, <1>7, SPFAssumption DEF Faithful
<1> QED BY <1>2, <1>6, <1>8, <1>11, <1>12 DEF Faithful

(* Otherwise the caller returns too.                                       *)
LEMMA CallerReturns ==
  ASSUME SPFInv, Faithful, Returned, ~(ForInclude /\ code \notin {"pass", "permerror"})
  PROVE  Faithful'
<1> PICK n : n = Len(stack) - 1
  OBVIOUS
<1>1. /\ n \in Nat \ {0} /\ n <= MaxDepth + 1 /\ Len(stack) = n + 1
      /\ Caller = stack[n] /\ Caller \in Call
      /\ TermsOf(Caller.dom) \in Seq(Terms)
      /\ Told(n)[Caller.dom] = RecordSays(Told(n + 1), TermsOf(Caller.dom))
      /\ ForInclude => IncludedBy.mech = "include"
      /\ ~cut => Asked(n) /\ IsAnswer(n + 1, Top.dom, code, used)
  BY ReturnedTo
<1>2. PICK result : result = IF ForInclude /\ code = "pass" THEN ResultOf[IncludedBy.q] ELSE code
  OBVIOUS
<1>3. /\ zone' = zone /\ cut' = cut /\ used' = used /\ doing' = "return" /\ code' = result
      /\ stack' = Popped
  BY <1>2 DEF Returned, Return
<1>4. /\ stack \in Seq(Call) /\ stack' \in Seq(Call) /\ Len(stack') = n
      /\ \A i \in 1..n : stack'[i] = stack[i]
  BY <1>1, <1>3 DEF Popped, SPFInv, SPFTypeOK
<1>5. ASSUME NEW i \in 1..(n - 1), ~cut PROVE Asked(i)'
  <2>1. i \in 1..(Len(stack) - 1) /\ i \in 1..n /\ i + 1 \in 1..n
    BY <1>1
  <2>2. Asked(i) /\ stack'[i] = stack[i] /\ stack'[i + 1] = stack[i + 1]
    BY <1>4, <1>5, <2>1 DEF Faithful
  <2> QED BY <1>3, <2>2 DEF Asked, Told, TermsOf
<1>6. Top' = Caller
  BY <1>1, <1>4 DEF Top
<1>7. ~cut => IsAnswer(n, Caller.dom, result, used)
  <2> SUFFICES ASSUME ~cut PROVE IsAnswer(n, Caller.dom, result, used)
    OBVIOUS
  <2> DEFINE T == TermsOf(Caller.dom)
             says == Told(n + 1)
  <2>1. /\ T \in Seq(Terms) /\ Passed(T, says, Caller.at) /\ CallsFor(T, Caller.at, Top.dom)
        /\ Told(n)[Caller.dom] = RecordSays(says, T)
        /\ Caller.at \in Nat \ {0}
    BY <1>1 DEF Asked, Top, Call
  <2>2. code = says[Top.dom] \/ (code = "permerror" /\ used = Limit)
    BY <1>1 DEF IsAnswer
  <2>3. /\ ForInclude <=> Caller.at <= Len(T)
        /\ IncludedBy = T[Caller.at]
    BY DEF ForInclude, IncludedBy
  <2> HIDE DEF T, says
  <2>4. CASE code = "permerror" /\ used = Limit
    BY <1>2, <2>4 DEF IsAnswer
  <2>5. CASE code = says[Top.dom] /\ ForInclude
    <3>1. Caller.at \in 1..Len(T)
      BY <2>1, <2>3, <2>5
    <3>2. T[Caller.at].mech = "include" /\ T[Caller.at].of = Top.dom /\ code \in {"pass", "permerror"}
      BY <1>1, <2>1, <2>3, <2>5 DEF CallsFor
    <3>3. Matches(says, T[Caller.at])
      BY <2>5, <3>2 DEF Matches
    <3>4. RecordSays(says, T) = IF code = "permerror" THEN "permerror" ELSE ResultOf[T[Caller.at].q]
      BY <2>1, <2>5, <3>1, <3>2, <3>3, TermDecides
    <3>5. result = RecordSays(says, T)
      BY <1>2, <2>3, <2>5, <3>2, <3>4
    <3> QED BY <2>1, <3>5 DEF IsAnswer
  <2>6. CASE code = says[Top.dom] /\ ~ForInclude
    <3>1. Caller.at \in Nat /\ Caller.at > Len(T)
      BY <2>1, <2>3, <2>6
    <3>2. RecordSays(says, T) = says[Top.dom]
      BY <2>1, <3>1, RedirectDecides
    <3>3. result = RecordSays(says, T)
      BY <1>2, <2>6, <3>2
    <3> QED BY <2>1, <3>3 DEF IsAnswer
  <2> QED BY <2>2, <2>4, <2>5, <2>6
<1>8. ~cut => IsAnswer(Len(stack), Top.dom, code, used)'
  BY <1>3, <1>4, <1>6, <1>7 DEF IsAnswer, Told
<1>9. stack'[1].dom = Sender /\ Len(stack') <= MaxDepth + 2
  BY <1>1, <1>4, SPFAssumption DEF Faithful
<1> QED BY <1>3, <1>4, <1>5, <1>8, <1>9 DEF Faithful

LEMMA FaithfulInit == SPFInit => Faithful
<1> SUFFICES ASSUME SPFInit PROVE Faithful
  OBVIOUS
<1>1. EvaluateCall(Sender).dom = Sender /\ EvaluateCall(Sender).at = 1
  BY DEF EvaluateCall
<1>2. Len(stack) = 1 /\ Top = EvaluateCall(Sender) /\ stack[1] = EvaluateCall(Sender)
  BY DEF SPFInit, Top
<1> QED BY <1>1, <1>2, SPFAssumption DEF SPFInit, Faithful

LEMMA FaithfulNext == SPFInv /\ Faithful /\ [SPFNext]_spfvars => Faithful'
<1> SUFFICES ASSUME SPFInv, Faithful, [SPFNext]_spfvars PROVE Faithful'
  OBVIOUS
<1>1. CASE UNCHANGED spfvars
  <2>1. UNCHANGED <<zone, stack, doing, code, used, cut>>
    BY <1>1 DEF spfvars
  <2>2. \A i : Asked(i)' <=> Asked(i)
    BY <2>1 DEF Asked, Told, TermsOf
  <2>3. IsAnswer(Len(stack), Top.dom, code, used)' <=> IsAnswer(Len(stack), Top.dom, code, used)
    BY <2>1 DEF IsAnswer, Told, Top
  <2>4. Reached(Top, Len(stack))' <=> Reached(Top, Len(stack))
    BY <2>1 DEF Reached, Told, TermsOf, Top
  <2>5. Top' = Top
    BY <2>1 DEF Top
  <2> QED BY <2>1, <2>2, <2>3, <2>4, <2>5 DEF Faithful
<1>2. CASE Returned
  BY <1>2, WalkResumes, CallerReturns
<1> QED BY <1>1, <1>2, FetchRight, TooDeepRight, FreeTermRight, NameTermRight, MXTermRight,
           ExchangeRight, ExchangesCutRight, IncludeRight, RedirectRight, NothingMatchedRight,
           OutOfLookupsRight, CheckSpfEndsRight DEF SPFNext

(* auth_checker/spf.py, check_spf(): for every zone, however its records   *)
(* include one another, and every pair of limits, the answer is what the   *)
(* records say, or permerror with all lookups spent, unless the lookups    *)
(* ended inside a list of exchanges.                                       *)
THEOREM AnswerHolds == SPFSpec => []AnswerIsTheRecords
<1>1. SPFInv /\ Faithful => AnswerIsTheRecords
  <2> SUFFICES ASSUME SPFInv, Faithful, doing = "done", ~cut
               PROVE  code = Says \/ (code = "permerror" /\ used = Limit)
    BY DEF AnswerIsTheRecords
  <2>1. Len(stack) = 1 /\ IsAnswer(Len(stack), Top.dom, code, used) /\ Top.dom = Sender
    BY DEF Faithful, Top
  <2>2. (MaxDepth + 2) - 1 = MaxDepth + 1
    BY SPFAssumption
  <2> QED BY <2>1, <2>2 DEF IsAnswer, Told, Says
<1> QED BY <1>1, FaithfulInit, FaithfulNext, InvInit, InvNext, PTL DEF SPFSpec

-----------------------------------------------------------------------------
(* AuthChecks.                                                             *)

SenderRecord == [count : Nat, nets : SUBSET STRING]

AuthInv ==
  /\ dmarc \in [Names -> DMARCAnswers]
  /\ history \in [Names -> SenderRecord]
  /\ judged = << >> \/ (judged \in Mail \X Nat)
  /\ greeted \in [Names -> Nat] /\ seen \in 0..MaxSeen /\ lives \in 0..MaxLives

GreetInv ==
  \A d \in Names :
    /\ history[d].count = 0 => greeted[d] <= lives
    /\ history[d].count > 0 => greeted[d] > 0 /\ greeted[d] <= lives + 1

LEMMA DMARCAnswered ==
  ASSUME dmarc \in [Names -> DMARCAnswers], NEW d \in Names
  PROVE  /\ dmarc[d].kind \in {"record", "none", "several", "error"}
         /\ dmarc[d].kind = "record" => dmarc[d] \in DMARCRecords
BY DEF DMARCAnswers, DMARCRecords

LEMMA SomethingVerifies ==
  ASSUME NEW m \in Mail, DKIMCode(m) = "pass"
  PROVE  \E i \in Verifying(m) : Signer(m) = m.sigs[i].d
<1>1. Verifying(m) \in SUBSET Nat
  BY AuthAssumption DEF Verifying, Message
<1>2. Verifying(m) # {}
  BY DEF DKIMCode
<1>3. \E i \in Verifying(m) : \A j \in Verifying(m) : i <= j
  BY <1>1, <1>2, LeastNatural
<1> DEFINE first == CHOOSE i \in Verifying(m) : \A j \in Verifying(m) : i <= j
<1>4. first \in Verifying(m)
  BY <1>3
<1>5. Signer(m) = m.sigs[first].d
  BY DEF Signer
<1> QED BY <1>4, <1>5

LEMMA SpoofedFails ==
  ASSUME dmarc \in [Names -> DMARCAnswers], NEW m \in Mail, NEW p \in {"reject", "quarantine"},
         ~Authentic(m), m.from # NoName, Enforces(m.from, p)
  PROVE  DMARCCode(m) = "fail" /\ DMARCRecordOf(m.from).p = p
<1>1. m.from \in Names /\ Org[m.from] \in Names
  BY AuthAssumption DEF Message
<1> DEFINE r == DMARCRecordOf(m.from)
<1>2. r.kind = "record" /\ r.p = p
  BY <1>1, DMARCAnswered DEF DMARCRecordOf, Enforces
<1>3. ~(m.spf = "pass" /\ IsAligned(EnvelopeDomain(m), m.from, r.aspf))
  BY DEF Authentic, IsAligned
<1>4. ~(DKIMCode(m) = "pass" /\ IsAligned(Signer(m), m.from, r.adkim))
  BY SomethingVerifies DEF Authentic, IsAligned
<1> QED BY <1>2, <1>3, <1>4 DEF DMARCCode

LEMMA PointsAreNatural ==
  ASSUME AuthInv, NEW m \in Mail
  PROVE  /\ SpfPoints[m.spf] \in Nat /\ DkimPoints[DKIMCode(m)] \in Nat
         /\ AuthenticationPoints(m) \in Nat
         /\ Points(m) \in Nat /\ Points(m) >= AuthenticationPoints(m)
<1>1. SpfPoints[m.spf] \in Nat
  <2>1. m.spf \in {"pass", "fail", "softfail", "neutral", "none", "permerror", "temperror"}
    BY AuthAssumption DEF Message
  <2> QED BY <2>1 DEF SpfPoints
<1>2. DkimPoints[DKIMCode(m)] \in Nat
  <2>1. DKIMCode(m) \in {"pass", "none", "fail", "permerror"}
    BY DEF DKIMCode
  <2> QED BY <2>1 DEF DkimPoints
<1>3. DMARCCode(m) = "fail" => DmarcPoints[DMARCRecordOf(m.from).p] \in Nat
  <2> SUFFICES ASSUME DMARCCode(m) = "fail" PROVE DmarcPoints[DMARCRecordOf(m.from).p] \in Nat
    OBVIOUS
  <2>1. DMARCRecordOf(m.from).kind = "record" /\ DMARCRecordOf(m.from).p # "missing"
    BY DEF DMARCCode
  <2>2. m.from # NoName
    BY <2>1 DEF DMARCRecordOf
  <2>3. m.from \in Names /\ Org[m.from] \in Names
    BY <2>2, AuthAssumption DEF Message
  <2>4. DMARCRecordOf(m.from) \in DMARCRecords
    BY <2>1, <2>2, <2>3, DMARCAnswered DEF DMARCRecordOf, AuthInv
  <2>5. DMARCRecordOf(m.from).p \in {"reject", "quarantine", "none"}
    BY <2>1, <2>4 DEF DMARCRecords, Policies
  <2> QED BY <2>5 DEF DmarcPoints
<1>4. AuthenticationPoints(m) \in Nat
  BY <1>1, <1>2, <1>3 DEF AuthenticationPoints
<1>5. Points(m) \in Nat /\ Points(m) >= AuthenticationPoints(m)
  BY <1>4 DEF Points, DkimPolicyPoints, IPReputationPoints
<1> QED BY <1>1, <1>2, <1>4, <1>5

LEMMA SpoofedIsWorth ==
  ASSUME AuthInv, NEW m \in Mail, NEW p \in {"reject", "quarantine"},
         ~Authentic(m), m.from # NoName, Enforces(m.from, p)
  PROVE  Points(m) >= IF ARCCode(m) = "pass" THEN 5 ELSE DmarcPoints[p]
<1>1. DMARCCode(m) = "fail" /\ DMARCRecordOf(m.from).p = p
  BY SpoofedFails DEF AuthInv
<1>2. AuthenticationPoints(m) =
        IF ARCCode(m) = "pass" THEN 5
        ELSE SpfPoints[m.spf] + DkimPoints[DKIMCode(m)] + DmarcPoints[p]
  BY <1>1 DEF AuthenticationPoints
<1>3. DmarcPoints[p] \in Nat
  BY DEF DmarcPoints
<1> QED BY <1>2, <1>3, PointsAreNatural

LEMMA AuthStep ==
  ASSUME AuthInv, GreetInv, SpoofedIsCharged, NEW m \in Mail, RunAuthChecks(m)
  PROVE  AuthInv' /\ GreetInv' /\ SpoofedIsCharged'
<1>1. judged' = <<m, Points(m)>> /\ judged' # << >> /\ dmarc' = dmarc /\ lives' = lives
      /\ seen' \in 0..MaxSeen
  <2>1. judged' = <<m, Points(m)>> /\ dmarc' = dmarc /\ lives' = lives
    BY DEF RunAuthChecks
  <2>2. seen' \in 0..MaxSeen
    <3>1. seen \in 0..MaxSeen /\ seen < MaxSeen /\ seen' = seen + 1
      BY DEF RunAuthChecks, AuthInv
    <3> QED BY <3>1, AuthAssumption
  <2> QED BY <2>1, <2>2
<1>2. SpoofedIsCharged'
  <2> SUFFICES ASSUME ~Authentic(m), m.from # NoName
               PROVE  /\ Enforces(m.from, "reject") =>
                           Points(m) >= IF ARCCode(m) = "pass" THEN 5 ELSE 50
                      /\ Enforces(m.from, "quarantine") =>
                           Points(m) >= IF ARCCode(m) = "pass" THEN 5 ELSE 35
    BY <1>1 DEF SpoofedIsCharged, Authentic, Enforces, ARCCode, Verifying, EnvelopeDomain
  <2>1. DmarcPoints["reject"] = 50 /\ DmarcPoints["quarantine"] = 35
    BY DEF DmarcPoints
  <2> QED BY <2>1, SpoofedIsWorth
<1> DEFINE d == BaselineDomain(m)
<1>3. d \in Names \cup {NoName} /\ m.net \in STRING
  BY AuthAssumption DEF BaselineDomain, EnvelopeDomain, Message
<1>4. CASE d = NoName
  <2>1. UNCHANGED <<history, greeted>>
    BY <1>4 DEF RunAuthChecks
  <2> QED BY <1>1, <1>2, <2>1, PointsAreNatural DEF AuthInv, GreetInv
<1>5. CASE d # NoName
  <2> DEFINE e == [history[d] EXCEPT !.count = @ + 1,
                                     !.nets = IF m.net = "" THEN @ ELSE @ \cup {m.net}]
  <2>1. d \in Names /\ history[d] \in SenderRecord
    BY <1>3, <1>5 DEF AuthInv
  <2>2. history' = [history EXCEPT ![d] = e]
    BY <1>5, <2>1 DEF RunAuthChecks, AuthInv
  <2>3. greeted' = IF history[d].count = 0 THEN [greeted EXCEPT ![d] = @ + 1] ELSE greeted
    BY <1>5 DEF RunAuthChecks, IsFirstContact
  <2>4. e \in SenderRecord /\ e.count = history[d].count + 1
    <3> DEFINE n == history[d].count + 1
               nets == IF m.net = "" THEN history[d].nets ELSE history[d].nets \cup {m.net}
    <3>1. n \in Nat /\ nets \in SUBSET STRING
      <4>1. history[d].count \in Nat /\ history[d].nets \in SUBSET STRING
        BY <2>1 DEF SenderRecord
      <4>2. n \in Nat
        BY <4>1
      <4>3. nets \in SUBSET STRING
        BY <4>1, <1>3, Zenon
      <4> QED BY <4>2, <4>3
    <3>2. e = [history[d] EXCEPT !.count = n, !.nets = nets]
      OBVIOUS
    <3> HIDE DEF n, nets, e
    <3>3. e = [count |-> n, nets |-> nets]
      BY <2>1, <3>2 DEF SenderRecord
    <3>4. e.count = n
      BY <3>3
    <3> QED BY <3>1, <3>3, <3>4 DEF n, SenderRecord
  <2>5. history[d].count \in Nat
    BY <2>1 DEF SenderRecord
  <2> HIDE DEF e, d
  <2>6. AuthInv'
    BY <1>1, <2>1, <2>2, <2>3, <2>4, PointsAreNatural DEF AuthInv
  <2>7. GreetInv'
    <3> SUFFICES ASSUME NEW n \in Names
                 PROVE  /\ history'[n].count = 0 => greeted'[n] <= lives
                        /\ history'[n].count > 0 => greeted'[n] > 0 /\ greeted'[n] <= lives + 1
      BY <1>1 DEF GreetInv
    <3>1. CASE n = d
      BY <3>1, <2>1, <2>2, <2>3, <2>4, <2>5 DEF GreetInv, AuthInv
    <3>2. CASE n # d
      BY <3>2, <2>1, <2>2, <2>3 DEF GreetInv, AuthInv
    <3> QED BY <3>1, <3>2
  <2> QED BY <1>2, <2>6, <2>7
<1> QED BY <1>4, <1>5

(* auth_checker/pipeline.py and what it calls.  For every message, DNS     *)
(* answer and policy, any number of messages and restarts: a first contact *)
(* is charged at most once per domain and process, and a message that      *)
(* nobody of the visible domain vouches for costs what its policy asks, or *)
(* five points behind a seal that check_arc passes.                        *)
THEOREM ChargesEarned == AuthSpec => []ChargesAreEarned
<1> DEFINE ChargesInv == AuthInv /\ GreetInv /\ SpoofedIsCharged
<1>1. AuthInit => ChargesInv
  <2> SUFFICES ASSUME AuthInit PROVE ChargesInv
    OBVIOUS
  <2>1. history \in [Names -> SenderRecord] /\ \A d \in Names : history[d].count = 0
    BY DEF AuthInit, Nobody, SenderRecord
  <2> QED BY <2>1, AuthAssumption DEF AuthInit, AuthInv, GreetInv, SpoofedIsCharged
<1>2. ChargesInv /\ [AuthNext]_authvars => ChargesInv'
  <2> SUFFICES ASSUME ChargesInv, [AuthNext]_authvars PROVE ChargesInv'
    OBVIOUS
  <2>1. ASSUME NEW m \in Mail, RunAuthChecks(m) PROVE ChargesInv'
    BY <2>1, AuthStep
  <2>2. CASE HistoryLost
    <3>1. history' \in [Names -> SenderRecord] /\ \A d \in Names : history'[d].count = 0
      BY <2>2 DEF HistoryLost, Nobody, SenderRecord
    <3>2. AuthInv' /\ SpoofedIsCharged'
      BY <2>2, <3>1, AuthAssumption DEF HistoryLost, AuthInv, SpoofedIsCharged
    <3>3. \A d \in Names : history[d].count \in Nat
      BY DEF AuthInv, SenderRecord
    <3>4. GreetInv'
      BY <2>2, <3>1, <3>3, AuthAssumption DEF HistoryLost, AuthInv, GreetInv
    <3> QED BY <3>2, <3>4
  <2>3. CASE UNCHANGED authvars
    BY <2>3 DEF authvars, AuthInv, GreetInv, SpoofedIsCharged, Authentic, Enforces, ARCCode, Verifying, EnvelopeDomain
  <2> QED BY <2>1, <2>2, <2>3 DEF AuthNext
<1>3. ChargesInv => ChargesAreEarned
  <2> SUFFICES ASSUME ChargesInv PROVE GreetedOnce
    BY DEF ChargesAreEarned
  <2> SUFFICES ASSUME NEW d \in Names
               PROVE  greeted[d] <= lives + 1 /\ (history[d].count > 0 => greeted[d] > 0)
    BY DEF GreetedOnce
  <2>1. history[d] \in SenderRecord /\ greeted[d] \in Nat /\ lives \in 0..MaxLives
    BY DEF AuthInv
  <2>2. history[d].count \in Nat /\ lives \in Nat
    BY <2>1, AuthAssumption DEF SenderRecord
  <2>3. history[d].count = 0 \/ history[d].count > 0
    BY <2>2
  <2> QED BY <2>1, <2>2, <2>3 DEF GreetInv
<1> QED
  BY <1>1, <1>2, <1>3, PTL DEF AuthSpec

-----------------------------------------------------------------------------
(* Attachments.                                                            *)

(* What the analysis owes to one attachment: the file and, of an archive   *)
(* that opens, the first of its members.                                   *)
OwedFor(f) == {f} \cup (IF IsArchive(f) /\ ~World[f].broken THEN Members(f) ELSE {})

Listed == {worklist[i] : i \in DOMAIN worklist}
Looked == {worklist[i] : i \in 1..analysed}

(* As long as nothing was charged, what was opened was not locked and is   *)
(* on the list, and what was taken from the list was scanned and is free.  *)
AttInv ==
  /\ AttTypeOK
  /\ stage = "open" => analysed = 0
  /\ stage # "open" => opened = Len(attached)
  /\ stage = "done" => analysed = Len(worklist)
  /\ points = 0 =>
       /\ \A i \in 1..opened : OwedFor(attached[i]) \subseteq Listed
       /\ \A f \in Looked : f \in scanned /\ StaticPoints(f) = 0

LEMMA FirstOfFacts ==
  ASSUME NEW S, NEW s \in Seq(S), NEW n \in Nat
  PROVE  /\ FirstOf(s, n) \in Seq(S) /\ DOMAIN FirstOf(s, n) \subseteq DOMAIN s
         /\ Len(s) <= n => FirstOf(s, n) = s
         /\ \A i \in DOMAIN FirstOf(s, n) : FirstOf(s, n)[i] = s[i]
<1> DEFINE k == Min({n, Len(s)})
<1>1. k \in {n, Len(s)} /\ k <= n /\ k <= Len(s)
  <2>1. \E x \in {n, Len(s)} : \A y \in {n, Len(s)} : x <= y
    <3>1. n <= Len(s) \/ Len(s) <= n
      OBVIOUS
    <3> QED BY <3>1
  <2> QED BY <2>1 DEF Min
<1>2. k \in Nat /\ (Len(s) <= n => k = Len(s))
  BY <1>1
<1> HIDE DEF k
<1>3. FirstOf(s, n) = SubSeq(s, 1, k)
  BY DEF FirstOf, k
<1>4. SubSeq(s, 1, k) \in Seq(S) /\ Len(SubSeq(s, 1, k)) = k
      /\ \A i \in 1..k : SubSeq(s, 1, k)[i] = s[i]
  BY <1>1, <1>2
<1>5. k = Len(s) => SubSeq(s, 1, k) = s
  BY <1>4
<1> QED BY <1>1, <1>2, <1>3, <1>4, <1>5

LEMMA ElementOf ==
  ASSUME NEW S, NEW s \in Seq(S), NEW i \in DOMAIN s
  PROVE  s[i] \in S
OBVIOUS

PartRecord == [file : Files, name : STRING, locked : BOOLEAN]

(* What is read for a member is a member: itself, or a namesake.           *)
LEMMA ReadIsMember ==
  ASSUME NEW f \in Files, NEW i \in DOMAIN World[f].parts
  PROVE  ReadAs(f, i) \in PartRecord
<1> DEFINE parts == World[f].parts
<1>1. parts \in Seq(PartRecord)
  BY AttachmentsAssumption DEF PartRecord
<1>2. PICK n \in Nat : DOMAIN parts = 1..n
  BY <1>1
<1>3. Namesakes(f, i) \in SUBSET (1..n) /\ Namesakes(f, i) # {}
  BY <1>2 DEF Namesakes
<1>4. Max(Namesakes(f, i)) \in DOMAIN parts
  BY <1>2, <1>3, Greatest
<1> HIDE DEF parts
<1>5. parts[Max(Namesakes(f, i))] \in PartRecord
  BY <1>1, <1>4, ElementOf, Zenon
<1> QED BY <1>5 DEF ReadAs, parts

LEMMA FileFacts ==
  ASSUME NEW f \in Files
  PROVE  /\ World[f].parts \in Seq(PartRecord)
         /\ MaxFiles \in Nat /\ World[f].broken \in BOOLEAN
         /\ Extracted(f) \in Seq(Files)
         /\ ~Encrypted(f) /\ IsArchive(f) /\ ~World[f].broken =>
              Members(f) \subseteq {Extracted(f)[i] : i \in DOMAIN Extracted(f)}
         /\ StaticPoints(f) \in Nat
<1> DEFINE first == FirstOf(World[f].parts, MaxFiles)
           taken == [i \in DOMAIN first |-> ReadAs(f, i).file]
<1>1. /\ World[f].parts \in Seq(PartRecord)
      /\ MaxFiles \in Nat /\ World[f].broken \in BOOLEAN
  BY AttachmentsAssumption DEF PartRecord
<1>2. first \in Seq(PartRecord) /\ DOMAIN first \subseteq DOMAIN World[f].parts
  BY <1>1, FirstOfFacts
<1>3. DOMAIN first = 1..Len(first) /\ Len(first) \in Nat
  BY <1>2
<1>4. Extracted(f) \in {<< >>, taken}
      /\ (~Encrypted(f) /\ IsArchive(f) /\ ~World[f].broken => Extracted(f) = taken)
  BY DEF Extracted
<1>5. Members(f) = {World[f].parts[i].file : i \in {j \in DOMAIN first : Max(Namesakes(f, j)) = j}}
  BY DEF Members
<1> HIDE DEF first
<1>6. Extracted(f) \in Seq(Files)
  <2>1. \A i \in DOMAIN first : ReadAs(f, i).file \in Files
    BY <1>2, ReadIsMember DEF PartRecord
  <2>2. taken \in Seq(Files) /\ << >> \in Seq(Files)
    BY <1>3, <2>1
  <2> HIDE DEF taken
  <2> QED BY <1>4, <2>2, Zenon
<1>7. Members(f) \subseteq {taken[i] : i \in DOMAIN taken}
  <2>1. \A j \in DOMAIN first : Max(Namesakes(f, j)) = j => World[f].parts[j].file = taken[j]
    BY DEF ReadAs
  <2> QED BY <1>5, <2>1
<1>8. DocumentPoints(f) \in Nat /\ PolicyPoints(f) \in Nat
  BY DEF DocumentPoints, PolicyPoints, If
<1>9. StaticPoints(f) \in Nat
  BY <1>8 DEF StaticPoints, If
<1> HIDE DEF taken
<1> QED BY <1>1, <1>4, <1>6, <1>7, <1>9

LEMMA FreeFiles ==
  ASSUME NEW f \in Files, StaticPoints(f) = 0
  PROVE  ~IsDangerous(f) /\ ~IsSpoofed(f) /\ ~HasMacros(f)
<1>1. DocumentPoints(f) \in Nat /\ PolicyPoints(f) \in Nat /\ (HasMacros(f) => PolicyPoints(f) >= 50)
  BY DEF DocumentPoints, PolicyPoints, If
<1> QED BY <1>1 DEF StaticPoints, If

LEMMA Concatenation ==
  ASSUME NEW S, NEW s \in Seq(S), NEW t \in Seq(S)
  PROVE  /\ s \o t \in Seq(S) /\ Len(s \o t) = Len(s) + Len(t)
         /\ \A i \in 1..Len(s) : (s \o t)[i] = s[i]
         /\ \A i \in 1..Len(t) : (s \o t)[Len(s) + i] = t[i]
OBVIOUS

LEMMA OpenKeeps ==
  ASSUME AttInv, OpenNext
  PROVE  AttInv'
<1> DEFINE f == attached[opened + 1]
<1>1. /\ stage = "open" /\ opened < Len(attached) /\ opened' = opened + 1 /\ analysed = 0
      /\ UNCHANGED <<attached, analysed, scanned, stage>>
  BY DEF OpenNext, AttInv
<1>2. attached \in Seq(Files) /\ worklist \in Seq(Files) /\ points \in Nat /\ opened \in 0..Len(attached)
      /\ scanned \subseteq Files
  BY DEF AttInv, AttTypeOK
<1>3. f \in Files /\ opened + 1 \in 1..Len(attached)
  BY <1>1, <1>2
<1>4. /\ worklist' = Append(worklist, f) \o Extracted(f)
      /\ points' = points + If(Encrypted(f), 45)
  BY DEF OpenNext
<1>5. Extracted(f) \in Seq(Files)
  BY <1>3, FileFacts
<1>6. points' \in Nat /\ (points' = 0 => points = 0 /\ ~Encrypted(f))
  BY <1>2, <1>4 DEF If
<1>. HIDE DEF f
<1>7. /\ worklist' \in Seq(Files) /\ Len(worklist') = Len(worklist) + 1 + Len(Extracted(f))
      /\ \A i \in DOMAIN worklist : worklist'[i] = worklist[i]
      /\ worklist'[Len(worklist) + 1] = f
      /\ \A i \in DOMAIN Extracted(f) : worklist'[Len(worklist) + 1 + i] = Extracted(f)[i]
  <2> DEFINE head == Append(worklist, f)
  <2>1. head \in Seq(Files) /\ Len(head) = Len(worklist) + 1 /\ head[Len(worklist) + 1] = f
        /\ \A i \in DOMAIN worklist : head[i] = worklist[i]
    BY <1>2, <1>3
  <2> HIDE DEF head
  <2>2. worklist' = head \o Extracted(f)
    BY <1>4 DEF head
  <2>3. /\ worklist' \in Seq(Files) /\ Len(worklist') = Len(head) + Len(Extracted(f))
        /\ \A i \in 1..Len(head) : worklist'[i] = head[i]
        /\ \A i \in 1..Len(Extracted(f)) : worklist'[Len(head) + i] = Extracted(f)[i]
    <3>1. /\ head \o Extracted(f) \in Seq(Files)
          /\ Len(head \o Extracted(f)) = Len(head) + Len(Extracted(f))
          /\ \A i \in 1..Len(head) : (head \o Extracted(f))[i] = head[i]
          /\ \A i \in 1..Len(Extracted(f)) : (head \o Extracted(f))[Len(head) + i] = Extracted(f)[i]
      <4>1. ASSUME NEW s \in Seq(Files), NEW t \in Seq(Files)
            PROVE  /\ s \o t \in Seq(Files) /\ Len(s \o t) = Len(s) + Len(t)
                   /\ \A i \in 1..Len(s) : (s \o t)[i] = s[i]
                   /\ \A i \in 1..Len(t) : (s \o t)[Len(s) + i] = t[i]
        BY Concatenation
      <4> QED BY <1>5, <2>1, <4>1, Zenon
    <3> QED BY <2>2, <3>1, Zenon
  <2>4. Len(worklist) \in Nat /\ DOMAIN worklist = 1..Len(worklist)
        /\ DOMAIN Extracted(f) = 1..Len(Extracted(f))
    BY <1>2, <1>5
  <2> QED BY <2>1, <2>3, <2>4
<1>8. /\ Listed \subseteq Listed' /\ f \in Listed'
      /\ {Extracted(f)[i] : i \in DOMAIN Extracted(f)} \subseteq Listed'
  <2>1. DOMAIN worklist' = 1..(Len(worklist) + 1 + Len(Extracted(f))) /\ Len(worklist) \in Nat
        /\ Len(Extracted(f)) \in Nat /\ DOMAIN worklist = 1..Len(worklist)
        /\ DOMAIN Extracted(f) = 1..Len(Extracted(f))
    BY <1>2, <1>5, <1>7
  <2>2. Listed \subseteq Listed'
    BY <1>7, <2>1 DEF Listed
  <2>3. f \in Listed'
    BY <1>7, <2>1 DEF Listed
  <2>4. ASSUME NEW i \in DOMAIN Extracted(f) PROVE Extracted(f)[i] \in Listed'
    <3>1. Len(worklist) + 1 + i \in DOMAIN worklist'
      BY <2>1
    <3> QED BY <1>7, <3>1 DEF Listed
  <2> QED BY <2>2, <2>3, <2>4
<1>9. points' = 0 => OwedFor(f) \subseteq Listed'
  BY <1>3, <1>6, <1>8, FileFacts DEF OwedFor
<1>10. \A i \in 1..opened' : i \in 1..opened \/ i = opened + 1
  BY <1>1, <1>2
<1>11. points' = 0 => \A i \in 1..opened' : OwedFor(attached[i]) \subseteq Listed'
  BY <1>6, <1>8, <1>9, <1>10 DEF AttInv, f
<1>12. Looked' = {}
  BY <1>1 DEF Looked
<1>13. AttTypeOK'
  BY <1>1, <1>2, <1>3, <1>6, <1>7 DEF AttTypeOK, AttInv
<1> QED BY <1>1, <1>11, <1>12, <1>13 DEF AttInv

LEMMA CutKeeps ==
  ASSUME AttInv, CutList
  PROVE  AttInv'
<1>1. /\ stage = "open" /\ opened = Len(attached) /\ analysed = 0 /\ stage' = "analyse"
      /\ UNCHANGED <<attached, opened, analysed, scanned>>
      /\ worklist' = FirstOf(worklist, MaxAttachments)
      /\ points' = points + If(Len(worklist) > MaxAttachments, 10)
  BY DEF CutList, AttInv
<1>2. worklist \in Seq(Files) /\ points \in Nat /\ MaxAttachments \in Nat
  BY AttachmentsAssumption DEF AttInv, AttTypeOK
<1>3. worklist' \in Seq(Files)
  BY <1>1, <1>2, FirstOfFacts
<1>4. points' \in Nat /\ (points' = 0 => points = 0 /\ Len(worklist) <= MaxAttachments)
  BY <1>1, <1>2 DEF If
<1>5. points' = 0 => worklist' = worklist
  BY <1>1, <1>2, <1>4, FirstOfFacts
<1>6. points' = 0 => \A i \in 1..opened : OwedFor(attached[i]) \subseteq Listed'
  BY <1>4, <1>5 DEF AttInv, Listed
<1>7. Looked' = {}
  BY <1>1 DEF Looked
<1>8. AttTypeOK'
  BY <1>1, <1>3, <1>4 DEF AttTypeOK, AttInv
<1> QED BY <1>1, <1>6, <1>7, <1>8 DEF AttInv

LEMMA FileTaken ==
  ASSUME AttInv, HasNext, analysed' = analysed + 1, UNCHANGED <<attached, opened, worklist, stage>>
  PROVE  /\ File \in Files /\ analysed' \in 0..Len(worklist)
         /\ Looked' = Looked \cup {File}
<1>1. worklist \in Seq(Files) /\ analysed \in 0..Len(worklist) /\ analysed < Len(worklist)
  BY DEF AttInv, AttTypeOK, HasNext
<1>2. File \in Files /\ analysed' \in 0..Len(worklist)
  BY <1>1 DEF File
<1>3. 1..analysed' = (1..analysed) \cup {analysed + 1}
  BY <1>1
<1>4. Looked' = Looked \cup {File}
  BY <1>3 DEF Looked, File
<1> QED BY <1>2, <1>4

LEMMA BigKeeps ==
  ASSUME AttInv, PassOverBig
  PROVE  AttInv'
<1>1. points \in Nat /\ points' = points + 10 /\ UNCHANGED <<attached, opened, worklist, scanned, stage>>
      /\ HasNext /\ analysed' = analysed + 1 /\ stage = "analyse"
  BY DEF PassOverBig, AttInv, AttTypeOK, HasNext
<1>2. points' \in Nat /\ points' # 0
  BY <1>1
<1>3. analysed' \in 0..Len(worklist)
  BY <1>1, FileTaken
<1>4. AttTypeOK'
  BY <1>1, <1>2, <1>3 DEF AttInv, AttTypeOK
<1> QED BY <1>1, <1>2, <1>4 DEF AttInv

LEMMA AnalyseKeeps ==
  ASSUME AttInv, AnalyseNext
  PROVE  AttInv'
<1>1. /\ points \in Nat /\ UNCHANGED <<attached, opened, worklist, stage>>
      /\ HasNext /\ analysed' = analysed + 1 /\ stage = "analyse" /\ scanned' = scanned \cup {File}
  BY DEF AnalyseNext, AttInv, AttTypeOK, HasNext
<1>2. File \in Files /\ analysed' \in 0..Len(worklist) /\ Looked' = Looked \cup {File}
  BY <1>1, FileTaken
<1>3. PICK verdict \in {World[File].known, "unknown"},
           scan \in {IF World[File].virus THEN "infected" ELSE "clean", "error", "not_scanned"} :
             points' = points + StaticPoints(File) + VerdictPoints[verdict] + ScanPoints[scan]
  BY DEF AnalyseNext
<1>4. VerdictPoints[verdict] \in Nat
  <2>1. verdict \in {"clean", "suspicious", "malicious", "unknown"}
    BY <1>2, AttachmentsAssumption
  <2> QED BY <2>1 DEF VerdictPoints
<1>5. ScanPoints[scan] \in Nat
  <2>1. scan \in {"infected", "clean", "error", "not_scanned"}
    OBVIOUS
  <2> QED BY <2>1 DEF ScanPoints
<1>6. StaticPoints(File) \in Nat
  BY <1>2, FileFacts
<1>7. points' \in Nat /\ (points' = 0 => points = 0 /\ StaticPoints(File) = 0)
  <2>1. PICK s : s = StaticPoints(File)
    OBVIOUS
  <2>2. PICK v : v = VerdictPoints[verdict]
    OBVIOUS
  <2>3. PICK c : c = ScanPoints[scan]
    OBVIOUS
  <2>4. points' = points + s + v + c
    BY <1>3, <2>1, <2>2, <2>3
  <2>5. points \in Nat /\ s \in Nat /\ v \in Nat /\ c \in Nat
    BY <1>1, <1>4, <1>5, <1>6, <2>1, <2>2, <2>3
  <2>6. points' \in Nat /\ (points' = 0 => points = 0 /\ s = 0)
    <3> HIDE <1>3
    <3> QED BY <2>4, <2>5, SMTT(60)
  <2> QED BY <2>1, <2>6
<1>8. AttTypeOK'
  BY <1>1, <1>2, <1>7 DEF AttInv, AttTypeOK
<1>9. points' = 0 => \A i \in 1..opened : OwedFor(attached[i]) \subseteq Listed'
  BY <1>1, <1>7 DEF AttInv, Listed
<1>10. points' = 0 => \A f \in Looked' : f \in scanned' /\ StaticPoints(f) = 0
  BY <1>1, <1>2, <1>7 DEF AttInv
<1> QED BY <1>1, <1>8, <1>9, <1>10 DEF AttInv

(* attachment_analysis/pipeline.py and archives.py.  For every nesting of  *)
(* archives and every cap: an attachment that costs nothing was scanned,   *)
(* and so was every member the analysis could take out of it by its name.  *)
THEOREM FreeIsScanned == AttSpec => []FreeMeansScanned
<1>1. AttInit => AttInv
  <2> SUFFICES ASSUME AttInit PROVE AttInv
    OBVIOUS
  <2>1. attached \in Seq(Files)
    BY AttachmentsAssumption DEF AttInit
  <2>2. worklist \in Seq(Files) /\ Len(worklist) = 0
    BY DEF AttInit
  <2>3. AttTypeOK
    BY <2>1, <2>2 DEF AttInit, AttTypeOK
  <2>4. Looked = {} /\ 1..opened = {}
    BY DEF AttInit, Looked
  <2> QED BY <2>3, <2>4 DEF AttInit, AttInv
<1>2. AttInv /\ [AttNext]_attvars => AttInv'
  <2> SUFFICES ASSUME AttInv, [AttNext]_attvars PROVE AttInv'
    OBVIOUS
  <2>1. CASE AnalysisEnds
    BY <2>1 DEF AnalysisEnds, AttInv, AttTypeOK, Listed, Looked
  <2>2. CASE UNCHANGED attvars
    BY <2>2 DEF attvars, AttInv, AttTypeOK, Listed, Looked
  <2> QED BY <2>1, <2>2, OpenKeeps, CutKeeps, BigKeeps, AnalyseKeeps DEF AttNext
<1>3. AttInv => FreeMeansScanned
  <2> SUFFICES ASSUME AttInv, stage = "done", points = 0
               PROVE  Owed \subseteq scanned
                      /\ \A f \in Owed : ~IsDangerous(f) /\ ~IsSpoofed(f) /\ ~HasMacros(f)
    BY DEF FreeMeansScanned
  <2>1. attached \in Seq(Files) /\ worklist \in Seq(Files) /\ opened = Len(attached)
        /\ analysed = Len(worklist)
    BY DEF AttInv, AttTypeOK
  <2>2. Listed = Looked /\ Listed \subseteq Files
    BY <2>1 DEF Listed, Looked
  <2>3. ASSUME NEW f \in Range(attached) PROVE OwedFor(f) \subseteq Listed
    BY <2>1 DEF Range, AttInv
  <2>4. Owed \subseteq Listed
    BY <2>3 DEF Owed, OwedFor, MembersOf
  <2>5. \A f \in Owed : f \in scanned /\ StaticPoints(f) = 0 /\ f \in Files
    BY <2>2, <2>4 DEF AttInv
  <2> QED BY <2>5, FreeFiles
<1> QED
  BY <1>1, <1>2, <1>3, PTL DEF AttSpec

-----------------------------------------------------------------------------
(* ContentChecks: the dictionaries add up natural numbers.                 *)

WordSum(h, W, f) ==
  h = [s \in SUBSET W |-> IF s = {} THEN 0 ELSE h[s \ {NextOut(s)}] + f[NextOut(s)]]

LEMMA WordSums ==
  ASSUME NEW W, IsFiniteSet(W), NEW f \in [W -> Nat]
  PROVE  (CHOOSE h : WordSum(h, W, f))[W] \in Nat
<1> DEFINE op == [n \in Nat |-> [w \in W |-> n + f[w]]]
           c == [s \in SUBSET W |-> NextOut(s)]
<1>1. op \in [Nat -> [W -> Nat]]
  OBVIOUS
<1>2. \A s \in SUBSET W : s # {} => NextOut(s) \in s
  BY Zenon DEF NextOut
<1>3. \A s \in SUBSET W : c[s] = NextOut(s)
  OBVIOUS
<1>4. PICK h \in [SUBSET W -> Nat] : Folds(h, W, 0, op, c)
  <2>1. 0 \in Nat /\ \A s \in SUBSET W : s # {} => c[s] \in s
    BY <1>2, <1>3
  <2> HIDE DEF op, c
  <2> QED BY <1>1, <2>1, FoldsExist, Zenon
<1>5. \A s \in SUBSET W : h[s] = IF s = {} THEN 0 ELSE op[h[s \ {c[s]}]][c[s]]
  BY <1>4 DEF Folds
<1>6. ASSUME NEW s \in SUBSET W, s # {} PROVE h[s] = h[s \ {NextOut(s)}] + f[NextOut(s)]
  <2>1. NextOut(s) \in W /\ s \ {NextOut(s)} \in SUBSET W
    BY <1>2, <1>6
  <2>2. h[s \ {NextOut(s)}] \in Nat
    BY <2>1
  <2> QED BY <1>3, <1>5, <1>6, <2>1, <2>2
<1>7. h = [s \in SUBSET W |-> IF s = {} THEN 0 ELSE h[s \ {NextOut(s)}] + f[NextOut(s)]]
  BY <1>5, <1>6
<1>8. WordSum(h, W, f)
  BY <1>7 DEF WordSum
<1>9. PICK g : g = CHOOSE k : WordSum(k, W, f)
  OBVIOUS
<1>10. WordSum(g, W, f)
  BY <1>8, <1>9, Zenon
<1> DEFINE T == {n \in Nat : \E s \in SUBSET W : Cardinality(s) = n /\ g[s] \notin Nat}
<1>11. ASSUME T # {} PROVE FALSE
  <2>1. T \in SUBSET Nat
    OBVIOUS
  <2>2. PICK n \in T : \A m \in T : n <= m
    <3> HIDE DEF T
    <3> QED BY <1>11, <2>1, LeastNatural
  <2>3. PICK s \in SUBSET W : Cardinality(s) = n /\ g[s] \notin Nat
    OBVIOUS
  <2>4. g[s] = IF s = {} THEN 0 ELSE g[s \ {NextOut(s)}] + f[NextOut(s)]
    BY <1>10 DEF WordSum
  <2>5. s # {}
    BY <2>3, <2>4
  <2>6. NextOut(s) \in s /\ f[NextOut(s)] \in Nat
    BY <1>2, <2>5
  <2>7. IsFiniteSet(s) /\ Cardinality(s) \in Nat /\ Cardinality(s \ {NextOut(s)}) = Cardinality(s) - 1
        /\ Cardinality(s \ {NextOut(s)}) \in Nat
    BY <2>6, FS_Subset, FS_CardinalityType, FS_RemoveElement
  <2>8. g[s \ {NextOut(s)}] \in Nat
    BY <2>2, <2>3, <2>7
  <2> QED BY <2>3, <2>4, <2>5, <2>6, <2>8
<1>12. g[W] \in Nat
  <2>1. IsFiniteSet(W) /\ Cardinality(W) \in Nat
    BY FS_CardinalityType
  <2> QED BY <1>11, <2>1
<1> QED BY <1>9, <1>12

LEMMA KeywordPointsCounted ==
  ASSUME NEW words \in SUBSET Words
  PROVE  KeywordPoints(words) \in Nat
<1> DEFINE f == [w \in words |-> Lexicon[w].points]
<1>1. IsFiniteSet(words)
  BY ContentAssumption, FS_Subset
<1>2. f \in [words -> Nat]
  BY ContentAssumption DEF Entry
<1>3. \A h : WordSum(h, words, f) <=>
        h = [s \in SUBSET words |-> IF s = {} THEN 0
                                    ELSE h[s \ {NextOut(s)}] + Lexicon[NextOut(s)].points]
  <2>1. \A s \in SUBSET words : s # {} => f[NextOut(s)] = Lexicon[NextOut(s)].points
    <3> SUFFICES ASSUME NEW s \in SUBSET words, s # {} PROVE NextOut(s) \in words
      OBVIOUS
    <3>1. NextOut(s) \in s
      BY Zenon DEF NextOut
    <3> QED BY <3>1
  <2> HIDE DEF f
  <2> QED BY <2>1 DEF WordSum
<1>4. KeywordPoints(words) =
        (CHOOSE h : h = [s \in SUBSET words |-> IF s = {} THEN 0
                           ELSE h[s \ {NextOut(s)}] + Lexicon[NextOut(s)].points])[words]
  BY Zenon DEF KeywordPoints, Total, FoldSet, MapThenFoldSet, NextOut
<1> HIDE DEF f
<1>5. KeywordPoints(words) = (CHOOSE h : WordSum(h, words, f))[words]
  BY <1>3, <1>4
<1> QED BY <1>1, <1>2, <1>5, WordSums

LEMMA DictionaryPointsCounted ==
  ASSUME NEW words \in SUBSET Words
  PROVE  DictionaryPoints(words) \in Nat
<1> DEFINE W == {w \in words : Lexicon[w].lang = Language(words) /\ Lexicon[w].lang # "en"}
           f == [w \in W |-> Lexicon[w].weight]
<1>1. IsFiniteSet(W) /\ W \in SUBSET Words
  BY ContentAssumption, FS_Subset
<1>2. f \in [W -> Nat]
  BY <1>1, ContentAssumption DEF Entry
<1>3. \A h : WordSum(h, W, f) <=>
        h = [s \in SUBSET W |-> IF s = {} THEN 0
                                ELSE h[s \ {NextOut(s)}] + Lexicon[NextOut(s)].weight]
  <2> HIDE DEF W
  <2>1. \A s \in SUBSET W : s # {} => f[NextOut(s)] = Lexicon[NextOut(s)].weight
    <3> SUFFICES ASSUME NEW s \in SUBSET W, s # {} PROVE NextOut(s) \in W
      OBVIOUS
    <3>1. NextOut(s) \in s
      BY Zenon DEF NextOut
    <3> QED BY <3>1
  <2> HIDE DEF f
  <2> QED BY <2>1 DEF WordSum
<1>4. DictionaryPoints(words) =
        (CHOOSE h : h = [s \in SUBSET W |-> IF s = {} THEN 0
                           ELSE h[s \ {NextOut(s)}] + Lexicon[NextOut(s)].weight])[W]
  BY Zenon DEF DictionaryPoints, Total, FoldSet, MapThenFoldSet, NextOut
<1> HIDE DEF f, W
<1>5. DictionaryPoints(words) = (CHOOSE h : WordSum(h, W, f))[W]
  BY <1>3, <1>4
<1> QED BY <1>1, <1>2, <1>5, WordSums

-----------------------------------------------------------------------------
(* ContentChecks: the links of a message are in one sequence.              *)
LEMMA SetAsSequence ==
  ASSUME NEW U, NEW S \in SUBSET U, IsFiniteSet(S)
  PROVE  SetToSeq(S) \in Seq(U) /\ Len(SetToSeq(S)) = Cardinality(S)
<1>1. PICK f \in Bijection(1..Cardinality(S), S) : TRUE
  BY FS_CardinalityType DEF ExistsBijection
<1>2. f \in [1..Cardinality(S) -> S] /\ IsInjective(f)
  BY <1>1 DEF Bijection, Injection, IsInjective
<1>3. SetToSeq(S) \in [1..Cardinality(S) -> S]
  BY <1>2, Zenon DEF SetToSeq
<1>4. Cardinality(S) \in Nat
  BY FS_CardinalityType
<1> QED BY <1>3, <1>4

(* The greatest number of a set, which FoldLeft takes out first.           *)
(* FlattenSeq puts the sequences of a sequence one behind another.         *)
Flattens(g, q) == g = [i \in 1..Len(q) |-> IF i = 1 THEN q[i] ELSE g[i - 1] \o q[i]]

LEMMA FlattenIsChosen ==
  ASSUME NEW q, Len(q) # 0
  PROVE  FlattenSeq(q) = (CHOOSE g : Flattens(g, q))[Len(q)]
BY Zenon DEF FlattenSeq, Flattens

LEMMA Flattened ==
  ASSUME NEW U, NEW q \in Seq(Seq(U))
  PROVE  FlattenSeq(q) \in Seq(U)
<1>1. CASE Len(q) = 0
  BY <1>1 DEF FlattenSeq
<1>2. CASE Len(q) # 0
  <2>1. PICK n : n = Len(q)
    OBVIOUS
  <2>2. n \in Nat /\ n \in 1..n /\ \A i \in 1..n : q[i] \in Seq(U)
    BY <1>2, <2>1
  <2> DEFINE op == [x \in Seq(U) |-> [i \in 1..n |-> IF i = 1 THEN q[i] ELSE x \o q[i]]]
  <2>3. op \in [Seq(U) -> [1..n -> Seq(U)]]
    <3> SUFFICES ASSUME NEW x \in Seq(U), NEW i \in 1..n
                 PROVE  (IF i = 1 THEN q[i] ELSE x \o q[i]) \in Seq(U)
      OBVIOUS
    <3> QED BY <2>2
  <2>4. PICK h \in [0..n -> Seq(U)] : \A i \in 1..n : h[i] = op[h[i - 1]][i]
    <3> HIDE DEF op
    <3>1. << >> \in Seq(U) /\ n \in Nat
      BY <2>2
    <3>2. \E g \in [0..n -> Seq(U)] : Steps(g, n, << >>, op)
      BY <2>3, <3>1, StepsExist, Zenon
    <3> QED BY <3>2, Zenon DEF Steps
  <2>5. \A i \in 1..n : h[i] = IF i = 1 THEN q[i] ELSE h[i - 1] \o q[i]
    <3> SUFFICES ASSUME NEW i \in 1..n PROVE h[i] = IF i = 1 THEN q[i] ELSE h[i - 1] \o q[i]
      OBVIOUS
    <3>1. h[i - 1] \in Seq(U)
      BY <2>2
    <3> QED BY <2>4, <3>1
  <2>6. \E g : Flattens(g, q)
    <3> DEFINE g == [i \in 1..n |-> h[i]]
    <3>1. \A i \in 1..n : i # 1 => i - 1 \in 1..n
      BY <2>2
    <3>2. \A i \in 1..n : g[i] = IF i = 1 THEN q[i] ELSE g[i - 1] \o q[i]
      BY <2>5, <3>1, Zenon
    <3>3. g = [i \in 1..n |-> IF i = 1 THEN q[i] ELSE g[i - 1] \o q[i]]
      BY <3>2
    <3> HIDE DEF g
    <3>4. Flattens(g, q)
      BY <2>1, <3>3 DEF Flattens
    <3> QED BY <3>4
  <2>7. PICK g : g = CHOOSE f : Flattens(f, q)
    OBVIOUS
  <2>8. Flattens(g, q)
    BY <2>6, <2>7, Zenon
  <2>9. \A i \in 1..n : g[i] = IF i = 1 THEN q[i] ELSE g[i - 1] \o q[i]
    BY <2>1, <2>8 DEF Flattens
  <2> DEFINE T == {k \in Nat : k \in 1..n /\ g[k] \notin Seq(U)}
  <2>10. ASSUME T # {} PROVE FALSE
    <3>1. T \in SUBSET Nat
      OBVIOUS
    <3>2. PICK k \in T : \A m \in T : k <= m
      <4> HIDE DEF T
      <4> QED BY <2>10, <3>1, LeastNatural
    <3>3. k # 1
      BY <2>2, <2>9
    <3>4. k - 1 \in 1..n /\ g[k - 1] \in Seq(U)
      <4>1. k \in 1..n /\ k - 1 \in 1..n /\ k - 1 \in Nat /\ k - 1 < k
        BY <2>2, <3>3
      <4>2. k - 1 \notin T
        BY <3>2, <4>1
      <4> QED BY <4>1, <4>2
    <3>5. g[k] = g[k - 1] \o q[k] /\ q[k] \in Seq(U)
      BY <2>2, <2>9, <3>3
    <3>6. g[k] \in Seq(U)
      BY <3>4, <3>5
    <3> QED BY <3>6
  <2>11. g[n] \in Seq(U)
    BY <2>2, <2>10
  <2> QED BY <1>2, <2>1, <2>7, <2>11, FlattenIsChosen
<1> QED BY <1>1, <1>2

LEMMA LinksInOrder ==
  ASSUME NEW m \in Contents
  PROVE  /\ ImageUrls(m) \in Seq(Urls)
         /\ UrlsOf(m) \in Seq(Urls)
         /\ Len(UrlsOf(m)) = Cardinality(m.links) + Len(ImageUrls(m))
<1>1. m \in Content /\ IsFiniteSet(m.links)
  BY ContentAssumption
<1>2. m.images \in Seq([codes : Seq(Urls), words : SUBSET Words]) /\ m.links \in SUBSET Urls
  BY <1>1 DEF Content
<1>3. PICK all : all = FlattenSeq([i \in DOMAIN m.images |-> m.images[i].codes])
  OBVIOUS
<1>4. all \in Seq(Urls)
  <2>1. [i \in DOMAIN m.images |-> m.images[i].codes] \in Seq(Seq(Urls))
    <3> DEFINE R == [codes : Seq(Urls), words : SUBSET Words]
    <3>1. \A i \in DOMAIN m.images : m.images[i].codes \in Seq(Urls)
      <4>1. \A r \in R : r.codes \in Seq(Urls)
        OBVIOUS
      <4>2. m.images \in Seq(R)
        BY <1>2
      <4> HIDE DEF R
      <4>3. \A i \in DOMAIN m.images : m.images[i] \in R
        BY <4>2
      <4> QED BY <4>1, <4>3
    <3>2. PICK n : n = Len(m.images)
      OBVIOUS
    <3>3. n \in Nat /\ DOMAIN m.images = 1..n
      BY <1>2, <3>2
    <3> QED BY <3>1, <3>3
  <2> QED BY <1>3, <2>1, Flattened
<1>5. ImageUrls(m) \in Seq(Urls)
  <2>1. ImageUrls(m) = IF Decoder THEN all ELSE SetToSeq(Range(all))
    BY <1>3 DEF ImageUrls
  <2>2. Range(all) \in SUBSET Urls
    BY <1>4 DEF Range
  <2>3. IsFiniteSet(Range(all))
    <3>1. all \in Surjection(1..Len(all), Range(all)) /\ Len(all) \in Nat
      BY <1>4 DEF Surjection, Range
    <3>2. IsFiniteSet(1..Len(all))
      BY <3>1, FS_Interval
    <3> QED BY <3>1, <3>2, FS_Surjection
  <2> QED BY <1>4, <2>1, <2>2, <2>3, SetAsSequence
<1>6. SetToSeq(m.links) \in Seq(Urls) /\ Len(SetToSeq(m.links)) = Cardinality(m.links)
  BY <1>1, <1>2, SetAsSequence
<1> QED BY <1>5, <1>6 DEF UrlsOf

-----------------------------------------------------------------------------
(* ContentChecks: the parser goes through a body from the left.            *)
ParseState == [stack : Seq(Styles), hidden : SUBSET Words, evades : BOOLEAN, failed : BOOLEAN]

LEMMA Kinds ==
  ASSUME NEW t \in Token
  PROVE  /\ t.kind \in {"open", "void", "close", "text"}
         /\ t.kind \in {"open", "void"} => t.style \in Styles
         /\ t.kind = "text" => t.words \in SUBSET Words
<1>1. CASE t \in [kind : {"open", "void"}, style : Styles]
  <2>1. t.kind \in {"open", "void"} /\ t.style \in Styles
    BY <1>1
  <2> QED BY <2>1
<1>2. CASE t = Close
  BY <1>2 DEF Close
<1>3. CASE t \in [kind : {"text"}, words : SUBSET Words]
  BY <1>3
<1> QED BY <1>1, <1>2, <1>3 DEF Token

LEMMA PopIsShorter ==
  ASSUME NEW S, NEW q \in Seq(S)
  PROVE  /\ Pop(q) \in Seq(S)
         /\ Len(Pop(q)) = IF Len(q) = 0 THEN 0 ELSE Len(q) - 1
         /\ \A x \in 1..Len(Pop(q)) : x \in 1..Len(q) /\ Pop(q)[x] = q[x]
BY DEF Pop, Front

IsTag(t) == t.kind \in {"open", "void"}

LEMMA ParsedTags ==
  ASSUME NEW p \in ParseState, NEW t, IsTag(t), t.style \in Styles
  PROVE  /\ Parsed(p, t) \in ParseState
         /\ Parsed(p, t).stack = Append(p.stack, t.style)
         /\ Parsed(p, t).hidden = p.hidden
         /\ Parsed(p, t).evades = p.evades
         /\ Parsed(p, t).failed <=> p.failed \/ t.style = "without value"
<1>1. Parsed(p, t) = [p EXCEPT !.stack = Append(p.stack, t.style),
                               !.failed = p.failed \/ t.style = "without value"]
  BY DEF Parsed, IsTag
<1>2. PICK q : q = Append(p.stack, t.style)
  OBVIOUS
<1>3. PICK e : e = (p.failed \/ t.style = "without value")
  OBVIOUS
<1>4. q \in Seq(Styles) /\ e \in BOOLEAN
  <2>1. p.stack \in Seq(Styles)
    BY DEF ParseState
  <2>2. q \in Seq(Styles)
    BY <1>2, <2>1
  <2>3. e \in BOOLEAN
    BY <1>3
  <2> QED BY <2>2, <2>3
<1>5. Parsed(p, t) = [p EXCEPT !.stack = q, !.failed = e]
  BY <1>1, <1>2, <1>3
<1>6. /\ [p EXCEPT !.stack = q, !.failed = e] \in ParseState
      /\ [p EXCEPT !.stack = q, !.failed = e].stack = q
      /\ [p EXCEPT !.stack = q, !.failed = e].hidden = p.hidden
      /\ [p EXCEPT !.stack = q, !.failed = e].evades = p.evades
      /\ [p EXCEPT !.stack = q, !.failed = e].failed = e
  BY <1>4 DEF ParseState
<1>7. e <=> p.failed \/ t.style = "without value"
  BY <1>3
<1> HIDE <1>1, <1>3
<1> QED BY <1>2, <1>5, <1>6, <1>7

LEMMA ParsedEndTags ==
  ASSUME NEW p \in ParseState, NEW t, t.kind = "close"
  PROVE  Parsed(p, t) = [ stack |-> Pop(p.stack), hidden |-> p.hidden,
                          evades |-> p.evades, failed |-> p.failed ]
BY DEF Parsed, ParseState

LEMMA ParsedTexts ==
  ASSUME NEW p \in ParseState, NEW t, t.kind = "text"
  PROVE  Parsed(p, t) = IF Range(p.stack) \cap Hiding # {}
                        THEN [ stack |-> p.stack, hidden |-> p.hidden \cup t.words,
                               evades |-> TRUE, failed |-> p.failed ]
                        ELSE p
<1>1. Parsed(p, t) = IF Range(p.stack) \cap Hiding # {}
                     THEN [p EXCEPT !.hidden = p.hidden \cup t.words, !.evades = TRUE]
                     ELSE p
  BY DEF Parsed
<1>2. ASSUME NEW w, NEW e
      PROVE  [p EXCEPT !.hidden = w, !.evades = e]
                  = [stack |-> p.stack, hidden |-> w, evades |-> e, failed |-> p.failed]
  <2> DEFINE R == [stack : {p.stack}, hidden : {w}, evades : {e}, failed : {p.failed}]
  <2>1. [p EXCEPT !.hidden = w, !.evades = e] \in R
    BY DEF ParseState
  <2>2. \A r \in R : r = [stack |-> p.stack, hidden |-> w, evades |-> e, failed |-> p.failed]
    OBVIOUS
  <2> QED BY <2>1, <2>2
<1> QED BY <1>1, <1>2, Zenon

LEMMA ParsedState ==
  ASSUME NEW p \in ParseState, NEW t \in Token
  PROVE  Parsed(p, t) \in ParseState
<1>1. p.stack \in Seq(Styles) /\ p.hidden \in SUBSET Words /\ p.evades \in BOOLEAN /\ p.failed \in BOOLEAN
  BY DEF ParseState
<1>2. CASE t.kind \in {"open", "void"}
  <2>1. t.style \in Styles
    BY <1>2, Kinds, Zenon
  <2>2. IsTag(t)
    BY <1>2 DEF IsTag
  <2> QED BY <2>1, <2>2, ParsedTags, Zenon
<1>3. CASE t.kind = "close"
  BY <1>1, <1>3, PopIsShorter, ParsedEndTags DEF ParseState
<1>4. CASE t.kind = "text"
  <2>1. p.hidden \cup t.words \in SUBSET Words
    BY <1>1, <1>4, Kinds
  <2>2. PICK w : w = p.hidden \cup t.words
    OBVIOUS
  <2>3. [stack |-> p.stack, hidden |-> w, evades |-> TRUE, failed |-> p.failed] \in ParseState
    BY <1>1, <2>1, <2>2 DEF ParseState
  <2> QED BY <1>4, <2>2, <2>3, ParsedTexts, Zenon
<1> QED BY <1>2, <1>3, <1>4, Kinds

ParseFold(h, html) ==
  h = [s \in SUBSET DOMAIN html |->
         IF s = {} THEN NothingParsed ELSE Parsed(h[s \ {Max(s)}], html[Max(s)])]

LEMMA ParseIsChosen ==
  ASSUME NEW html
  PROVE  Parse(html) = (CHOOSE h : ParseFold(h, html))[DOMAIN html]
BY Zenon DEF Parse, FoldLeft, MapThenFoldSet, ParseFold

ParseRun(P, html) ==
  /\ P \in [0..Len(html) -> ParseState]
  /\ P[0] = NothingParsed
  /\ \A k \in 1..Len(html) : P[k] = Parsed(P[k - 1], html[k])

LEMMA ParseRuns ==
  ASSUME NEW html \in Seq(Token)
  PROVE  \E P : ParseRun(P, html) /\ Parse(html) = P[Len(html)]
<1>1. PICK n : n = Len(html)
  OBVIOUS
<1>2. n \in Nat /\ DOMAIN html = 1..n /\ \A i \in 1..n : html[i] \in Token
  BY <1>1
<1>3. NothingParsed \in ParseState
  BY DEF NothingParsed, ParseState
<1> DEFINE op == [p \in ParseState |-> [i \in 1..n |-> Parsed(p, html[i])]]
           c == [s \in SUBSET (1..n) |-> Max(s)]
<1>4. op \in [ParseState -> [1..n -> ParseState]]
  <2>1. \A p \in ParseState : \A i \in 1..n : Parsed(p, html[i]) \in ParseState
    BY <1>2, ParsedState
  <2> QED BY <2>1
<1>5. ASSUME NEW s \in SUBSET (1..n), s # {}
      PROVE  Max(s) \in s /\ c[s] = Max(s)
  BY <1>2, <1>5, Greatest
<1>6. PICK h \in [SUBSET (1..n) -> ParseState] : Folds(h, 1..n, NothingParsed, op, c)
  <2>1. IsFiniteSet(1..n)
    BY <1>2, FS_Interval
  <2>2. \A s \in SUBSET (1..n) : s # {} => c[s] \in s
    BY <1>5
  <2> HIDE DEF c, op
  <2> QED BY <1>3, <1>4, <2>1, <2>2, FoldsExist, Zenon
<1>7. \A s \in SUBSET (1..n) : h[s] = IF s = {} THEN NothingParsed ELSE op[h[s \ {c[s]}]][c[s]]
  BY <1>6, Zenon DEF Folds
<1>8. ASSUME NEW s \in SUBSET (1..n), s # {} PROVE h[s] = Parsed(h[s \ {Max(s)}], html[Max(s)])
  <2>1. Max(s) \in 1..n /\ c[s] = Max(s) /\ s \ {Max(s)} \in SUBSET (1..n)
    BY <1>5, <1>8
  <2>2. h[s \ {Max(s)}] \in ParseState
    BY <2>1
  <2>3. h[s] = op[h[s \ {Max(s)}]][Max(s)]
    BY <1>7, <1>8, <2>1
  <2> QED BY <2>1, <2>2, <2>3
<1> HIDE DEF op, c
<1>9. h = [s \in SUBSET (1..n) |->
             IF s = {} THEN NothingParsed ELSE Parsed(h[s \ {Max(s)}], html[Max(s)])]
  <2>1. h = [s \in SUBSET (1..n) |-> h[s]]
    OBVIOUS
  <2>2. \A s \in SUBSET (1..n) :
        h[s] = IF s = {} THEN NothingParsed ELSE Parsed(h[s \ {Max(s)}], html[Max(s)])
    BY <1>7, <1>8, Zenon
  <2> QED BY <2>1, <2>2, Zenon
<1>10. ParseFold(h, html)
  BY <1>2, <1>9 DEF ParseFold
<1>11. PICK g : g = CHOOSE f : ParseFold(f, html)
  OBVIOUS
<1>12. ParseFold(g, html)
  BY <1>10, <1>11, Zenon
<1>13. \A s \in SUBSET (1..n) :
        g[s] = IF s = {} THEN NothingParsed ELSE Parsed(g[s \ {Max(s)}], html[Max(s)])
  BY <1>2, <1>12 DEF ParseFold
<1> DEFINE P == [k \in 0..n |-> g[1..k]]
<1>14. P[0] = NothingParsed
  <2>1. 1..0 = {} /\ 0 \in 0..n /\ {} \in SUBSET (1..n)
    BY <1>2
  <2> QED BY <1>13, <2>1
<1>15. ASSUME NEW k \in 1..n PROVE P[k] = Parsed(P[k - 1], html[k])
  <2>1. Max(1..k) = k /\ (1..k) \ {k} = 1..(k - 1) /\ 1..k # {} /\ 1..k \in SUBSET (1..n)
    BY <1>2, GreatestUpTo
  <2>2. k \in 0..n /\ k - 1 \in 0..n
    BY <1>2
  <2>3. g[1..k] = Parsed(g[1..(k - 1)], html[k])
    BY <1>13, <2>1
  <2> QED BY <2>2, <2>3
<1>16. P = [k \in 0..n |-> P[k]] /\ (n \in 0..n => P[n] = g[1..n])
  OBVIOUS
<1> HIDE DEF P
<1> DEFINE T == {k \in Nat : k <= n => P[k] \in ParseState}
<1>17. T = Nat
  <2>1. 0 \in T
    BY <1>3, <1>14
  <2>2. ASSUME NEW k \in T PROVE k + 1 \in T
    <3> SUFFICES ASSUME k + 1 <= n PROVE P[k + 1] \in ParseState
      OBVIOUS
    <3>1. k \in Nat /\ k <= n /\ k + 1 \in 1..n /\ (k + 1) - 1 = k
      BY <1>2
    <3>2. P[k] \in ParseState /\ html[k + 1] \in Token
      BY <1>2, <3>1
    <3>3. P[k + 1] = Parsed(P[k], html[k + 1])
      BY <1>15, <3>1
    <3> QED BY <3>2, <3>3, ParsedState
  <2>3. T \in SUBSET Nat
    OBVIOUS
  <2> HIDE DEF T
  <2> QED BY <2>1, <2>2, <2>3, UpFromZero
<1>18. P \in [0..n -> ParseState]
  <2>1. ASSUME NEW k \in 0..n PROVE P[k] \in ParseState
    <3>1. k \in Nat /\ k <= n
      BY <1>2
    <3>2. k \in T
      BY <1>17, <3>1, Zenon
    <3> QED BY <3>1, <3>2
  <2> HIDE DEF T
  <2>2. P = [k \in 0..n |-> P[k]]
    BY <1>16
  <2> QED BY <2>1, <2>2, Zenon
<1>19. ParseRun(P, html)
  BY <1>1, <1>14, <1>15, <1>18 DEF ParseRun
<1>20. Parse(html) = P[n]
  <2>1. Parse(html) = g[1..n]
    BY <1>2, <1>11, ParseIsChosen
  <2> QED BY <1>2, <1>16, <2>1
<1> QED BY <1>1, <1>19, <1>20

-----------------------------------------------------------------------------
(* ContentChecks: which elements a place in a body lies in.                *)
InElement(html, j, k) ==
  /\ html[j].kind = "open"
  /\ \A i \in (j + 1)..k : ClosedIn(html, j + 1, i) <= OpenedIn(html, j + 1, i)

OneMoreCounted(html, a, k) ==
  /\ OpenedIn(html, a, k) \in Nat /\ ClosedIn(html, a, k) \in Nat
  /\ OpenedIn(html, a, k + 1) = OpenedIn(html, a, k) + IF html[k + 1].kind = "open" THEN 1 ELSE 0
  /\ ClosedIn(html, a, k + 1) = ClosedIn(html, a, k) + IF html[k + 1].kind = "close" THEN 1 ELSE 0

LEMMA Counted ==
  ASSUME NEW html, NEW k \in Nat, NEW a \in Nat, a <= k + 1
  PROVE  OneMoreCounted(html, a, k)
<1>1. ASSUME NEW v
      PROVE  LET S == {q \in a..k : html[q].kind = v}
                 R == {q \in a..(k + 1) : html[q].kind = v}
             IN  /\ Cardinality(S) \in Nat
                 /\ Cardinality(R) = Cardinality(S) + IF html[k + 1].kind = v THEN 1 ELSE 0
  <2> DEFINE S == {q \in a..k : html[q].kind = v}
             R == {q \in a..(k + 1) : html[q].kind = v}
  <2>1. IsFiniteSet(S)
    <3>1. IsFiniteSet(a..k)
      BY FS_Interval
    <3> QED BY <3>1, FS_Subset
  <2>2. k + 1 \notin S
    OBVIOUS
  <2>3. R = IF html[k + 1].kind = v THEN S \cup {k + 1} ELSE S
    OBVIOUS
  <2> HIDE DEF S, R
  <2>4. Cardinality(S) \in Nat /\ Cardinality(S \cup {k + 1}) = Cardinality(S) + 1
    BY <2>1, <2>2, FS_AddElement, FS_CardinalityType
  <2>5. /\ Cardinality(S) \in Nat
        /\ Cardinality(R) = Cardinality(S) + IF html[k + 1].kind = v THEN 1 ELSE 0
    BY <2>3, <2>4
  <2> QED BY <2>5 DEF S, R
<1> QED BY <1>1 DEF OneMoreCounted, OpenedIn, ClosedIn

LEMMA NoneCounted ==
  ASSUME NEW html, NEW k \in Nat
  PROVE  OpenedIn(html, k + 1, k) = 0 /\ ClosedIn(html, k + 1, k) = 0
<1>1. \A v : {q \in (k + 1)..k : html[q].kind = v} = {}
  OBVIOUS
<1> QED BY <1>1, FS_EmptySet DEF OpenedIn, ClosedIn

LEMMA StillIn ==
  ASSUME NEW html, NEW k \in Nat, NEW j \in 1..k, InElement(html, j, k)
  PROVE  ClosedIn(html, j + 1, k) <= OpenedIn(html, j + 1, k)
<1>1. CASE j = k
  BY <1>1, NoneCounted
<1>2. CASE j # k
  <2>1. k \in (j + 1)..k
    BY <1>2
  <2> QED BY <2>1 DEF InElement
<1> QED BY <1>1, <1>2

LEMMA OneFurther ==
  ASSUME NEW html, NEW k \in Nat, NEW j \in 1..k
  PROVE  InElement(html, j, k + 1) <=>
           InElement(html, j, k) /\ ClosedIn(html, j + 1, k + 1) <= OpenedIn(html, j + 1, k + 1)
<1>1. (j + 1)..(k + 1) = ((j + 1)..k) \cup {k + 1}
  OBVIOUS
<1> QED BY <1>1 DEF InElement

LEMMA JustEntered ==
  ASSUME NEW html, NEW k \in Nat
  PROVE  InElement(html, k, k) <=> html[k].kind = "open"
<1>1. (k + 1)..k = {}
  OBVIOUS
<1> QED BY <1>1 DEF InElement

(* The stack is of the elements the place lies in; pos says where they     *)
(* begin.                                                                  *)
Stacked(html, k, q, pos) ==
  /\ pos \in Seq(1..k) /\ Len(pos) = Len(q)
  /\ \A x \in 1..Len(pos) :
       /\ InElement(html, pos[x], k)
       /\ q[x] = html[pos[x]].style
       /\ OpenedIn(html, pos[x] + 1, k) = ClosedIn(html, pos[x] + 1, k) + (Len(pos) - x)
  /\ \A j \in 1..k : InElement(html, j, k) => \E x \in 1..Len(pos) : pos[x] = j

LEMMA NothingStacked ==
  ASSUME NEW html
  PROVE  Stacked(html, 0, << >>, << >>)
<1>1. 1..0 = {} /\ << >> \in Seq(1..0) /\ Len(<< >>) = 0
  OBVIOUS
<1> QED BY <1>1 DEF Stacked

LEMMA TextStacks ==
  ASSUME NEW html, NEW k \in Nat, NEW S, NEW q \in Seq(S), NEW pos, Stacked(html, k, q, pos),
         html[k + 1].kind = "text"
  PROVE  Stacked(html, k + 1, q, pos)
<1>1. ASSUME NEW j \in 1..k
      PROVE  /\ OpenedIn(html, j + 1, k + 1) = OpenedIn(html, j + 1, k)
             /\ ClosedIn(html, j + 1, k + 1) = ClosedIn(html, j + 1, k)
             /\ InElement(html, j, k + 1) <=> InElement(html, j, k)
  <2>1. PICK a \in Nat : a = j + 1 /\ a <= k + 1
    OBVIOUS
  <2>2. /\ OpenedIn(html, j + 1, k) \in Nat /\ ClosedIn(html, j + 1, k) \in Nat
        /\ OpenedIn(html, j + 1, k + 1) = OpenedIn(html, j + 1, k)
        /\ ClosedIn(html, j + 1, k + 1) = ClosedIn(html, j + 1, k)
    <3>1. OneMoreCounted(html, a, k)
      BY <2>1, Counted, Zenon
    <3> QED BY <2>1, <3>1 DEF OneMoreCounted
  <2> QED BY <2>2, OneFurther, StillIn
<1>2. ~InElement(html, k + 1, k + 1)
  BY JustEntered
<1>3. pos \in Seq(1..k) /\ Len(pos) = Len(q) /\ \A x \in 1..Len(pos) : pos[x] \in 1..k
  BY DEF Stacked
<1>4. pos \in Seq(1..(k + 1))
  BY <1>3
<1>5. \A j \in 1..(k + 1) : j \in 1..k \/ j = k + 1
  OBVIOUS
<1>6. \A j \in 1..(k + 1) : InElement(html, j, k + 1) => \E x \in 1..Len(pos) : pos[x] = j
  BY <1>1, <1>2, <1>5 DEF Stacked
<1>7. ASSUME NEW x \in 1..Len(pos)
      PROVE  /\ InElement(html, pos[x], k + 1)
             /\ q[x] = html[pos[x]].style
             /\ OpenedIn(html, pos[x] + 1, k + 1) = ClosedIn(html, pos[x] + 1, k + 1) + (Len(pos) - x)
  BY <1>1, <1>3 DEF Stacked
<1> QED BY <1>3, <1>4, <1>6, <1>7 DEF Stacked

LEMMA TagStacks ==
  ASSUME NEW html, NEW k \in Nat, NEW S, NEW q \in Seq(S), NEW pos, Stacked(html, k, q, pos),
         html[k + 1].kind = "open"
  PROVE  Stacked(html, k + 1, Append(q, html[k + 1].style), Append(pos, k + 1))
<1> DEFINE r == Append(q, html[k + 1].style)
           w == Append(pos, k + 1)
           n == Len(pos)
<1>1. pos \in Seq(1..k) /\ n \in Nat /\ n = Len(q) /\ \A x \in 1..n : pos[x] \in 1..k
  BY DEF Stacked
<1>2. /\ w \in Seq(1..(k + 1)) /\ Len(w) = n + 1 /\ Len(r) = n + 1
      /\ w[n + 1] = k + 1 /\ r[n + 1] = html[k + 1].style
      /\ \A x \in 1..n : w[x] = pos[x] /\ r[x] = q[x]
  <2>1. pos \in Seq(1..(k + 1))
    BY <1>1
  <2> QED BY <1>1, <2>1
<1>3. ASSUME NEW j \in 1..k
      PROVE  /\ OpenedIn(html, j + 1, k + 1) = OpenedIn(html, j + 1, k) + 1
             /\ ClosedIn(html, j + 1, k + 1) = ClosedIn(html, j + 1, k)
             /\ OpenedIn(html, j + 1, k) \in Nat /\ ClosedIn(html, j + 1, k) \in Nat
             /\ InElement(html, j, k + 1) <=> InElement(html, j, k)
  <2>1. PICK a \in Nat : a = j + 1 /\ a <= k + 1
    OBVIOUS
  <2>2. /\ OpenedIn(html, j + 1, k) \in Nat /\ ClosedIn(html, j + 1, k) \in Nat
        /\ OpenedIn(html, j + 1, k + 1) = OpenedIn(html, j + 1, k) + 1
        /\ ClosedIn(html, j + 1, k + 1) = ClosedIn(html, j + 1, k)
    <3>1. OneMoreCounted(html, a, k)
      BY <2>1, Counted, Zenon
    <3> QED BY <2>1, <3>1 DEF OneMoreCounted
  <2> QED BY <2>2, OneFurther, StillIn
<1>4. InElement(html, k + 1, k + 1)
  BY JustEntered
<1>5. OpenedIn(html, (k + 1) + 1, k + 1) = 0 /\ ClosedIn(html, (k + 1) + 1, k + 1) = 0
  <2>1. PICK l \in Nat : l = k + 1
    OBVIOUS
  <2>2. OpenedIn(html, l + 1, l) = 0 /\ ClosedIn(html, l + 1, l) = 0
    BY NoneCounted
  <2> QED BY <2>1, <2>2
<1> HIDE DEF r, w, n
<1>6. ASSUME NEW x \in 1..(n + 1)
      PROVE  /\ InElement(html, w[x], k + 1)
             /\ r[x] = html[w[x]].style
             /\ OpenedIn(html, w[x] + 1, k + 1) = ClosedIn(html, w[x] + 1, k + 1) + ((n + 1) - x)
  <2>1. CASE x = n + 1
    BY <1>1, <1>2, <1>4, <1>5, <2>1
  <2>2. CASE x # n + 1
    <3>1. x \in 1..n
      BY <1>1, <2>2
    <3>2. PICK j \in 1..k : j = pos[x]
      BY <1>1, <3>1
    <3>3. /\ InElement(html, j, k) /\ q[x] = html[j].style
          /\ OpenedIn(html, j + 1, k) = ClosedIn(html, j + 1, k) + (n - x)
      BY <3>1, <3>2 DEF Stacked, n
    <3>4. w[x] = j /\ r[x] = q[x]
      BY <1>2, <3>1, <3>2
    <3> QED BY <1>1, <1>3, <3>1, <3>3, <3>4
  <2> QED BY <2>1, <2>2
<1>7. ASSUME NEW j \in 1..(k + 1), InElement(html, j, k + 1)
      PROVE  \E x \in 1..(n + 1) : w[x] = j
  <2>1. CASE j = k + 1
    BY <1>1, <1>2, <2>1
  <2>2. CASE j # k + 1
    <3>1. j \in 1..k
      BY <2>2
    <3>2. PICK x \in 1..n : pos[x] = j
      BY <1>3, <1>7, <3>1 DEF Stacked, n
    <3> QED BY <1>1, <1>2, <3>2
  <2> QED BY <2>1, <2>2
<1>8. Stacked(html, k + 1, r, w)
  BY <1>2, <1>6, <1>7 DEF Stacked
<1> QED BY <1>8 DEF r, w

LEMMA EndTagStacks ==
  ASSUME NEW html, NEW k \in Nat, NEW S, NEW q \in Seq(S), NEW pos, Stacked(html, k, q, pos),
         html[k + 1].kind = "close"
  PROVE  Stacked(html, k + 1, Pop(q), Pop(pos))
<1> DEFINE r == Pop(q)
           w == Pop(pos)
           n == Len(pos)
           o == Len(w)
<1>1. pos \in Seq(1..k) /\ n \in Nat /\ n = Len(q) /\ \A x \in 1..n : pos[x] \in 1..k
  BY DEF Stacked
<1>2. /\ w \in Seq(1..k) /\ o \in Nat /\ o = Len(r) /\ o = IF n = 0 THEN 0 ELSE n - 1
      /\ \A x \in 1..o : x \in 1..n /\ w[x] = pos[x] /\ r[x] = q[x]
  <2>1. /\ r \in Seq(S) /\ Len(r) = IF Len(q) = 0 THEN 0 ELSE Len(q) - 1
        /\ \A x \in 1..Len(r) : r[x] = q[x]
    BY PopIsShorter, Zenon
  <2>2. /\ w \in Seq(1..k) /\ o = IF n = 0 THEN 0 ELSE n - 1
        /\ \A x \in 1..o : x \in 1..n /\ w[x] = pos[x]
    BY <1>1, PopIsShorter, Zenon
  <2> HIDE DEF r, w, n, o
  <2>3. o \in Nat /\ o = Len(r)
    BY <1>1, <2>1, <2>2
  <2> QED BY <2>1, <2>2, <2>3
<1>3. ASSUME NEW j \in 1..k
      PROVE  /\ OpenedIn(html, j + 1, k + 1) = OpenedIn(html, j + 1, k)
             /\ ClosedIn(html, j + 1, k + 1) = ClosedIn(html, j + 1, k) + 1
             /\ OpenedIn(html, j + 1, k) \in Nat /\ ClosedIn(html, j + 1, k) \in Nat
             /\ InElement(html, j, k + 1)
                  <=> InElement(html, j, k) /\ ClosedIn(html, j + 1, k) + 1 <= OpenedIn(html, j + 1, k)
  <2>1. PICK a \in Nat : a = j + 1 /\ a <= k + 1
    OBVIOUS
  <2>2. /\ OpenedIn(html, j + 1, k) \in Nat /\ ClosedIn(html, j + 1, k) \in Nat
        /\ OpenedIn(html, j + 1, k + 1) = OpenedIn(html, j + 1, k)
        /\ ClosedIn(html, j + 1, k + 1) = ClosedIn(html, j + 1, k) + 1
    <3>1. OneMoreCounted(html, a, k)
      BY <2>1, Counted, Zenon
    <3> QED BY <2>1, <3>1 DEF OneMoreCounted
  <2> QED BY <2>2, OneFurther
<1>4. ~InElement(html, k + 1, k + 1)
  BY JustEntered
<1>5. w \in Seq(1..(k + 1))
  BY <1>2
<1> HIDE DEF r, w, n, o
<1>6. ASSUME NEW x \in 1..o
      PROVE  /\ InElement(html, w[x], k + 1)
             /\ r[x] = html[w[x]].style
             /\ OpenedIn(html, w[x] + 1, k + 1) = ClosedIn(html, w[x] + 1, k + 1) + (o - x)
  <2>1. x \in 1..n /\ x < n /\ o = n - 1
    BY <1>1, <1>2
  <2>2. PICK j \in 1..k : j = pos[x]
    BY <1>1, <2>1
  <2>3. /\ InElement(html, j, k) /\ q[x] = html[j].style
        /\ OpenedIn(html, j + 1, k) = ClosedIn(html, j + 1, k) + (n - x)
    BY <2>1, <2>2 DEF Stacked, n
  <2>4. w[x] = j /\ r[x] = q[x]
    BY <1>2, <2>2
  <2>5. PICK u \in Nat, v \in Nat : u = OpenedIn(html, j + 1, k) /\ v = ClosedIn(html, j + 1, k)
    BY <1>3
  <2>6. u = v + (n - x) /\ n \in Nat /\ x \in Nat
    BY <1>1, <2>1, <2>3, <2>5
  <2>7. v + 1 <= u /\ u = (v + 1) + (o - x)
    BY <2>1, <2>6
  <2>8. /\ OpenedIn(html, j + 1, k + 1) = u /\ ClosedIn(html, j + 1, k + 1) = v + 1
        /\ InElement(html, j, k + 1)
    BY <1>3, <2>3, <2>5, <2>7
  <2> QED BY <2>3, <2>4, <2>7, <2>8
<1>7. ASSUME NEW j \in 1..(k + 1), InElement(html, j, k + 1)
      PROVE  \E x \in 1..o : w[x] = j
  <2>1. j \in 1..k
    BY <1>4, <1>7
  <2>2. InElement(html, j, k) /\ ClosedIn(html, j + 1, k) + 1 <= OpenedIn(html, j + 1, k)
    BY <1>3, <1>7, <2>1
  <2>3. PICK x \in 1..n : pos[x] = j
    BY <2>1, <2>2 DEF Stacked, n
  <2>4. OpenedIn(html, j + 1, k) = ClosedIn(html, j + 1, k) + (n - x)
    BY <2>3 DEF Stacked, n
  <2>5. x # n
    BY <1>1, <1>3, <2>1, <2>2, <2>4
  <2>6. x \in 1..o
    BY <1>1, <1>2, <2>3, <2>5
  <2> QED BY <1>2, <2>3, <2>6
<1>8. Stacked(html, k + 1, r, w)
  BY <1>2, <1>5, <1>6, <1>7 DEF Stacked, o
<1> QED BY <1>8 DEF r, w

-----------------------------------------------------------------------------
(* What the parser has found in the first k tokens is what lies in hiding  *)
(* elements.                                                               *)
FoundIn(html, k, p) ==
  /\ ~p.failed
  /\ \E pos : Stacked(html, k, p.stack, pos)
  /\ p.evades <=> \E i \in Covered(html) : i <= k
  /\ \A w : w \in p.hidden <=> \E i \in Covered(html) : i <= k /\ w \in html[i].words

LEMMA HiddenOnStack ==
  ASSUME NEW html \in Seq(Token), NEW k \in Nat, k + 1 \in DOMAIN html,
         NEW q \in Seq(Styles), NEW pos, Stacked(html, k, q, pos), html[k + 1].kind = "text"
  PROVE  Range(q) \cap Hiding # {} <=> k + 1 \in Covered(html)
<1>1. pos \in Seq(1..k) /\ Len(pos) \in Nat /\ Len(pos) = Len(q) /\ \A x \in 1..Len(pos) : pos[x] \in 1..k
  BY DEF Stacked
<1>2. DOMAIN q = 1..Len(pos)
  BY <1>1
<1>3. Stacked(html, k + 1, q, pos)
  BY TextStacks
<1>4. (k + 1) - 1 = k
  OBVIOUS
<1>5. k + 1 \in Covered(html) <=> \E j \in 1..k : InElement(html, j, k + 1) /\ html[j].style \in Hiding
  BY <1>4 DEF Covered, InElement
<1>6. ASSUME NEW s \in Hiding, s \in Range(q)
      PROVE  \E j \in 1..k : InElement(html, j, k + 1) /\ html[j].style \in Hiding
  <2>1. PICK x \in 1..Len(pos) : q[x] = s
    BY <1>2, <1>6 DEF Range
  <2>2. pos[x] \in 1..k /\ InElement(html, pos[x], k + 1) /\ html[pos[x]].style = s
    BY <1>1, <1>3, <2>1 DEF Stacked
  <2> QED BY <1>6, <2>2
<1>7. ASSUME NEW j \in 1..k, InElement(html, j, k + 1), html[j].style \in Hiding
      PROVE  Range(q) \cap Hiding # {}
  <2>1. j \in 1..(k + 1)
    OBVIOUS
  <2>2. PICK x \in 1..Len(pos) : pos[x] = j
    BY <1>3, <1>7, <2>1 DEF Stacked
  <2>3. q[x] = html[j].style
    BY <1>3, <2>2 DEF Stacked
  <2>4. q[x] \in Range(q)
    BY <1>2, <2>2 DEF Range
  <2> QED BY <1>7, <2>3, <2>4
<1> QED BY <1>5, <1>6, <1>7

LEMMA OneTokenOn ==
  ASSUME NEW html \in Seq(Token), Tidy(html), NEW k \in Nat, k + 1 \in DOMAIN html,
         NEW p \in ParseState, FoundIn(html, k, p)
  PROVE  FoundIn(html, k + 1, Parsed(p, html[k + 1]))
<1> DEFINE t == html[k + 1]
<1>1. t \in Token /\ t.kind # "void" /\ (t.kind = "open" => t.style # "without value")
  <2>1. t \in Token
    OBVIOUS
  <2>2. PICK i \in DOMAIN html : i = k + 1
    OBVIOUS
  <2>3. html[i].kind # "void" /\ (html[i].kind = "open" => html[i].style # "without value")
    BY Zenon DEF Tidy
  <2> QED BY <2>1, <2>2, <2>3
<1>2. p.stack \in Seq(Styles)
  BY DEF ParseState
<1>3. PICK pos : Stacked(html, k, p.stack, pos)
  BY DEF FoundIn
<1>4. \A i \in Covered(html) : html[i].kind = "text" /\ i \in Nat /\ (i <= k + 1 <=> i <= k \/ i = k + 1)
  BY DEF Covered
<1>5. CASE t.kind = "open"
  <2>1. IsTag(t) /\ t.style \in Styles
    BY <1>1, <1>5, Kinds DEF IsTag
  <2> HIDE DEF t
  <2>2. PICK r : r = Parsed(p, t)
    OBVIOUS
  <2>3. /\ r.stack = Append(p.stack, t.style) /\ r.hidden = p.hidden /\ r.evades = p.evades
        /\ r.failed <=> p.failed \/ t.style = "without value"
    BY <2>1, <2>2, ParsedTags, Zenon
  <2>4. Stacked(html, k + 1, r.stack, Append(pos, k + 1))
    BY <1>2, <1>3, <1>5, <2>3, TagStacks DEF t
  <2>5. \A i \in Covered(html) : i <= k + 1 <=> i <= k
    BY <1>4, <1>5 DEF t
  <2>6. ~r.failed
    BY <1>1, <1>5, <2>3 DEF FoundIn
  <2>7. r.evades <=> \E i \in Covered(html) : i <= k + 1
    BY <2>3, <2>5 DEF FoundIn
  <2>8. \A w : w \in r.hidden <=> \E i \in Covered(html) : i <= k + 1 /\ w \in html[i].words
    BY <2>3, <2>5 DEF FoundIn
  <2>9. FoundIn(html, k + 1, r)
    BY <2>4, <2>6, <2>7, <2>8 DEF FoundIn
  <2> QED BY <2>2, <2>9 DEF t
<1>6. CASE t.kind = "close"
  <2> HIDE DEF t
  <2>1. PICK r : r = Parsed(p, t)
    OBVIOUS
  <2>2. r = [stack |-> Pop(p.stack), hidden |-> p.hidden, evades |-> p.evades, failed |-> p.failed]
    BY <1>6, <2>1, ParsedEndTags, Zenon
  <2>3. r.stack = Pop(p.stack) /\ r.hidden = p.hidden /\ r.evades = p.evades /\ r.failed = p.failed
    BY <2>2
  <2>4. Stacked(html, k + 1, r.stack, Pop(pos))
    BY <1>2, <1>3, <1>6, <2>3, EndTagStacks DEF t
  <2>5. \A i \in Covered(html) : i <= k + 1 <=> i <= k
    BY <1>4, <1>6 DEF t
  <2>6. ~r.failed
    BY <2>3 DEF FoundIn
  <2>7. r.evades <=> \E i \in Covered(html) : i <= k + 1
    BY <2>3, <2>5 DEF FoundIn
  <2>8. \A w : w \in r.hidden <=> \E i \in Covered(html) : i <= k + 1 /\ w \in html[i].words
    BY <2>3, <2>5 DEF FoundIn
  <2>9. FoundIn(html, k + 1, r)
    BY <2>4, <2>6, <2>7, <2>8 DEF FoundIn
  <2> QED BY <2>1, <2>9 DEF t
<1>7. CASE t.kind = "text"
  <2> HIDE DEF t
  <2>1. PICK r : r = Parsed(p, t)
    OBVIOUS
  <2>2. Range(p.stack) \cap Hiding # {} <=> k + 1 \in Covered(html)
    BY <1>2, <1>3, <1>7, HiddenOnStack DEF t
  <2>3. r = IF k + 1 \in Covered(html)
            THEN [ stack |-> p.stack, hidden |-> p.hidden \cup t.words,
                   evades |-> TRUE, failed |-> p.failed ]
            ELSE p
    BY <1>7, <2>1, <2>2, ParsedTexts, Zenon
  <2>4. /\ r.stack = p.stack /\ r.failed = p.failed
        /\ k + 1 \in Covered(html) => r.hidden = p.hidden \cup t.words /\ r.evades
        /\ k + 1 \notin Covered(html) => r.hidden = p.hidden /\ r.evades = p.evades
    <3>1. CASE k + 1 \in Covered(html)
      <4>1. PICK u : u = p.hidden \cup t.words
        OBVIOUS
      <4>2. r = [stack |-> p.stack, hidden |-> u, evades |-> TRUE, failed |-> p.failed]
        BY <2>3, <3>1, <4>1
      <4>3. r.stack = p.stack /\ r.failed = p.failed /\ r.hidden = u /\ r.evades
        BY <4>2
      <4> QED BY <3>1, <4>1, <4>3
    <3>2. CASE k + 1 \notin Covered(html)
      BY <2>3, <3>2, Zenon
    <3> QED BY <3>1, <3>2
  <2>5. Stacked(html, k + 1, r.stack, pos)
    BY <1>2, <1>3, <1>7, <2>4, TextStacks DEF t
  <2>6. ~r.failed
    BY <2>4 DEF FoundIn
  <2>7. r.evades <=> \E i \in Covered(html) : i <= k + 1
    BY <1>4, <2>4 DEF FoundIn
  <2>8. ASSUME NEW w PROVE w \in r.hidden <=> \E i \in Covered(html) : i <= k + 1 /\ w \in html[i].words
    <3>1. w \in p.hidden <=> \E i \in Covered(html) : i <= k /\ w \in html[i].words
      BY DEF FoundIn
    <3>2. CASE k + 1 \in Covered(html)
      BY <1>4, <2>4, <3>1, <3>2 DEF t
    <3>3. CASE k + 1 \notin Covered(html)
      BY <1>4, <2>4, <3>1, <3>3
    <3> QED BY <3>2, <3>3
  <2>9. FoundIn(html, k + 1, r)
    BY <2>5, <2>6, <2>7, <2>8 DEF FoundIn
  <2> QED BY <2>1, <2>9 DEF t
<1>8. t.kind \in {"open", "void", "close", "text"}
  BY <1>1, Kinds
<1> QED BY <1>1, <1>5, <1>6, <1>7, <1>8

(* In a tidy body the parser finds the texts that lie in hiding elements,  *)
(* those texts only.                                                       *)
LEMMA HiddenTextIsFound ==
  ASSUME NEW html \in Seq(Token), Tidy(html)
  PROVE  /\ Evades(html) <=> Covered(html) # {}
         /\ Evades(html) => HiddenWords(html) = UNION {html[i].words : i \in Covered(html)}
<1>1. PICK P : ParseRun(P, html) /\ Parse(html) = P[Len(html)]
  BY ParseRuns
<1>2. PICK n : n = Len(html)
  OBVIOUS
<1>3. n \in Nat /\ DOMAIN html = 1..n
  BY <1>2
<1>4. /\ P \in [0..n -> ParseState] /\ P[0] = NothingParsed
      /\ \A k \in 1..n : P[k] = Parsed(P[k - 1], html[k])
  BY <1>1, <1>2 DEF ParseRun
<1>5. \A i \in Covered(html) : i \in 1..n
  BY <1>3 DEF Covered
<1> DEFINE T == {k \in Nat : k <= n => FoundIn(html, k, P[k])}
<1>6. T = Nat
  <2>1. 0 \in T
    <3>1. P[0].stack = << >> /\ P[0].hidden = {} /\ ~P[0].evades /\ ~P[0].failed
      BY <1>4 DEF NothingParsed
    <3>2. Stacked(html, 0, P[0].stack, << >>)
      BY <3>1, NothingStacked
    <3>3. \A i \in Covered(html) : ~(i <= 0)
      BY <1>5
    <3> QED BY <3>1, <3>2, <3>3 DEF FoundIn
  <2>2. ASSUME NEW k \in T PROVE k + 1 \in T
    <3> SUFFICES ASSUME k + 1 <= n PROVE FoundIn(html, k + 1, P[k + 1])
      OBVIOUS
    <3>1. k \in Nat /\ k <= n /\ k + 1 \in 1..n /\ (k + 1) - 1 = k /\ k \in 0..n
      BY <1>3
    <3>2. P[k] \in ParseState /\ FoundIn(html, k, P[k]) /\ P[k + 1] = Parsed(P[k], html[k + 1])
      BY <1>4, <3>1
    <3> QED BY <1>3, <3>1, <3>2, OneTokenOn
  <2>3. T \in SUBSET Nat
    OBVIOUS
  <2> HIDE DEF T
  <2> QED BY <2>1, <2>2, <2>3, UpFromZero
<1>7. FoundIn(html, n, P[n])
  BY <1>3, <1>6
<1>8. Parse(html) = P[n]
  BY <1>1, <1>2
<1>9. Evades(html) <=> P[n].evades
  BY <1>7, <1>8 DEF Evades, FoundIn
<1>10. P[n].evades <=> Covered(html) # {}
  BY <1>3, <1>5, <1>7 DEF FoundIn
<1>11. P[n].hidden = UNION {html[i].words : i \in Covered(html)}
  <2>1. \A w : w \in P[n].hidden <=> \E i \in Covered(html) : w \in html[i].words
    BY <1>3, <1>5, <1>7 DEF FoundIn
  <2> QED BY <2>1
<1> QED BY <1>8, <1>9, <1>10, <1>11 DEF HiddenWords

-----------------------------------------------------------------------------
(* ContentChecks: points are never taken back.                             *)
LEMMA WordsOfABody ==
  ASSUME NEW html \in Seq(Token)
  PROVE  HtmlWords(html) \in SUBSET Words /\ HiddenWords(html) \in SUBSET Words
<1>1. \A i \in DOMAIN html : html[i].kind = "text" => html[i].words \in SUBSET Words
  <2>1. \A i \in DOMAIN html : html[i] \in Token
    OBVIOUS
  <2> QED BY <2>1, Kinds
<1>2. HtmlWords(html) \in SUBSET Words
  BY <1>1 DEF HtmlWords
<1>3. PICK P : ParseRun(P, html) /\ Parse(html) = P[Len(html)]
  BY ParseRuns
<1>4. Parse(html) \in ParseState
  BY <1>3 DEF ParseRun
<1>5. HiddenWords(html) \in SUBSET Words
  BY <1>4 DEF HiddenWords, ParseState
<1> QED BY <1>2, <1>5

LEMMA WordsOfAMessage ==
  ASSUME NEW m \in Contents
  PROVE  /\ m.html \in Seq(Token) /\ PlainWords(m) \in SUBSET Words /\ ImageWords(m) \in SUBSET Words
         /\ HiddenWords(m.html) \in SUBSET Words
<1>1. m \in Content
  BY ContentAssumption
<1>2. /\ m.html \in Seq(Token) /\ m.text \in SUBSET Words
      /\ m.images \in Seq([codes : Seq(Urls), words : SUBSET Words])
  BY <1>1 DEF Content
<1>3. ImageWords(m) \in SUBSET Words
  <2> DEFINE R == [codes : Seq(Urls), words : SUBSET Words]
  <2>1. \A r \in R : r.words \in SUBSET Words
    OBVIOUS
  <2>2. m.images \in Seq(R)
    BY <1>2
  <2> HIDE DEF R
  <2>3. \A i \in DOMAIN m.images : m.images[i] \in R
    BY <2>2
  <2>4. \A i \in DOMAIN m.images : m.images[i].words \in SUBSET Words
    BY <2>1, <2>3
  <2> QED BY <2>4 DEF ImageWords
<1> QED BY <1>2, <1>3, WordsOfABody DEF PlainWords

LEMMA WhatIsLeft ==
  ASSUME NEW words \in SUBSET Words, NEW signs
  PROVE  Stripped(words, signs) \in SUBSET Words /\ Raw(words, signs) \in SUBSET Words
BY DEF Stripped, Raw

LEMMA HtmlPointsCounted ==
  ASSUME NEW m \in Contents
  PROVE  HtmlPoints(m) \in Nat
<1>1. PICK n : n = KeywordPoints(Stripped(HiddenWords(m.html), m.signs))
  OBVIOUS
<1>2. n \in Nat
  BY <1>1, WordsOfAMessage, WhatIsLeft, KeywordPointsCounted
<1> QED BY <1>1, <1>2 DEF HtmlPoints, WithBonus

LEMMA ImagePointsCounted ==
  ASSUME NEW m \in Contents
  PROVE  ImagePoints(m) \in Nat
<1>1. PICK n : n = KeywordPoints(ImageWords(m))
  OBVIOUS
<1>2. n \in Nat
  BY <1>1, WordsOfAMessage, KeywordPointsCounted
<1>3. PICK a \in Nat : a = IF ImageUrls(m) # << >> THEN 30 ELSE 0
  OBVIOUS
<1> QED BY <1>1, <1>2, <1>3 DEF ImagePoints, WithBonus

LEMMA OtherPointsCounted ==
  ASSUME NEW m
  PROVE  SenderPoints(m) \in Nat /\ SignPoints(m) \in Nat /\ RelationPoints(m) \in Nat
<1>1. SenderPoints(m) \in Nat
  <2>1. PICK a \in Nat : a = IF m.from.name \in VIPs THEN 40 ELSE 0
    OBVIOUS
  <2>2. PICK b \in Nat : b = IF m.replyTo \notin {"", m.from.domain} THEN 25 ELSE 0
    OBVIOUS
  <2>3. SenderPoints(m) = a + b
    BY <2>1, <2>2, Zenon DEF SenderPoints
  <2> QED BY <2>3
<1>2. SignPoints(m) \in Nat
  <2>1. PICK a \in Nat :
          a = CASE m.files -> 45 [] m.signs \cap {"embedding", "isolate"} # {} -> 20 [] OTHER -> 0
    OBVIOUS
  <2>2. PICK b \in Nat : b = IF m.signs \cap {"zero-width", "embedding"} # {} THEN 15 ELSE 0
    OBVIOUS
  <2> QED BY <2>1, <2>2 DEF SignPoints
<1>3. RelationPoints(m) \in Nat
  BY DEF RelationPoints
<1> QED BY <1>1, <1>2, <1>3

LEMMA LinkPointsCounted ==
  ASSUME NEW m, NEW u, NEW fromImage, NEW young, NEW verdict
  PROVE  /\ LinkPoints(m, u, fromImage, young, verdict) \in Nat
         /\ verdict = "malicious" => LinkPoints(m, u, fromImage, young, verdict) >= 100
         /\ verdict = "suspicious" => LinkPoints(m, u, fromImage, young, verdict) >= 40
<1>1. PICK a \in Nat : a = IF Link[u].ip /\ ~fromImage THEN 15 ELSE 0
  OBVIOUS
<1>2. PICK b \in Nat : b = IF Site[Link[u].domain].idn THEN 35 ELSE 0
  OBVIOUS
<1>3. PICK c \in Nat : c = IF Typosquats(Link[u].domain) THEN 20 ELSE 0
  OBVIOUS
<1>4. PICK d \in Nat : d = IF Impersonates(m, u) THEN 30 ELSE 0
  OBVIOUS
<1>5. PICK e \in Nat : e = IF young THEN 15 ELSE 0
  OBVIOUS
<1>6. PICK f \in Nat : f = CASE verdict = "malicious" -> 100 [] verdict = "suspicious" -> 40 [] OTHER -> 0
  OBVIOUS
<1>7. LinkPoints(m, u, fromImage, young, verdict) = a + b + c + d + e + f
  BY <1>1, <1>2, <1>3, <1>4, <1>5, <1>6 DEF LinkPoints
<1>8. a + b + c + d + e + f \in Nat /\ a + b + c + d + e + f >= f
  OBVIOUS
<1> QED BY <1>6, <1>7, <1>8

LEMMA ClassifierPointsCounted ==
  ASSUME NEW words, NEW links, NEW first
  PROVE  ClassifierPoints(words, links, first) \in Nat
BY DEF ClassifierPoints

-----------------------------------------------------------------------------
(* ContentChecks: what an analysis has added up.                           *)
LinkVerdicts == {"malicious", "suspicious", "clean", "unknown"}

Said(verdicts, v) == Cardinality({i \in DOMAIN verdicts : verdicts[i] = v})

Analysis ==
  [ stage : {"links", "done"}, m : Contents, left : Seq(Urls), verdicts : Seq(LinkVerdicts),
    first : BOOLEAN, evades : BOOLEAN, points : Nat ]

OwedBy(w) == HtmlPoints(w.m) + 100 * Said(w.verdicts, "malicious") + 40 * Said(w.verdicts, "suspicious")

InOrder(w) ==
  /\ w \in Analysis
  /\ w.evades <=> Evades(w.m.html)
  /\ w.stage = "done" => w.left = << >>
  /\ Len(w.verdicts) + Len(w.left) = Cardinality(w.m.links) + Len(ImageUrls(w.m))
  /\ w.points >= OwedBy(w)

WorkInv ==
  /\ DOMAIN work = Slots
  /\ \A s \in Slots : work[s] = Idle \/ InOrder(work[s])

LEMMA SaidOnceMore ==
  ASSUME NEW q \in Seq(LinkVerdicts), NEW x \in LinkVerdicts, NEW v
  PROVE  Said(q, v) \in Nat /\ Said(Append(q, x), v) = Said(q, v) + IF x = v THEN 1 ELSE 0
<1> DEFINE S == {i \in DOMAIN q : q[i] = v}
           r == Append(q, x)
           n == Len(q)
           R == {i \in DOMAIN r : r[i] = v}
<1>1. n \in Nat /\ DOMAIN q = 1..n /\ DOMAIN r = 1..(n + 1) /\ r[n + 1] = x /\ \A i \in 1..n : r[i] = q[i]
  OBVIOUS
<1>2. IsFiniteSet(S)
  <2>1. IsFiniteSet(1..n)
    BY <1>1, FS_Interval
  <2> QED BY <1>1, <2>1, FS_Subset
<1>3. n + 1 \notin S
  BY <1>1
<1> HIDE DEF r, n
<1>4. R = IF x = v THEN S \cup {n + 1} ELSE S
  <2>1. 1..(n + 1) = (1..n) \cup {n + 1}
    BY <1>1
  <2> QED BY <1>1, <2>1
<1> HIDE DEF S, R
<1>5. Cardinality(S) \in Nat /\ Cardinality(S \cup {n + 1}) = Cardinality(S) + 1
  BY <1>2, <1>3, FS_AddElement, FS_CardinalityType
<1>6. Cardinality(S) \in Nat /\ Cardinality(R) = Cardinality(S) + IF x = v THEN 1 ELSE 0
  BY <1>4, <1>5
<1> QED BY <1>6 DEF Said, S, R, r

LEMMA NothingSaid ==
  ASSUME NEW v
  PROVE  Said(<< >>, v) = 0
<1>1. {i \in DOMAIN << >> : << >>[i] = v} = {}
  OBVIOUS
<1> QED BY <1>1, FS_EmptySet DEF Said

LEMMA AnalysisBegins ==
  ASSUME NEW m \in Contents, NEW first \in BOOLEAN, NEW evades \in BOOLEAN, evades <=> Evades(m.html),
         NEW score \in Nat, score >= HtmlPoints(m)
  PROVE  InOrder([ stage |-> "links", m |-> m, left |-> UrlsOf(m), verdicts |-> << >>,
                   first |-> first, evades |-> evades, points |-> score ])
<1>1. PICK q : q = UrlsOf(m)
  OBVIOUS
<1>2. q \in Seq(Urls) /\ Len(q) = Cardinality(m.links) + Len(ImageUrls(m))
  BY <1>1, LinksInOrder
<1>3. Len(q) \in Nat
  BY <1>2
<1> DEFINE w == [ stage |-> "links", m |-> m, left |-> q, verdicts |-> << >>,
                  first |-> first, evades |-> evades, points |-> score ]
<1>4. w \in Analysis
  BY <1>2 DEF Analysis
<1>5. /\ w.stage = "links" /\ w.m = m /\ w.left = q /\ w.verdicts = << >>
      /\ w.evades = evades /\ w.points = score
  OBVIOUS
<1> HIDE DEF w
<1>6. OwedBy(w) = HtmlPoints(m)
  <2>1. PICK h \in Nat : h = HtmlPoints(m)
    BY HtmlPointsCounted
  <2> QED BY <1>5, <2>1, NothingSaid DEF OwedBy
<1>7. Len(w.verdicts) = 0
  BY <1>5
<1>8. InOrder(w)
  BY <1>2, <1>3, <1>4, <1>5, <1>6, <1>7 DEF InOrder
<1> QED BY <1>1, <1>8 DEF w

LEMMA AnalyzeKeepsWork ==
  ASSUME WorkInv, NEW s \in Slots, NEW m \in Contents, Analyze(s, m)
  PROVE  WorkInv'
<1>1. PICK a \in Nat : a = KeywordPoints(Stripped(PlainWords(m), m.signs))
  BY WordsOfAMessage, WhatIsLeft, KeywordPointsCounted
<1>2. PICK b \in Nat : b = DictionaryPoints(Raw(PlainWords(m), m.signs))
  BY WordsOfAMessage, WhatIsLeft, DictionaryPointsCounted
<1>3. PICK c \in Nat : c = SenderPoints(m)
  BY OtherPointsCounted
<1>4. PICK d \in Nat : d = SignPoints(m)
  BY OtherPointsCounted
<1>5. PICK e \in Nat : e = HtmlPoints(m)
  BY HtmlPointsCounted
<1>6. PICK f \in Nat : f = ImagePoints(m)
  BY ImagePointsCounted
<1>7. PICK g \in Nat : g = RelationPoints(m)
  BY OtherPointsCounted
<1>8. PICK p \in Nat : p = a + b + c + d + e + f + g
  OBVIOUS
<1>9. p >= HtmlPoints(m)
  BY <1>5, <1>8
<1>10. PICK first \in BOOLEAN : first = MeetsFirst(m)
  BY DEF MeetsFirst
<1>11. PICK evades \in BOOLEAN : evades = Evades(m.html)
  BY DEF Evades
<1>12. PICK w : w = [ stage |-> "links", m |-> m, left |-> UrlsOf(m), verdicts |-> << >>,
                      first |-> first, evades |-> evades, points |-> p ]
  OBVIOUS
<1>13. work' = [work EXCEPT ![s] = w]
  BY <1>1, <1>2, <1>3, <1>4, <1>5, <1>6, <1>7, <1>8, <1>10, <1>11, <1>12 DEF Analyze
<1>14. InOrder(w)
  BY <1>9, <1>11, <1>12, AnalysisBegins
<1>15. DOMAIN work' = Slots /\ \A t \in Slots : work'[t] = IF t = s THEN w ELSE work[t]
  BY <1>13 DEF WorkInv
<1> QED BY <1>14, <1>15 DEF WorkInv, InOrder

LEMMA SaidCounted ==
  ASSUME NEW q \in Seq(LinkVerdicts), NEW v
  PROVE  Said(q, v) \in Nat
<1>1. PICK x \in LinkVerdicts : x = "clean"
  BY DEF LinkVerdicts
<1> QED BY SaidOnceMore

LEMMA AnotherLink ==
  ASSUME NEW w, InOrder(w), w.left # << >>, NEW v \in LinkVerdicts, NEW p \in Nat,
         v = "malicious" => p >= 100, v = "suspicious" => p >= 40,
         NEW u, u = [w EXCEPT !.left = Tail(w.left), !.verdicts = Append(w.verdicts, v),
                              !.points = w.points + p]
  PROVE  InOrder(u)
<1>1. w \in Analysis
  BY DEF InOrder
<1>2. w.left \in Seq(Urls) /\ w.verdicts \in Seq(LinkVerdicts) /\ w.points \in Nat /\ w.m \in Contents
  BY <1>1 DEF Analysis
<1> PICK q : q = Tail(w.left)
  OBVIOUS
<1>3. q \in Seq(Urls) /\ q = Tail(w.left) /\ Len(q) = Len(w.left) - 1
  <2>1. w.left \in Seq(Urls) /\ w.left # << >>
    BY <1>2
  <2> QED BY <2>1
<1> PICK r : r = Append(w.verdicts, v)
  OBVIOUS
<1>4. r \in Seq(LinkVerdicts) /\ r = Append(w.verdicts, v) /\ Len(r) = Len(w.verdicts) + 1
  BY <1>2
<1>5. PICK n \in Nat : n = w.points + p
  BY <1>2
<1>6. u = [w EXCEPT !.left = q, !.verdicts = r, !.points = n]
  BY <1>3, <1>4, <1>5
<1>7. /\ u \in Analysis /\ u.left = q /\ u.verdicts = r /\ u.points = n
      /\ u.m = w.m /\ u.evades = w.evades /\ u.stage = w.stage
  <2>1. q \in Seq(Urls) /\ r \in Seq(LinkVerdicts) /\ n \in Nat
    BY <1>3, <1>4
  <2> QED BY <1>1, <1>6, <2>1 DEF Analysis
<1>8. PICK x \in Nat : x = Said(w.verdicts, "malicious")
  BY <1>2, SaidCounted
<1>9. PICK y \in Nat : y = Said(w.verdicts, "suspicious")
  BY <1>2, SaidCounted
<1>10. PICK h \in Nat : h = HtmlPoints(w.m)
  BY <1>2, HtmlPointsCounted
<1>11. Said(r, "malicious") = x + IF v = "malicious" THEN 1 ELSE 0
  BY <1>2, <1>4, <1>8, SaidOnceMore
<1>12. Said(r, "suspicious") = y + IF v = "suspicious" THEN 1 ELSE 0
  BY <1>2, <1>4, <1>9, SaidOnceMore
<1>13. u.points >= OwedBy(u)
  <2>1. OwedBy(w) = h + 100 * x + 40 * y /\ w.points >= OwedBy(w)
    BY <1>8, <1>9, <1>10 DEF OwedBy, InOrder
  <2>5. OwedBy(u) = h + 100 * Said(r, "malicious") + 40 * Said(r, "suspicious")
    <3>1. u.m = w.m /\ u.verdicts = r
      BY <1>7
    <3> QED BY <1>10, <3>1, Zenon DEF OwedBy
  <2>2. CASE v = "malicious"
    <3>1. OwedBy(u) = h + 100 * (x + 1) + 40 * y
      BY <1>11, <1>12, <2>5, <2>2
    <3>2. p >= 100
      BY <2>2
    <3>3. w.points \in Nat /\ u.points = w.points + p
      BY <1>2, <1>5, <1>7
    <3> QED BY <2>1, <3>1, <3>2, <3>3
  <2>3. CASE v = "suspicious"
    <3>1. OwedBy(u) = h + 100 * x + 40 * (y + 1)
      BY <1>11, <1>12, <2>5, <2>3
    <3> QED BY <1>2, <1>5, <1>7, <2>1, <2>3, <3>1
  <2>4. CASE v # "malicious" /\ v # "suspicious"
    <3>1. OwedBy(u) = h + 100 * x + 40 * y
      BY <1>11, <1>12, <2>5, <2>4
    <3> QED BY <1>2, <1>5, <1>7, <2>1, <3>1
  <2> QED BY <2>2, <2>3, <2>4
<1>14. Len(u.verdicts) + Len(u.left) = Cardinality(u.m.links) + Len(ImageUrls(u.m))
  <2>1. Len(w.verdicts) \in Nat /\ Len(w.left) \in Nat
    BY <1>2
  <2>2. Len(u.verdicts) + Len(u.left) = Len(w.verdicts) + Len(w.left)
    <3>1. u.left = q /\ u.verdicts = r
      BY <1>7
    <3>2. PICK a \in Nat, b \in Nat : a = Len(w.verdicts) /\ b = Len(w.left)
      BY <2>1
    <3>3. Len(u.left) = b - 1 /\ Len(u.verdicts) = a + 1
      BY <1>3, <1>4, <3>1, <3>2
    <3>4. (a + 1) + (b - 1) = a + b
      OBVIOUS
    <3> QED BY <3>2, <3>3, <3>4
  <2> QED BY <1>7, <2>2 DEF InOrder
<1> QED BY <1>7, <1>13, <1>14 DEF InOrder

LEMMA LastPoints ==
  ASSUME NEW w, InOrder(w), w.left = << >>, NEW p \in Nat,
         NEW u, u = [w EXCEPT !.stage = "done", !.points = w.points + p]
  PROVE  InOrder(u)
<1>1. w \in Analysis
  BY DEF InOrder
<1>2. w.points \in Nat /\ w.m \in Contents /\ w.verdicts \in Seq(LinkVerdicts)
  BY <1>1 DEF Analysis
<1>3. PICK n \in Nat : n = w.points + p
  BY <1>2
<1>4. u = [w EXCEPT !.stage = "done", !.points = n]
  BY <1>3
<1>5. /\ u \in Analysis /\ u.left = w.left /\ u.verdicts = w.verdicts /\ u.points = n
      /\ u.m = w.m /\ u.evades = w.evades
  BY <1>1, <1>4 DEF Analysis
<1>6. PICK o \in Nat : o = OwedBy(w)
  <2>1. Said(w.verdicts, "malicious") \in Nat /\ Said(w.verdicts, "suspicious") \in Nat
    BY <1>2, SaidCounted
  <2>2. HtmlPoints(w.m) \in Nat
    BY <1>2, HtmlPointsCounted
  <2> QED BY <2>1, <2>2 DEF OwedBy
<1>7. OwedBy(u) = o
  BY <1>5, <1>6 DEF OwedBy
<1>8. w.points >= o
  BY <1>6 DEF InOrder
<1>9. u.points >= OwedBy(u)
  BY <1>2, <1>3, <1>5, <1>7, <1>8
<1> QED BY <1>5, <1>9 DEF InOrder

LEMMA LinkAnsweredKeepsWork ==
  ASSUME WorkInv, NEW s \in Slots, LinkAnswered(s)
  PROVE  WorkInv'
<1>1. PICK young \in BOOLEAN, v \in LinkVerdicts :
        work' = [work EXCEPT
          ![s].left = Tail(@),
          ![s].verdicts = Append(@, v),
          ![s].points = @ + LinkPoints(work[s].m, Head(work[s].left),
                              Len(work[s].left) <= Len(ImageUrls(work[s].m)), young, v)]
  BY Zenon DEF LinkAnswered, LinkVerdicts
<1>2. work[s].stage = "links" /\ work[s].left # << >>
  BY DEF LinkAnswered
<1>3. PICK p : p = LinkPoints(work[s].m, Head(work[s].left),
                      Len(work[s].left) <= Len(ImageUrls(work[s].m)), young, v)
  OBVIOUS
<1>4. p \in Nat /\ (v = "malicious" => p >= 100) /\ (v = "suspicious" => p >= 40)
  BY <1>3, LinkPointsCounted
<1>5. PICK u : u = [work[s] EXCEPT !.left = Tail(work[s].left),
                                   !.verdicts = Append(work[s].verdicts, v),
                                   !.points = work[s].points + p]
  OBVIOUS
<1>6. DOMAIN work' = Slots /\ \A t \in Slots : work'[t] = IF t = s THEN u ELSE work[t]
  BY <1>1, <1>3, <1>5 DEF WorkInv
<1>7. InOrder(work[s])
  BY <1>2 DEF WorkInv, Idle
<1>8. InOrder(u)
  BY <1>2, <1>4, <1>5, <1>7, AnotherLink
<1> QED BY <1>6, <1>8 DEF WorkInv, InOrder

LEMMA FinishKeepsWork ==
  ASSUME WorkInv, NEW s \in Slots, Finish(s)
  PROVE  WorkInv'
<1>1. work[s].stage = "links" /\ work[s].left = << >>
  BY DEF Finish
<1>2. PICK p : p = ClassifierPoints(Raw(PlainWords(work[s].m), work[s].m.signs),
                                    Len(UrlsOf(work[s].m)), work[s].first)
  OBVIOUS
<1>3. p \in Nat
  BY <1>2, ClassifierPointsCounted
<1>4. PICK u : u = [work[s] EXCEPT !.stage = "done", !.points = work[s].points + p]
  OBVIOUS
<1>5. DOMAIN work' = Slots /\ \A t \in Slots : work'[t] = IF t = s THEN u ELSE work[t]
  BY <1>2, <1>4 DEF WorkInv, Finish
<1>6. InOrder(work[s])
  BY <1>1 DEF WorkInv, Idle
<1>7. InOrder(u)
  BY <1>1, <1>3, <1>4, <1>6, LastPoints
<1> QED BY <1>5, <1>7 DEF WorkInv, InOrder

LEMMA WorkIsPaid ==
  ASSUME WorkInv
  PROVE  HiddenTextIsCharged /\ NoLinkEscapes
<1>1. ASSUME NEW s \in Slots, work[s].stage = "done"
      PROVE  InOrder(work[s]) /\ work[s].left = << >>
  <2>1. work[s] # Idle
    BY <1>1 DEF Idle
  <2>2. InOrder(work[s])
    BY <2>1 DEF WorkInv
  <2> QED BY <1>1, <2>2 DEF InOrder
<1>2. ASSUME NEW w, InOrder(w)
      PROVE  /\ w.m \in Contents /\ w.verdicts \in Seq(LinkVerdicts) /\ w.points \in Nat
             /\ HtmlPoints(w.m) \in Nat
             /\ Said(w.verdicts, "malicious") \in Nat /\ Said(w.verdicts, "suspicious") \in Nat
             /\ w.points >= HtmlPoints(w.m)
             /\ w.points >= 100 * Said(w.verdicts, "malicious") + 40 * Said(w.verdicts, "suspicious")
  <2>1. w \in Analysis /\ w.points >= OwedBy(w)
    BY <1>2 DEF InOrder
  <2>2. w.m \in Contents /\ w.verdicts \in Seq(LinkVerdicts) /\ w.points \in Nat
    BY <2>1 DEF Analysis
  <2>3. HtmlPoints(w.m) \in Nat /\ Said(w.verdicts, "malicious") \in Nat /\ Said(w.verdicts, "suspicious") \in Nat
    BY <2>2, HtmlPointsCounted, SaidCounted
  <2> QED BY <2>1, <2>2, <2>3 DEF OwedBy
<1>3. NoLinkEscapes
  <2> SUFFICES ASSUME NEW s \in Slots, work[s].stage = "done"
               PROVE  /\ Len(work[s].verdicts) = Cardinality(work[s].m.links) + Len(ImageUrls(work[s].m))
                      /\ work[s].points >= 100 * Said(work[s].verdicts, "malicious")
                                            + 40 * Said(work[s].verdicts, "suspicious")
    BY DEF NoLinkEscapes, Said
  <2>1. InOrder(work[s]) /\ work[s].left = << >>
    BY <1>1
  <2>2. Len(work[s].verdicts) \in Nat
    BY <1>2, <2>1
  <2>3. Len(work[s].left) = 0
    BY <2>1
  <2>4. Len(work[s].verdicts) = Cardinality(work[s].m.links) + Len(ImageUrls(work[s].m))
    BY <2>1, <2>2, <2>3 DEF InOrder
  <2> QED BY <1>2, <2>1, <2>4
<1>4. HiddenTextIsCharged
  <2> SUFFICES ASSUME NEW s \in Slots, work[s].stage = "done", Tidy(work[s].m.html)
               PROVE  LET m == work[s].m
                          words == UNION {m.html[i].words : i \in Covered(m.html)}
                      IN /\ work[s].evades <=> Covered(m.html) # {}
                         /\ work[s].evades =>
                              work[s].points >= 25 + WithBonus(KeywordPoints(Stripped(words, m.signs)), 15)
    BY Zenon DEF HiddenTextIsCharged
  <2>1. PICK w : w = work[s]
    OBVIOUS
  <2>2. InOrder(w)
    BY <1>1, <2>1
  <2>3. PICK m \in Contents : m = w.m
    BY <1>2, <2>2
  <2>4. w.points \in Nat /\ HtmlPoints(m) \in Nat /\ w.points >= HtmlPoints(m)
    BY <1>2, <2>2, <2>3
  <2>5. m.html \in Seq(Token) /\ Tidy(m.html)
    BY <2>1, <2>3, WordsOfAMessage
  <2>6. PICK words : words = UNION {m.html[i].words : i \in Covered(m.html)}
    OBVIOUS
  <2>7. w.evades <=> Evades(m.html)
    BY <2>2, <2>3 DEF InOrder
  <2>8. /\ Evades(m.html) <=> Covered(m.html) # {}
        /\ Evades(m.html) => HiddenWords(m.html) = words
    BY <2>5, <2>6, HiddenTextIsFound
  <2>9. Evades(m.html) => HtmlPoints(m) = 25 + WithBonus(KeywordPoints(Stripped(words, m.signs)), 15)
    BY <2>8 DEF HtmlPoints
  <2>10. /\ w.evades <=> Covered(m.html) # {}
         /\ w.evades => w.points >= 25 + WithBonus(KeywordPoints(Stripped(words, m.signs)), 15)
    BY <2>4, <2>7, <2>8, <2>9
  <2> QED BY <2>1, <2>3, <2>6, <2>10
<1> QED BY <1>3, <1>4

-----------------------------------------------------------------------------
(* ContentChecks: who has met whom.                                        *)

PairsInv ==
  /\ pairs \in [Pairs -> Nat] /\ met \in [Pairs -> Nat]
  /\ PairsMeetOnce

LEMMA AnalyzeKeepsPairs ==
  ASSUME PairsInv, NEW s \in Slots, NEW m \in Contents, Analyze(s, m)
  PROVE  PairsInv'
<1>1. Pair(m) \in Pairs
  BY DEF Pair, Pairs
<1>2. /\ met' = IF MeetsFirst(m) THEN [met EXCEPT ![Pair(m)] = @ + 1] ELSE met
      /\ pairs' = IF m.to = "" THEN pairs ELSE [pairs EXCEPT ![Pair(m)] = @ + 1]
  BY DEF Analyze
<1> DEFINE p == Pair(m)
<1>3. p \in Pairs /\ pairs[p] \in Nat /\ met[p] \in Nat /\ pairs \in [Pairs -> Nat] /\ met \in [Pairs -> Nat]
      /\ met[p] = IF pairs[p] > 0 THEN 1 ELSE 0
  BY <1>1 DEF PairsInv, PairsMeetOnce
<1> HIDE DEF p
<1>4. MeetsFirst(m) <=> m.to # "" /\ pairs[p] = 0
  BY DEF MeetsFirst, p
<1>5. /\ met' = IF MeetsFirst(m) THEN [met EXCEPT ![p] = met[p] + 1] ELSE met
      /\ pairs' = IF m.to = "" THEN pairs ELSE [pairs EXCEPT ![p] = pairs[p] + 1]
  BY <1>2 DEF p
<1>6. CASE m.to = ""
  BY <1>4, <1>5, <1>6 DEF PairsInv, PairsMeetOnce
<1>7. CASE m.to # ""
  <2> DEFINE n == pairs[p] + 1
             o == IF pairs[p] = 0 THEN met[p] + 1 ELSE met[p]
  <2>1. n \in Nat /\ n > 0 /\ o = 1
    BY <1>3
  <2>2. pairs' = [pairs EXCEPT ![p] = n]
    BY <1>5, <1>7
  <2>3. met' = IF pairs[p] = 0 THEN [met EXCEPT ![p] = o] ELSE met
    BY <1>4, <1>5, <1>7
  <2> HIDE DEF n, o
  <2>4. met' = [met EXCEPT ![p] = 1]
    <3>1. CASE pairs[p] = 0
      BY <2>1, <2>3, <3>1
    <3>2. CASE pairs[p] # 0
      <4>1. met[p] = 1
        BY <1>3, <3>2
      <4> QED BY <1>3, <2>3, <3>2, <4>1
    <3> QED BY <3>1, <3>2
  <2>5. pairs' \in [Pairs -> Nat] /\ met' \in [Pairs -> Nat]
    BY <1>3, <2>1, <2>2, <2>4
  <2>6. ASSUME NEW q \in Pairs PROVE met'[q] = IF pairs'[q] > 0 THEN 1 ELSE 0
    <3>1. CASE q = p
      BY <1>3, <2>1, <2>2, <2>4, <3>1
    <3>2. CASE q # p
      <4>1. met'[q] = met[q] /\ pairs'[q] = pairs[q]
        BY <1>3, <2>2, <2>4, <3>2
      <4> QED BY <4>1 DEF PairsInv, PairsMeetOnce
    <3> QED BY <3>1, <3>2
  <2> QED BY <2>5, <2>6 DEF PairsInv, PairsMeetOnce
<1> QED BY <1>6, <1>7

(* content_analysis/relationship_graph.py: is_first_contact() and          *)
(* record(), called without waiting in between.  For any number of         *)
(* messages analysed at once, a pair is met for the first time once in the *)
(* life of the process.                                                    *)
THEOREM PairsMeetOnceHolds == ContentSpec => []PairsMeetOnce
<1>1. ContentInit => PairsInv
  BY DEF ContentInit, PairsInv, PairsMeetOnce
<1>2. PairsInv /\ [ContentNext]_contentvars => PairsInv'
  <2> SUFFICES ASSUME PairsInv, [ContentNext]_contentvars PROVE PairsInv'
    OBVIOUS
  <2>1. CASE Restart
    BY <2>1 DEF Restart, PairsInv, PairsMeetOnce
  <2>2. CASE \E s \in Slots : LinkAnswered(s) \/ Finish(s)
    BY <2>2 DEF LinkAnswered, Finish, PairsInv, PairsMeetOnce
  <2>3. CASE UNCHANGED contentvars
    BY <2>3 DEF contentvars, PairsInv, PairsMeetOnce
  <2> QED BY <2>1, <2>2, <2>3, AnalyzeKeepsPairs DEF ContentNext
<1>3. PairsInv => PairsMeetOnce
  BY DEF PairsInv
<1> QED BY <1>1, <1>2, <1>3, PTL DEF ContentSpec

(* content_analysis/pipeline.py, analyze_content: the links that are       *)
(* answered and those left are all there were, and the points are no fewer *)
(* than what has been found so far is worth.                               *)
THEOREM WorkIsInOrder == ContentSpec => []WorkInv
<1>1. ContentInit => WorkInv
  BY DEF ContentInit, WorkInv
<1>2. WorkInv /\ [ContentNext]_contentvars => WorkInv'
  <2> SUFFICES ASSUME WorkInv, [ContentNext]_contentvars PROVE WorkInv'
    OBVIOUS
  <2>1. CASE Restart
    BY <2>1 DEF Restart, WorkInv, InOrder
  <2>2. CASE UNCHANGED contentvars
    BY <2>2 DEF contentvars, WorkInv, InOrder
  <2> QED BY <2>1, <2>2, AnalyzeKeepsWork, LinkAnsweredKeepsWork, FinishKeepsWork DEF ContentNext
<1> QED BY <1>1, <1>2, PTL DEF ContentSpec

(* content_analysis/pipeline.py, html_evasion.py, relationship_graph.py:   *)
(* for every body, every text and every number of links and analyses, text *)
(* in a hiding element, at any depth of a tidy body, is found and charged, *)
(* every link has been looked up by the end and what was said is in the    *)
(* score, and a pair of correspondents meets for the first time once.      *)
THEOREM ContentIsAccountedHolds == ContentSpec => []ContentIsAccounted
<1>1. WorkInv /\ PairsMeetOnce => ContentIsAccounted
  BY WorkIsPaid DEF ContentIsAccounted
<1> QED BY <1>1, WorkIsInOrder, PairsMeetOnceHolds, PTL

-----------------------------------------------------------------------------
(* ContentChecks: the edit distance of content_analysis/urls.py.          *)

(* A number of the table from those above, to the left and above that.     *)
Cost(x, y) == IF x = y THEN 0 ELSE 1
Cheapest(up, left, diag, cost) == Least(Least(up + 1, left + 1), diag + cost)

LeastOf(c, up, left, e) ==
  /\ c \in Nat /\ c <= up + 1 /\ c <= left + 1 /\ c <= e
  /\ c = up + 1 \/ c = left + 1 \/ c = e

LEMMA CheapestCases ==
  ASSUME NEW up \in Nat, NEW left \in Nat, NEW diag \in Nat, NEW cost \in {0, 1}
  PROVE  LeastOf(Cheapest(up, left, diag, cost), up, left, diag + cost)
<1>1. PICK x \in Nat : x = up + 1
  OBVIOUS
<1>2. PICK y \in Nat : y = left + 1
  OBVIOUS
<1>3. PICK z \in Nat : z = diag + cost
  OBVIOUS
<1>4. PICK l \in Nat : l = Least(x, y) /\ l <= x /\ l <= y /\ (l = x \/ l = y)
  BY DEF Least
<1>5. PICK c \in Nat : c = Least(l, z) /\ c <= l /\ c <= z /\ (c = l \/ c = z)
  BY DEF Least
<1>6. c = Cheapest(up, left, diag, cost)
  BY <1>1, <1>2, <1>3, <1>4, <1>5, Zenon DEF Cheapest
<1>7. c <= x /\ c <= y /\ c <= z /\ (c = x \/ c = y \/ c = z)
  BY <1>4, <1>5
<1>8. LeastOf(c, up, left, z)
  BY <1>1, <1>2, <1>7 DEF LeastOf
<1> QED BY <1>3, <1>6, <1>8, Zenon

RowOf(cur, prev, x, b) ==
  cur = [j \in 0..Len(b) |->
          IF j = 0 THEN prev[0] + 1
          ELSE Least(Least(prev[j] + 1, cur[j - 1] + 1),
                     prev[j - 1] + IF x = b[j] THEN 0 ELSE 1)]

LEMMA RowComputed ==
  ASSUME NEW S, NEW b \in Seq(S), NEW prev \in [0..Len(b) -> Nat], NEW x
  PROVE  LET cur == NextRow(prev, x, b)
         IN  /\ cur \in [0..Len(b) -> Nat] /\ cur[0] = prev[0] + 1
             /\ \A j \in 1..Len(b) : cur[j] = Cheapest(prev[j], cur[j - 1], prev[j - 1], Cost(x, b[j]))
<1> PICK n \in Nat : n = Len(b)
  OBVIOUS
<1>1. \A j \in 1..n : j \in 0..n /\ j - 1 \in 0..n /\ prev[j] \in Nat /\ prev[j - 1] \in Nat
  OBVIOUS
<1> DEFINE op == [v \in Nat |-> [j \in 1..n |-> Cheapest(prev[j], v, prev[j - 1], Cost(x, b[j]))]]
<1>2. op \in [Nat -> [1..n -> Nat]]
  BY <1>1, CheapestCases DEF Cost, LeastOf
<1>3. PICK g \in [0..n -> Nat] : Steps(g, n, prev[0] + 1, op)
  <2>1. prev[0] + 1 \in Nat
    OBVIOUS
  <2> HIDE DEF op
  <2> QED BY <1>2, <2>1, StepsExist
<1>4. RowOf(g, prev, x, b)
  <2>1. g = [j \in 0..n |-> g[j]] /\ g[0] = prev[0] + 1
    BY <1>3 DEF Steps
  <2>2. \A j \in 0..n : j # 0 => g[j] = Least(Least(prev[j] + 1, g[j - 1] + 1),
                                              prev[j - 1] + IF x = b[j] THEN 0 ELSE 1)
    <3> SUFFICES ASSUME NEW j \in 1..n
                 PROVE  g[j] = Cheapest(prev[j], g[j - 1], prev[j - 1], Cost(x, b[j]))
      BY DEF Cheapest, Cost
    <3>1. g[j - 1] \in Nat /\ g[j] = op[g[j - 1]][j]
      BY <1>1, <1>3 DEF Steps
    <3> QED BY <3>1
  <2>3. g = [j \in 0..n |->
              IF j = 0 THEN prev[0] + 1
              ELSE Least(Least(prev[j] + 1, g[j - 1] + 1),
                         prev[j - 1] + IF x = b[j] THEN 0 ELSE 1)]
    BY <2>1, <2>2, Zenon
  <2> QED BY <2>3, Zenon DEF RowOf
<1> PICK cur : cur = NextRow(prev, x, b)
  OBVIOUS
<1>5. cur = CHOOSE f : RowOf(f, prev, x, b)
  BY Zenon DEF NextRow, RowOf
<1>6. RowOf(cur, prev, x, b)
  BY <1>4, <1>5, Zenon
<1>7. /\ cur = [j \in 0..n |-> cur[j]] /\ cur[0] = prev[0] + 1
      /\ \A j \in 1..n : cur[j] = Cheapest(prev[j], cur[j - 1], prev[j - 1], Cost(x, b[j]))
  BY <1>6 DEF RowOf, Cheapest, Cost
<1>8. \A j \in 0..n : cur[j] \in Nat
  <2> DEFINE P == {j \in 0..n : cur[j] \in Nat}
  <2>1. 0 \in P
    BY <1>7
  <2>2. ASSUME NEW j \in 1..n, j - 1 \in P PROVE j \in P
    <3>1. cur[j - 1] \in Nat
      BY <2>2
    <3>2. PICK u \in Nat, v \in Nat, w \in Nat : u = prev[j] /\ v = cur[j - 1] /\ w = prev[j - 1]
      BY <1>1, <3>1
    <3>3. Cheapest(u, v, w, Cost(x, b[j])) \in Nat
      BY CheapestCases DEF Cost, LeastOf
    <3>4. cur[j] = Cheapest(u, v, w, Cost(x, b[j]))
      BY <1>7, <3>2, Zenon
    <3>5. j \in 0..n
      OBVIOUS
    <3> QED BY <3>3, <3>4, <3>5
  <2> HIDE DEF P
  <2>3. \A j \in 0..n : j \in P
    BY <2>1, <2>2, UpTo
  <2> QED BY <2>3 DEF P
<1>9. cur \in [0..n -> Nat]
  BY <1>7, <1>8
<1> QED BY <1>7, <1>9

(* The table that the rows make up.                                        *)
Table(d, a, b) ==
  /\ d \in [0..Len(a) -> [0..Len(b) -> Nat]]
  /\ \A j \in 0..Len(b) : d[0][j] = j
  /\ \A i \in 1..Len(a) : d[i][0] = d[i - 1][0] + 1
  /\ \A i \in 1..Len(a), j \in 1..Len(b) :
       d[i][j] = Cheapest(d[i - 1][j], d[i][j - 1], d[i - 1][j - 1], Cost(a[i], b[j]))

RowsOf(d, a, b) ==
  d = [i \in 0..Len(a) |-> IF i = 0 THEN [j \in 0..Len(b) |-> j] ELSE NextRow(d[i - 1], a[i], b)]

LEMMA TableExists ==
  ASSUME NEW S, NEW a \in Seq(S), NEW b \in Seq(S)
  PROVE  \E d : Table(d, a, b) /\ Distance(a, b) = d[Len(a)][Len(b)]
<1> PICK m \in Nat : m = Len(a)
  OBVIOUS
<1> PICK R : R = [0..Len(b) -> Nat]
  OBVIOUS
<1> PICK first : first = [j \in 0..Len(b) |-> j]
  OBVIOUS
<1>1. first \in R
  OBVIOUS
<1> DEFINE op == [r \in R |-> [i \in 1..m |-> NextRow(r, a[i], b)]]
<1>2. op \in [R -> [1..m -> R]]
  BY RowComputed
<1>3. PICK g \in [0..m -> R] : Steps(g, m, first, op)
  <2> HIDE DEF op
  <2> QED BY <1>1, <1>2, StepsExist
<1>4. RowsOf(g, a, b)
  <2>1. g = [i \in 0..m |-> g[i]] /\ g[0] = first
    BY <1>3 DEF Steps
  <2>2. \A i \in 0..m : i # 0 => g[i] = NextRow(g[i - 1], a[i], b)
    <3> SUFFICES ASSUME NEW i \in 1..m PROVE g[i] = NextRow(g[i - 1], a[i], b)
      OBVIOUS
    <3>1. g[i - 1] \in R
      <4>1. i - 1 \in 0..m
        OBVIOUS
      <4> QED BY <1>3, <4>1
    <3>2. g[i] = op[g[i - 1]][i]
      <4> HIDE DEF op
      <4> QED BY <1>3 DEF Steps
    <3> QED BY <3>1, <3>2, Zenon
  <2>3. g = [i \in 0..m |-> IF i = 0 THEN first ELSE NextRow(g[i - 1], a[i], b)]
    BY <2>1, <2>2, Zenon
  <2> QED BY <2>3, Zenon DEF RowsOf
<1> PICK d : d = CHOOSE f : RowsOf(f, a, b)
  OBVIOUS
<1>5. RowsOf(d, a, b)
  BY <1>4, Zenon
<1>6. Distance(a, b) = d[Len(a)][Len(b)]
  BY Zenon DEF Distance, RowsOf
<1>7. /\ d = [i \in 0..m |-> d[i]] /\ d[0] = first
      /\ \A i \in 1..m : d[i] = NextRow(d[i - 1], a[i], b)
  <2>1. d = [i \in 0..m |-> IF i = 0 THEN first ELSE NextRow(d[i - 1], a[i], b)]
    BY <1>5, Zenon DEF RowsOf
  <2>2. 0 \in 0..m /\ \A i \in 1..m : i \in 0..m /\ i # 0
    OBVIOUS
  <2> QED BY <2>1, <2>2
<1>8. \A i \in 0..m : d[i] \in R
  <2> DEFINE P == {i \in 0..m : d[i] \in R}
  <2>1. 0 \in P
    <3>1. 0 \in 0..m
      OBVIOUS
    <3> QED BY <1>1, <1>7, <3>1, Zenon
  <2>2. ASSUME NEW i \in 1..m, i - 1 \in P PROVE i \in P
    <3>1. d[i - 1] \in [0..Len(b) -> Nat]
      BY <2>2
    <3>2. NextRow(d[i - 1], a[i], b) \in [0..Len(b) -> Nat]
      BY <3>1, RowComputed
    <3>3. i \in 0..m
      OBVIOUS
    <3> QED BY <1>7, <3>2, <3>3, Zenon
  <2> HIDE DEF P
  <2>3. \A i \in 0..m : i \in P
    BY <2>1, <2>2, UpTo
  <2> QED BY <2>3 DEF P
<1>9. ASSUME NEW i \in 1..m
      PROVE  /\ d[i][0] = d[i - 1][0] + 1
             /\ \A j \in 1..Len(b) :
                  d[i][j] = Cheapest(d[i - 1][j], d[i][j - 1], d[i - 1][j - 1], Cost(a[i], b[j]))
  <2>1. d[i - 1] \in [0..Len(b) -> Nat] /\ d[i] = NextRow(d[i - 1], a[i], b)
    <3>1. i - 1 \in 0..m
      OBVIOUS
    <3> QED BY <1>7, <1>8, <3>1, Zenon
  <2>2. PICK prev \in [0..Len(b) -> Nat] : prev = d[i - 1]
    BY <2>1
  <2>x. PICK x : x = a[i]
    OBVIOUS
  <2>3. PICK cur : cur = NextRow(prev, x, b)
    OBVIOUS
  <2>4. cur[0] = prev[0] + 1
        /\ \A j \in 1..Len(b) : cur[j] = Cheapest(prev[j], cur[j - 1], prev[j - 1], Cost(x, b[j]))
    <3> HIDE <2>1, <2>2
    <3> QED BY <2>3, RowComputed
  <2> QED BY <2>1, <2>2, <2>x, <2>3, <2>4
<1>10. d \in [0..m -> R]
  BY <1>7, <1>8
<1>11. Table(d, a, b)
  BY <1>7, <1>9, <1>10 DEF Table
<1> QED BY <1>6, <1>11

(* Two numbers that differ by one at the most.                             *)
OneApart(u, v) == u <= v + 1 /\ v <= u + 1

LEMMA CheapestOneApart ==
  ASSUME NEW u1 \in Nat, NEW l1 \in Nat, NEW g1 \in Nat, NEW c1 \in {0, 1},
         NEW u2 \in Nat, NEW l2 \in Nat, NEW g2 \in Nat, NEW c2 \in {0, 1},
         OneApart(u1, u2), OneApart(l1, l2), OneApart(g1 + c1, g2 + c2)
  PROVE  OneApart(Cheapest(u1, l1, g1, c1), Cheapest(u2, l2, g2, c2))
<1> PICK e1 \in Nat, e2 \in Nat : e1 = g1 + c1 /\ e2 = g2 + c2
  OBVIOUS
<1>1. PICK r1 : r1 = Cheapest(u1, l1, g1, c1)
  OBVIOUS
<1>2. PICK r2 : r2 = Cheapest(u2, l2, g2, c2)
  OBVIOUS
<1>3. LeastOf(r1, u1, l1, e1) /\ LeastOf(r2, u2, l2, e2)
  BY <1>1, <1>2, CheapestCases, Zenon
<1>4. OneApart(e1, e2)
  BY <1>1, <1>2, Zenon
<1>5. OneApart(r1, r2)
  BY <1>3, <1>4 DEF OneApart, LeastOf
<1> QED BY <1>1, <1>2, <1>5, Zenon

(* The numbers of a table, for one pair of indices at a time.              *)
LEMMA TableAt ==
  ASSUME NEW S, NEW a \in Seq(S), NEW b \in Seq(S), NEW d, Table(d, a, b)
  PROVE  /\ \A i \in 0..Len(a), j \in 0..Len(b) : d[i][j] \in Nat
         /\ \A i \in 1..Len(a), j \in 1..Len(b) :
              LET c == Cost(a[i], b[j])
              IN  /\ c \in {0, 1}
                  /\ d[i][j] = Cheapest(d[i - 1][j], d[i][j - 1], d[i - 1][j - 1], c)
                  /\ LeastOf(d[i][j], d[i - 1][j], d[i][j - 1], d[i - 1][j - 1] + c)
<1>1. \A i \in 0..Len(a), j \in 0..Len(b) : d[i][j] \in Nat
  BY DEF Table
<1>2. ASSUME NEW i \in 1..Len(a), NEW j \in 1..Len(b), NEW c, c = Cost(a[i], b[j])
      PROVE  /\ c \in {0, 1}
             /\ d[i][j] = Cheapest(d[i - 1][j], d[i][j - 1], d[i - 1][j - 1], c)
             /\ LeastOf(d[i][j], d[i - 1][j], d[i][j - 1], d[i - 1][j - 1] + c)
  <2>1. i \in 0..Len(a) /\ i - 1 \in 0..Len(a) /\ j \in 0..Len(b) /\ j - 1 \in 0..Len(b)
    OBVIOUS
  <2>2. PICK u \in Nat, l \in Nat, g \in Nat :
          u = d[i - 1][j] /\ l = d[i][j - 1] /\ g = d[i - 1][j - 1]
    BY <1>1, <2>1, Zenon
  <2>3. d[i][j] = Cheapest(u, l, g, c)
    BY <1>2, <2>2, Zenon DEF Table
  <2>4. c \in {0, 1}
    BY <1>2 DEF Cost
  <2> QED BY <2>2, <2>3, <2>4, CheapestCases, Zenon
<1> QED BY <1>1, <1>2, Zenon

(* Neighbours in a row differ by one at the most.                          *)
LEMMA NeighboursOneApart ==
  ASSUME NEW S, NEW a \in Seq(S), NEW b \in Seq(S), NEW d, Table(d, a, b)
  PROVE  \A i \in 0..Len(a), j \in 1..Len(b) : OneApart(d[i][j], d[i][j - 1])
<1> PICK m \in Nat, n \in Nat : m = Len(a) /\ n = Len(b)
  OBVIOUS
<1> DEFINE P == {i \in 0..m : \A j \in 1..n : OneApart(d[i][j], d[i][j - 1])}
<1>1. 0 \in P
  <2>1. \A j \in 1..n : j - 1 \in 0..n /\ j \in 0..n /\ OneApart(j, j - 1)
    BY DEF OneApart
  <2>2. \A j \in 0..n : d[0][j] = j
    BY DEF Table
  <2>3. 0 \in 0..m
    OBVIOUS
  <2> QED BY <2>1, <2>2, <2>3, Zenon
<1>2. ASSUME NEW i \in 1..m, i - 1 \in P PROVE i \in P
  <2> SUFFICES ASSUME NEW j \in 1..n PROVE OneApart(d[i][j], d[i][j - 1])
    OBVIOUS
  <2>1. i \in 0..m /\ i - 1 \in 0..m /\ j \in 0..n /\ j - 1 \in 0..n
    OBVIOUS
  <2>2. PICK c \in {0, 1} : c = Cost(a[i], b[j])
    BY DEF Cost
  <2>3. PICK r \in Nat, u \in Nat, l \in Nat, g \in Nat :
          r = d[i][j] /\ u = d[i - 1][j] /\ l = d[i][j - 1] /\ g = d[i - 1][j - 1]
    BY <2>1, TableAt, Zenon
  <2>4. OneApart(u, g)
    BY <1>2, <2>3
  <2>5. LeastOf(r, u, l, g + c)
    BY <2>2, <2>3, TableAt, Zenon
  <2>6. l <= g + 1
    <3>1. CASE j = 1
      <4>1. d[i][0] = d[i - 1][0] + 1
        BY DEF Table
      <4>2. j - 1 = 0
        BY <3>1
      <4>3. l = g + 1
        BY <2>3, <4>1, <4>2, Zenon
      <4> QED BY <4>3
    <3>2. CASE j # 1
      <4>1. PICK k \in 1..n : k = j - 1
        BY <3>2
      <4>2. d[i][k] <= d[i - 1][k] + 1
        <5>1. LeastOf(d[i][k], d[i - 1][k], d[i][k - 1], d[i - 1][k - 1] + Cost(a[i], b[k]))
          BY TableAt, Zenon
        <5> QED BY <5>1 DEF LeastOf
      <4> QED BY <2>3, <4>1, <4>2
    <3> QED BY <3>1, <3>2
  <2>7. OneApart(r, l)
    BY <2>4, <2>5, <2>6 DEF OneApart, LeastOf
  <2> QED BY <2>3, <2>7
<1> HIDE DEF P
<1>3. \A i \in 0..m : i \in P
  BY <1>1, <1>2, UpTo
<1> QED BY <1>3 DEF P

(* One edit of a word: a letter inserted, removed or replaced.             *)
Inserted(a, b) ==
  /\ Len(b) = Len(a) + 1
  /\ \E k \in 0..Len(a) : /\ \A j \in 1..k : b[j] = a[j]
                          /\ \A j \in (k + 1)..Len(a) : b[j + 1] = a[j]
Replaced(a, b) ==
  /\ Len(b) = Len(a)
  /\ \E k \in 1..Len(a) : \A j \in 1..Len(a) : j # k => b[j] = a[j]
Edited(a, b) == Inserted(a, b) \/ Inserted(b, a) \/ Replaced(a, b)

LEMMA InsertedMovesByOne ==
  ASSUME NEW S, NEW x \in Seq(S), NEW a \in Seq(S), NEW b \in Seq(S), NEW d, NEW e,
         Table(d, x, a), Table(e, x, b), Inserted(a, b)
  PROVE  OneApart(e[Len(x)][Len(b)], d[Len(x)][Len(a)])
<1> PICK m \in Nat, n \in Nat : m = Len(x) /\ n = Len(a)
  OBVIOUS
<1>1. n + 1 = Len(b)
  BY DEF Inserted
<1> PICK k \in 0..n : /\ \A j \in 1..k : b[j] = a[j]
                      /\ \A j \in (k + 1)..n : b[j + 1] = a[j]
  BY DEF Inserted
<1> DEFINE Near(i, j) == (j <= k => e[i][j] = d[i][j]) /\ (j >= k => OneApart(e[i][j + 1], d[i][j]))
<1> DEFINE P == {i \in 0..m : \A j \in 0..n : Near(i, j)}
<1>2. 0 \in P
  <2>1. ASSUME NEW j \in 0..n PROVE Near(0, j)
    <3>1. j \in 0..(n + 1) /\ j + 1 \in 0..(n + 1) /\ OneApart(j + 1, j)
      BY DEF OneApart
    <3>2. d[0][j] = j /\ e[0][j] = j /\ e[0][j + 1] = j + 1
      BY <1>1, <3>1 DEF Table
    <3> QED BY <3>1, <3>2, Zenon
  <2>2. 0 \in 0..m
    OBVIOUS
  <2> QED BY <2>1, <2>2
<1>3. ASSUME NEW i \in 1..m, i - 1 \in P PROVE i \in P
  <2> DEFINE Q == {j \in 0..n : Near(i, j)}
  <2>1. \A j \in 0..n : Near(i - 1, j)
    BY <1>3
  <2>2. i \in 0..m /\ i - 1 \in 0..m
    OBVIOUS
  <2>3. \A j \in 1..(n + 1) : OneApart(e[i][j], e[i][j - 1])
    BY <1>1, <2>2, NeighboursOneApart
  <2>4. 0 \in Q
    <3>1. e[i][0] = d[i][0]
      <4>1. e[i][0] = e[i - 1][0] + 1 /\ d[i][0] = d[i - 1][0] + 1
        BY DEF Table
      <4>2. e[i - 1][0] = d[i - 1][0]
        <5>1. 0 \in 0..n /\ 0 <= k
          OBVIOUS
        <5> QED BY <2>1, <5>1
      <4> QED BY <4>1, <4>2
    <3>2. OneApart(e[i][1], e[i][0])
      <4>1. 1 \in 1..(n + 1) /\ 1 - 1 = 0
        OBVIOUS
      <4> QED BY <2>3, <4>1
    <3>3. 0 \in 0..n /\ 0 + 1 = 1
      OBVIOUS
    <3> QED BY <3>1, <3>2, <3>3
  <2>5. ASSUME NEW j \in 1..n, j - 1 \in Q PROVE j \in Q
    <3>1. j \in 0..n /\ j - 1 \in 0..n /\ j \in 1..(n + 1) /\ j + 1 \in 1..(n + 1)
          /\ (j + 1) - 1 = j /\ (j - 1) + 1 = j
      OBVIOUS
    <3>2. Near(i, j - 1) /\ Near(i - 1, j) /\ Near(i - 1, j - 1)
      BY <2>1, <2>5, <3>1
    <3>3. /\ d[i][j] = Cheapest(d[i - 1][j], d[i][j - 1], d[i - 1][j - 1], Cost(x[i], a[j]))
          /\ e[i][j] = Cheapest(e[i - 1][j], e[i][j - 1], e[i - 1][j - 1], Cost(x[i], b[j]))
          /\ e[i][j + 1] = Cheapest(e[i - 1][j + 1], e[i][j], e[i - 1][j], Cost(x[i], b[j + 1]))
      BY <1>1, <3>1 DEF Table
    <3>4. ASSUME j <= k PROVE e[i][j] = d[i][j]
      <4>1. j - 1 <= k /\ b[j] = a[j]
        BY <3>4
      <4> QED BY <3>2, <3>3, <3>4, <4>1
    <3>5. ASSUME j >= k PROVE OneApart(e[i][j + 1], d[i][j])
      <4>1. CASE j = k
        <5>1. e[i][j] = d[i][j]
          BY <3>4, <4>1
        <5>2. OneApart(e[i][j + 1], e[i][j])
          BY <2>3, <3>1
        <5> QED BY <5>1, <5>2
      <4>2. CASE j # k
        <5>1. j - 1 >= k /\ j \in (k + 1)..n
          BY <3>5, <4>2
        <5>2. b[j + 1] = a[j]
          BY <5>1
        <5>3. PICK c \in {0, 1} : c = Cost(x[i], a[j])
          BY DEF Cost
        <5>4. PICK u1 \in Nat, l1 \in Nat, g1 \in Nat :
                u1 = e[i - 1][j + 1] /\ l1 = e[i][j] /\ g1 = e[i - 1][j]
          <6>1. j + 1 \in 0..Len(b) /\ j \in 0..Len(b)
            BY <1>1
          <6> QED BY <2>2, <6>1, TableAt, Zenon
        <5>5. PICK u2 \in Nat, l2 \in Nat, g2 \in Nat :
                u2 = d[i - 1][j] /\ l2 = d[i][j - 1] /\ g2 = d[i - 1][j - 1]
          BY <2>2, <3>1, TableAt, Zenon
        <5>6. OneApart(u1, u2) /\ OneApart(l1, l2) /\ OneApart(g1, g2)
          BY <3>1, <3>2, <3>5, <5>1, <5>4, <5>5
        <5>7. OneApart(g1 + c, g2 + c)
          BY <5>6 DEF OneApart
        <5>8. OneApart(Cheapest(u1, l1, g1, c), Cheapest(u2, l2, g2, c))
          BY <5>6, <5>7, CheapestOneApart
        <5> QED BY <3>3, <5>2, <5>3, <5>4, <5>5, <5>8, Zenon
      <4> QED BY <4>1, <4>2
    <3> QED BY <3>1, <3>4, <3>5
  <2> HIDE DEF Q
  <2>6. \A j \in 0..n : j \in Q
    BY <2>4, <2>5, UpTo
  <2>7. i \in 0..m
    OBVIOUS
  <2> QED BY <2>6, <2>7 DEF Q
<1> HIDE DEF P
<1>4. \A i \in 0..m : i \in P
  BY <1>2, <1>3, UpTo
<1>5. m \in 0..m /\ n \in 0..n /\ n >= k
  OBVIOUS
<1>6. OneApart(e[m][n + 1], d[m][n])
  BY <1>4, <1>5 DEF P
<1> QED BY <1>1, <1>6, Zenon

LEMMA ReplacedMovesByOne ==
  ASSUME NEW S, NEW x \in Seq(S), NEW a \in Seq(S), NEW b \in Seq(S), NEW d, NEW e,
         Table(d, x, a), Table(e, x, b), Replaced(a, b)
  PROVE  OneApart(e[Len(x)][Len(b)], d[Len(x)][Len(a)])
<1> PICK m \in Nat, n \in Nat : m = Len(x) /\ n = Len(a)
  OBVIOUS
<1>1. n = Len(b)
  BY DEF Replaced
<1> PICK k \in 1..n : \A j \in 1..n : j # k => b[j] = a[j]
  BY DEF Replaced
<1> DEFINE Near(i, j) == (j < k => e[i][j] = d[i][j]) /\ OneApart(e[i][j], d[i][j])
<1> DEFINE P == {i \in 0..m : \A j \in 0..n : Near(i, j)}
<1>s. \A v \in Nat : OneApart(v, v)
  BY DEF OneApart
<1>2. 0 \in P
  <2>1. ASSUME NEW j \in 0..n PROVE Near(0, j)
    <3>1. d[0][j] = j /\ e[0][j] = j
      BY <1>1 DEF Table
    <3>2. j \in Nat
      OBVIOUS
    <3> QED BY <1>s, <3>1, <3>2, Zenon
  <2>2. 0 \in 0..m
    OBVIOUS
  <2> QED BY <2>1, <2>2
<1>3. ASSUME NEW i \in 1..m, i - 1 \in P PROVE i \in P
  <2> DEFINE Q == {j \in 0..n : Near(i, j)}
  <2>1. \A j \in 0..n : Near(i - 1, j)
    BY <1>3
  <2>2. i \in 0..m /\ i - 1 \in 0..m
    OBVIOUS
  <2>n. \A j \in 0..n : e[i][j] \in Nat /\ d[i][j] \in Nat /\ e[i - 1][j] \in Nat /\ d[i - 1][j] \in Nat
    <3> SUFFICES ASSUME NEW j \in 0..n
                 PROVE  /\ e[i][j] \in Nat /\ d[i][j] \in Nat
                        /\ e[i - 1][j] \in Nat /\ d[i - 1][j] \in Nat
      BY Zenon
    <3>1. i \in 0..Len(x) /\ i - 1 \in 0..Len(x) /\ j \in 0..Len(a) /\ j \in 0..Len(b)
      BY <1>1, <2>2
    <3> QED BY <3>1, TableAt, Zenon
  <2>4. 0 \in Q
    <3>1. 0 \in 0..n /\ 0 < k
      OBVIOUS
    <3>2. e[i][0] = d[i][0]
      <4>1. e[i][0] = e[i - 1][0] + 1 /\ d[i][0] = d[i - 1][0] + 1
        BY DEF Table
      <4> QED BY <2>1, <3>1, <4>1
    <3> QED BY <1>s, <2>n, <3>1, <3>2
  <2>5. ASSUME NEW j \in 1..n, j - 1 \in Q PROVE j \in Q
    <3>1. j \in 0..n /\ j - 1 \in 0..n
      OBVIOUS
    <3>2. Near(i, j - 1) /\ Near(i - 1, j) /\ Near(i - 1, j - 1)
      BY <2>1, <2>5, <3>1
    <3>3. /\ d[i][j] = Cheapest(d[i - 1][j], d[i][j - 1], d[i - 1][j - 1], Cost(x[i], a[j]))
          /\ e[i][j] = Cheapest(e[i - 1][j], e[i][j - 1], e[i - 1][j - 1], Cost(x[i], b[j]))
      BY <1>1 DEF Table
    <3>4. ASSUME j < k PROVE e[i][j] = d[i][j]
      <4>1. j - 1 < k /\ b[j] = a[j]
        BY <3>4
      <4> QED BY <3>2, <3>3, <3>4, <4>1
    <3>5. OneApart(e[i][j], d[i][j])
      <4>3. PICK c1 \in {0, 1}, c2 \in {0, 1} : c1 = Cost(x[i], b[j]) /\ c2 = Cost(x[i], a[j])
        BY DEF Cost
      <4>4. PICK u1 \in Nat, l1 \in Nat, g1 \in Nat :
              u1 = e[i - 1][j] /\ l1 = e[i][j - 1] /\ g1 = e[i - 1][j - 1]
        BY <2>n, <3>1, Zenon
      <4>5. PICK u2 \in Nat, l2 \in Nat, g2 \in Nat :
              u2 = d[i - 1][j] /\ l2 = d[i][j - 1] /\ g2 = d[i - 1][j - 1]
        BY <2>n, <3>1, Zenon
      <4>6. OneApart(u1, u2) /\ OneApart(l1, l2) /\ OneApart(g1, g2)
        BY <3>2, <4>4, <4>5
      <4>7. OneApart(g1 + c1, g2 + c2)
        <5>1. CASE j <= k
          <6>1. j - 1 < k
            BY <5>1
          <6>2. g1 = g2
            BY <3>2, <4>4, <4>5, <6>1
          <6> QED BY <6>2 DEF OneApart
        <5>2. CASE ~(j <= k)
          <6>1. b[j] = a[j]
            BY <5>2
          <6>2. c1 = c2
            BY <4>3, <6>1
          <6> QED BY <4>6, <6>2 DEF OneApart
        <5> QED BY <5>1, <5>2
      <4>8. OneApart(Cheapest(u1, l1, g1, c1), Cheapest(u2, l2, g2, c2))
        BY <4>6, <4>7, CheapestOneApart
      <4> QED BY <3>3, <4>3, <4>4, <4>5, <4>8, Zenon
    <3> QED BY <3>1, <3>4, <3>5
  <2> HIDE DEF Q
  <2>6. \A j \in 0..n : j \in Q
    BY <2>4, <2>5, UpTo
  <2> QED BY <2>2, <2>6 DEF Q
<1> HIDE DEF P
<1>4. \A i \in 0..m : i \in P
  BY <1>2, <1>3, UpTo
<1>5. m \in 0..m /\ n \in 0..n
  OBVIOUS
<1>6. OneApart(e[m][n], d[m][n])
  BY <1>4, <1>5 DEF P
<1> QED BY <1>1, <1>6, Zenon

LEMMA OneEdit ==
  ASSUME NEW S, NEW x \in Seq(S), NEW a \in Seq(S), NEW b \in Seq(S), Edited(a, b)
  PROVE  Distance(x, a) \in Nat /\ Distance(x, b) \in Nat /\ OneApart(Distance(x, b), Distance(x, a))
<1>1. PICK d : Table(d, x, a) /\ Distance(x, a) = d[Len(x)][Len(a)]
  BY TableExists, Zenon
<1>2. PICK e : Table(e, x, b) /\ Distance(x, b) = e[Len(x)][Len(b)]
  BY TableExists, Zenon
<1>3. Distance(x, a) \in Nat /\ Distance(x, b) \in Nat
  <2>1. Len(x) \in 0..Len(x) /\ Len(a) \in 0..Len(a) /\ Len(b) \in 0..Len(b)
    OBVIOUS
  <2>2. d[Len(x)][Len(a)] \in Nat
    BY <1>1, <2>1, TableAt, Zenon
  <2>3. e[Len(x)][Len(b)] \in Nat
    BY <1>2, <2>1, TableAt, Zenon
  <2> QED BY <1>1, <1>2, <2>2, <2>3, Zenon
<1>4. CASE Inserted(a, b)
  BY <1>1, <1>2, <1>3, <1>4, InsertedMovesByOne, Zenon
<1>5. CASE Inserted(b, a)
  <2>1. OneApart(Distance(x, a), Distance(x, b))
    BY <1>1, <1>2, <1>5, InsertedMovesByOne, Zenon
  <2> QED BY <1>3, <2>1 DEF OneApart
<1>6. CASE Replaced(a, b)
  BY <1>1, <1>2, <1>3, <1>6, ReplacedMovesByOne, Zenon
<1> QED BY <1>4, <1>5, <1>6 DEF Edited

LEMMA DistanceToItself ==
  ASSUME NEW S, NEW a \in Seq(S)
  PROVE  Distance(a, a) = 0
<1>1. PICK d : Table(d, a, a) /\ Distance(a, a) = d[Len(a)][Len(a)]
  BY TableExists, Zenon
<1> PICK n \in Nat : n = Len(a)
  OBVIOUS
<1> DEFINE P == {i \in 0..n : d[i][i] = 0}
<1>2. 0 \in P
  BY <1>1 DEF Table
<1>3. ASSUME NEW i \in 1..n, i - 1 \in P PROVE i \in P
  <2>1. i \in 0..n /\ i - 1 \in 0..n /\ d[i - 1][i - 1] = 0
    BY <1>3
  <2>2. LeastOf(d[i][i], d[i - 1][i], d[i][i - 1], d[i - 1][i - 1] + Cost(a[i], a[i]))
    BY <1>1, TableAt, Zenon
  <2>3. Cost(a[i], a[i]) = 0
    BY DEF Cost
  <2>4. d[i][i] = 0
    BY <2>1, <2>2, <2>3 DEF LeastOf
  <2> QED BY <2>1, <2>4
<1> HIDE DEF P
<1>4. \A i \in 0..n : i \in P
  BY <1>2, <1>3, UpTo
<1>5. n \in 0..n
  OBVIOUS
<1> QED BY <1>1, <1>4, <1>5 DEF P

LEMMA EditedBothWays ==
  ASSUME NEW a, NEW b, Edited(a, b)
  PROVE  Edited(b, a)
<1>1. ASSUME Replaced(a, b) PROVE Replaced(b, a)
  BY <1>1 DEF Replaced
<1> QED BY <1>1 DEF Edited

(* A word becomes another by n edits, one after the other.                 *)
EditPath(p, n, S, a, b) ==
  /\ p \in [0..n -> Seq(S)] /\ p[0] = a /\ p[n] = b
  /\ \A i \in 1..n : Edited(p[i - 1], p[i])
EditsApart(S, a, b, n) == \E p : EditPath(p, n, S, a, b)

LEMMA NoFewerEdits ==
  ASSUME NEW S, NEW a \in Seq(S), NEW b \in Seq(S), NEW n \in Nat, EditsApart(S, a, b, n)
  PROVE  Distance(a, b) \in Nat /\ Distance(a, b) <= n
<1> PICK p : EditPath(p, n, S, a, b)
  BY DEF EditsApart
<1> DEFINE P == {i \in 0..n : Distance(a, p[i]) \in Nat /\ Distance(a, p[i]) <= i}
<1>1. 0 \in P
  <2>1. p[0] = a /\ 0 \in 0..n
    BY DEF EditPath
  <2>2. Distance(a, p[0]) = 0
    BY <2>1, DistanceToItself, Zenon
  <2> QED BY <2>1, <2>2
<1>2. ASSUME NEW i \in 1..n, i - 1 \in P PROVE i \in P
  <2>1. i \in 0..n /\ i - 1 \in 0..n
    OBVIOUS
  <2>2. p[i] \in Seq(S) /\ p[i - 1] \in Seq(S) /\ Edited(p[i - 1], p[i])
    BY <2>1 DEF EditPath
  <2>3. PICK x \in Nat, y \in Nat : x = Distance(a, p[i - 1]) /\ y = Distance(a, p[i]) /\ OneApart(y, x)
    BY <2>2, OneEdit, Zenon
  <2>4. x <= i - 1
    BY <1>2, <2>3
  <2>5. y <= i
    BY <2>3, <2>4 DEF OneApart
  <2> QED BY <2>1, <2>3, <2>5
<1> HIDE DEF P
<1>3. \A i \in 0..n : i \in P
  BY <1>1, <1>2, UpTo
<1>4. n \in 0..n /\ p[n] = b
  BY DEF EditPath
<1> QED BY <1>3, <1>4 DEF P

(* Paths of edits, one letter longer.                                      *)
LEMMA EditAtEnd ==
  ASSUME NEW S, NEW u \in Seq(S), NEW x \in S, NEW y \in S
  PROVE  /\ Edited(u, Append(u, x)) /\ Edited(Append(u, x), u)
         /\ Edited(Append(u, x), Append(u, y))
<1> PICK n \in Nat : n = Len(u)
  OBVIOUS
<1>1. Inserted(u, Append(u, x))
  <2>1. n \in 0..n /\ (\A j \in 1..n : Append(u, x)[j] = u[j])
        /\ (\A j \in (n + 1)..n : Append(u, x)[j + 1] = u[j])
    OBVIOUS
  <2> QED BY <2>1 DEF Inserted
<1>2. Replaced(Append(u, x), Append(u, y))
  <2>1. n + 1 \in 1..Len(Append(u, x)) /\ Len(Append(u, x)) = n + 1 /\ Len(Append(u, y)) = n + 1
        /\ \A j \in 1..(n + 1) : j # n + 1 => Append(u, y)[j] = Append(u, x)[j]
    OBVIOUS
  <2> QED BY <2>1 DEF Replaced
<1> QED BY <1>1, <1>2 DEF Edited

LEMMA EditBeforeEnd ==
  ASSUME NEW S, NEW u \in Seq(S), NEW v \in Seq(S), NEW x \in S, Edited(u, v)
  PROVE  Edited(Append(u, x), Append(v, x))
<1>1. ASSUME NEW s \in Seq(S), NEW t \in Seq(S), Inserted(s, t)
      PROVE  Inserted(Append(s, x), Append(t, x))
  <2> PICK n \in Nat : n = Len(s)
    OBVIOUS
  <2>1. Len(t) = n + 1
    BY <1>1 DEF Inserted
  <2>2. PICK k \in 0..n : /\ \A j \in 1..k : t[j] = s[j]
                          /\ \A j \in (k + 1)..n : t[j + 1] = s[j]
    BY <1>1 DEF Inserted
  <2>p. PICK s1, t1 : s1 = Append(s, x) /\ t1 = Append(t, x)
    OBVIOUS
  <2>3. Len(s1) = n + 1 /\ Len(t1) = n + 2 /\ s1[n + 1] = x /\ t1[n + 2] = x
        /\ (\A j \in 1..n : s1[j] = s[j]) /\ (\A j \in 1..(n + 1) : t1[j] = t[j])
    BY <2>1, <2>p
  <2>4. \A j \in 1..k : t1[j] = s1[j]
    <3> SUFFICES ASSUME NEW j \in 1..k PROVE t1[j] = s1[j]
      OBVIOUS
    <3>1. j \in 1..n /\ j \in 1..(n + 1)
      OBVIOUS
    <3> QED BY <2>2, <2>3, <3>1
  <2>5. \A j \in (k + 1)..(n + 1) : t1[j + 1] = s1[j]
    <3> SUFFICES ASSUME NEW j \in (k + 1)..(n + 1) PROVE t1[j + 1] = s1[j]
      OBVIOUS
    <3>1. CASE j = n + 1
      BY <2>3, <3>1
    <3>2. CASE j # n + 1
      <4>1. j \in (k + 1)..n /\ j \in 1..n /\ j + 1 \in 1..(n + 1)
        BY <3>2
      <4> QED BY <2>2, <2>3, <4>1
    <3> QED BY <3>1, <3>2
  <2>6. k \in 0..(n + 1) /\ Len(t1) = Len(s1) + 1
    BY <2>3
  <2> QED BY <2>p, <2>3, <2>4, <2>5, <2>6 DEF Inserted
<1>2. ASSUME Replaced(u, v) PROVE Replaced(Append(u, x), Append(v, x))
  <2> PICK n \in Nat : n = Len(u)
    OBVIOUS
  <2>1. Len(v) = n
    BY <1>2 DEF Replaced
  <2>2. PICK k \in 1..n : \A j \in 1..n : j # k => v[j] = u[j]
    BY <1>2 DEF Replaced
  <2>p. PICK u1, v1 : u1 = Append(u, x) /\ v1 = Append(v, x)
    OBVIOUS
  <2>3. Len(u1) = n + 1 /\ Len(v1) = n + 1 /\ u1[n + 1] = x /\ v1[n + 1] = x
        /\ (\A j \in 1..n : u1[j] = u[j]) /\ (\A j \in 1..n : v1[j] = v[j])
    BY <2>1, <2>p
  <2>4. \A j \in 1..(n + 1) : j # k => v1[j] = u1[j]
    <3> SUFFICES ASSUME NEW j \in 1..(n + 1), j # k PROVE v1[j] = u1[j]
      OBVIOUS
    <3>1. CASE j = n + 1
      BY <2>3, <3>1
    <3>2. CASE j # n + 1
      <4>1. j \in 1..n
        BY <3>2
      <4> QED BY <2>2, <2>3, <3>2, <4>1
    <3> QED BY <3>1, <3>2
  <2>5. k \in 1..(n + 1)
    OBVIOUS
  <2> QED BY <2>p, <2>3, <2>4, <2>5 DEF Replaced
<1> QED BY <1>1, <1>2 DEF Edited

LEMMA LastEdit ==
  ASSUME NEW S, NEW n \in Nat, NEW a \in Seq(S), NEW u \in Seq(S), NEW v \in Seq(S),
         EditsApart(S, a, u, n), Edited(u, v)
  PROVE  EditsApart(S, a, v, n + 1)
<1> PICK p : EditPath(p, n, S, a, u)
  BY DEF EditsApart
<1> DEFINE q == [i \in 0..(n + 1) |-> IF i = n + 1 THEN v ELSE p[i]]
<1>1. \A i \in 0..n : i \in 0..(n + 1) /\ i # n + 1 /\ q[i] = p[i]
  OBVIOUS
<1>2. q[n + 1] = v
  OBVIOUS
<1>3. q \in [0..(n + 1) -> Seq(S)]
  <2>1. \A i \in 0..(n + 1) : i = n + 1 \/ i \in 0..n
    OBVIOUS
  <2>2. \A i \in 0..n : p[i] \in Seq(S)
    BY DEF EditPath
  <2> QED BY <2>1, <2>2
<1>4. ASSUME NEW i \in 1..(n + 1) PROVE Edited(q[i - 1], q[i])
  <2>1. CASE i = n + 1
    <3>1. i - 1 = n /\ n \in 0..n
      BY <2>1
    <3>2. q[i - 1] = u
      BY <1>1, <3>1 DEF EditPath
    <3> QED BY <1>2, <2>1, <3>2
  <2>2. CASE i # n + 1
    <3>1. i \in 1..n /\ i \in 0..n /\ i - 1 \in 0..n
      BY <2>2
    <3> HIDE DEF q
    <3> QED BY <1>1, <3>1 DEF EditPath
  <2> QED BY <2>1, <2>2
<1>5. 0 \in 0..n /\ p[0] = a
  BY DEF EditPath
<1>6. q[0] = a
  BY <1>1, <1>5
<1> HIDE DEF q
<1> QED BY <1>2, <1>3, <1>4, <1>6 DEF EditPath, EditsApart

LEMMA FirstEdit ==
  ASSUME NEW S, NEW n \in Nat, NEW b \in Seq(S), NEW u \in Seq(S), NEW v \in Seq(S),
         EditsApart(S, v, b, n), Edited(u, v)
  PROVE  EditsApart(S, u, b, n + 1)
<1> PICK p : EditPath(p, n, S, v, b)
  BY DEF EditsApart
<1> DEFINE q == [i \in 0..(n + 1) |-> IF i = 0 THEN u ELSE p[i - 1]]
<1>1. \A i \in 1..(n + 1) : i \in 0..(n + 1) /\ i - 1 \in 0..n /\ q[i] = p[i - 1]
  OBVIOUS
<1>2. q[0] = u
  OBVIOUS
<1>3. q \in [0..(n + 1) -> Seq(S)]
  <2>1. \A i \in 0..(n + 1) : i = 0 \/ i - 1 \in 0..n
    OBVIOUS
  <2>2. \A i \in 0..n : p[i] \in Seq(S)
    BY DEF EditPath
  <2> QED BY <2>1, <2>2
<1>4. ASSUME NEW i \in 1..(n + 1) PROVE Edited(q[i - 1], q[i])
  <2>1. CASE i = 1
    <3>1. q[1] = p[0] /\ p[0] = v
      BY <1>1 DEF EditPath
    <3>2. i - 1 = 0
      BY <2>1
    <3> QED BY <1>2, <2>1, <3>1, <3>2
  <2>2. CASE i # 1
    <3>1. PICK k \in 1..n : k = i - 1
      BY <2>2
    <3>2. k \in 1..(n + 1)
      OBVIOUS
    <3> HIDE DEF q
    <3>3. q[k] = p[k - 1] /\ q[i] = p[k] /\ Edited(p[k - 1], p[k])
      BY <1>1, <3>1, <3>2 DEF EditPath
    <3> QED BY <3>1, <3>3
  <2> QED BY <2>1, <2>2
<1>5. q[n + 1] = b
  BY <1>1 DEF EditPath
<1> HIDE DEF q
<1> QED BY <1>2, <1>3, <1>4, <1>5 DEF EditPath, EditsApart

LEMMA SameLastLetter ==
  ASSUME NEW S, NEW n \in Nat, NEW a \in Seq(S), NEW b \in Seq(S), NEW x \in S,
         EditsApart(S, a, b, n)
  PROVE  EditsApart(S, Append(a, x), Append(b, x), n)
<1> PICK p : EditPath(p, n, S, a, b)
  BY DEF EditsApart
<1> DEFINE q == [i \in 0..n |-> Append(p[i], x)]
<1>1. \A i \in 0..n : p[i] \in Seq(S)
  BY DEF EditPath
<1>2. q \in [0..n -> Seq(S)]
  BY <1>1
<1>3. ASSUME NEW i \in 1..n PROVE Edited(q[i - 1], q[i])
  <2>1. i \in 0..n /\ i - 1 \in 0..n
    OBVIOUS
  <2>2. Edited(p[i - 1], p[i])
    BY DEF EditPath
  <2>3. Edited(Append(p[i - 1], x), Append(p[i], x))
    BY <1>1, <2>1, <2>2, EditBeforeEnd, Zenon
  <2> QED BY <2>1, <2>3
<1>4. q[0] = Append(a, x) /\ q[n] = Append(b, x)
  BY DEF EditPath
<1> HIDE DEF q
<1> QED BY <1>2, <1>3, <1>4 DEF EditPath, EditsApart

LEMMA NoEdit ==
  ASSUME NEW S, NEW a \in Seq(S)
  PROVE  EditsApart(S, a, a, 0)
<1> DEFINE p == [i \in 0..0 |-> a]
<1>1. EditPath(p, 0, S, a, a)
  BY DEF EditPath
<1> QED BY <1>1 DEF EditsApart

(* Every number of the table is reached by that many edits.                *)
LEMMA EditsOfTable ==
  ASSUME NEW S, NEW a \in Seq(S), NEW b \in Seq(S)
  PROVE  EditsApart(S, a, b, Distance(a, b))
<1> PICK m \in Nat, n \in Nat : m = Len(a) /\ n = Len(b)
  OBVIOUS
<1>1. PICK d : Table(d, a, b) /\ Distance(a, b) = d[m][n]
  BY TableExists, Zenon
<1> DEFINE A(i) == SubSeq(a, 1, i)
<1> DEFINE B(j) == SubSeq(b, 1, j)
<1>2. /\ A(0) = << >> /\ \A i \in 0..m : A(i) \in Seq(S)
      /\ \A i \in 1..m : a[i] \in S /\ A(i) = Append(A(i - 1), a[i])
      /\ A(m) = a
  OBVIOUS
<1>3. /\ B(0) = << >> /\ \A j \in 0..n : B(j) \in Seq(S)
      /\ \A j \in 1..n : b[j] \in S /\ B(j) = Append(B(j - 1), b[j])
      /\ B(n) = b
  OBVIOUS
<1>4. \A i \in 0..m, j \in 0..n : d[i][j] \in Nat
  BY <1>1, TableAt
<1> DEFINE InEdits(i, j) == EditsApart(S, A(i), B(j), d[i][j])
<1> HIDE DEF A, B
<1> DEFINE P == {i \in 0..m : \A j \in 0..n : InEdits(i, j)}
<1>5. 0 \in P
  <2> DEFINE Q == {j \in 0..n : InEdits(0, j)}
  <2>z. 0 \in 0..m /\ 0 \in 0..n
    OBVIOUS
  <2>d. \A j \in 0..n : d[0][j] = j
    BY <1>1 DEF Table
  <2>1. 0 \in Q
    <3>1. d[0][0] = 0 /\ A(0) = B(0) /\ A(0) \in Seq(S)
      BY <1>2, <1>3, <2>z, <2>d
    <3>2. EditsApart(S, A(0), A(0), 0)
      BY <3>1, NoEdit, Zenon
    <3> QED BY <2>z, <3>1, <3>2
  <2>2. ASSUME NEW j \in 1..n, j - 1 \in Q PROVE j \in Q
    <3>1. j \in 0..n /\ j - 1 \in 0..n
      OBVIOUS
    <3>2. EditsApart(S, A(0), B(j - 1), j - 1)
      BY <2>2, <2>d, <3>1
    <3>3. PICK k \in Nat : k = j - 1 /\ k + 1 = j
      OBVIOUS
    <3>4. Edited(B(j - 1), B(j)) /\ B(j - 1) \in Seq(S) /\ B(j) \in Seq(S) /\ A(0) \in Seq(S)
      <4>1. B(j - 1) \in Seq(S) /\ b[j] \in S /\ B(j) = Append(B(j - 1), b[j])
        BY <1>3, <3>1
      <4>2. Edited(B(j - 1), B(j))
        BY <4>1, EditAtEnd, Zenon
      <4> QED BY <1>2, <1>3, <2>z, <3>1, <4>2
    <3>5. EditsApart(S, A(0), B(j), k + 1)
      BY <3>2, <3>3, <3>4, LastEdit, Zenon
    <3> QED BY <2>d, <3>1, <3>3, <3>5
  <2> HIDE DEF Q
  <2>3. \A j \in 0..n : j \in Q
    BY <2>1, <2>2, UpTo
  <2> QED BY <2>3, <2>z DEF Q
<1>6. ASSUME NEW i \in 1..m, i - 1 \in P PROVE i \in P
  <2> DEFINE Q == {j \in 0..n : InEdits(i, j)}
  <2>z. i \in 0..m /\ i - 1 \in 0..m /\ 0 \in 0..n
    OBVIOUS
  <2>i. \A j \in 0..n : InEdits(i - 1, j)
    BY <1>6
  <2> PICK x \in S, u \in Seq(S) : x = a[i] /\ u = A(i - 1) /\ A(i) = Append(u, x)
    BY <1>2, <2>z
  <2>a. A(i) \in Seq(S) /\ Edited(A(i), u)
    BY EditAtEnd
  <2>r. ASSUME NEW j \in 0..n
        PROVE  d[i - 1][j] \in Nat /\ EditsApart(S, A(i), B(j), d[i - 1][j] + 1)
    <3>1. EditsApart(S, u, B(j), d[i - 1][j])
      BY <2>i
    <3>2. d[i - 1][j] \in Nat /\ B(j) \in Seq(S)
      BY <1>3, <1>4, <2>z, Zenon
    <3> QED BY <2>a, <3>1, <3>2, FirstEdit, Zenon
  <2>1. 0 \in Q
    <3>1. d[i][0] = d[i - 1][0] + 1
      BY <1>1 DEF Table
    <3> QED BY <2>r, <2>z, <3>1
  <2>2. ASSUME NEW j \in 1..n, j - 1 \in Q PROVE j \in Q
    <3>1. j \in 0..n /\ j - 1 \in 0..n
      OBVIOUS
    <3> PICK y \in S, v \in Seq(S) : y = b[j] /\ v = B(j - 1) /\ B(j) = Append(v, y)
      BY <1>3, <3>1
    <3>2. B(j) \in Seq(S) /\ Edited(v, B(j))
      BY EditAtEnd
    <3> PICK c \in {0, 1} : c = Cost(x, y)
      BY DEF Cost
    <3>3. LeastOf(d[i][j], d[i - 1][j], d[i][j - 1], d[i - 1][j - 1] + c)
      BY <1>1, TableAt, Zenon
    <3>4. CASE d[i][j] = d[i - 1][j] + 1
      BY <2>r, <3>1, <3>4
    <3>5. CASE d[i][j] = d[i][j - 1] + 1
      <4>1. EditsApart(S, A(i), v, d[i][j - 1])
        BY <2>2
      <4>2. d[i][j - 1] \in Nat
        BY <1>4, <2>z, <3>1
      <4>3. EditsApart(S, A(i), B(j), d[i][j - 1] + 1)
        BY <2>a, <3>2, <4>1, <4>2, LastEdit, Zenon
      <4> QED BY <3>1, <3>5, <4>3
    <3>6. CASE d[i][j] = d[i - 1][j - 1] + c
      <4>1. PICK g \in Nat : g = d[i - 1][j - 1] /\ EditsApart(S, u, v, g)
        BY <1>4, <2>i, <2>z, <3>1
      <4>2. EditsApart(S, A(i), Append(v, x), g)
        BY <4>1, SameLastLetter, Zenon
      <4>3. CASE x = y
        <5>1. c = 0
          BY <4>3 DEF Cost
        <5>2. d[i][j] = g
          BY <3>6, <4>1, <5>1
        <5> QED BY <3>1, <4>2, <4>3, <5>2
      <4>4. CASE x # y
        <5>1. c = 1
          BY <4>4 DEF Cost
        <5>2. d[i][j] = g + 1
          BY <3>6, <4>1, <5>1
        <5>3. Append(v, x) \in Seq(S) /\ Edited(Append(v, x), B(j))
          BY EditAtEnd
        <5>4. EditsApart(S, A(i), B(j), g + 1)
          BY <2>a, <3>2, <4>2, <5>3, LastEdit, Zenon
        <5> QED BY <3>1, <5>2, <5>4
      <4> QED BY <4>3, <4>4
    <3> QED BY <3>3, <3>4, <3>5, <3>6 DEF LeastOf
  <2> HIDE DEF Q
  <2>3. \A j \in 0..n : j \in Q
    BY <2>1, <2>2, UpTo
  <2> QED BY <2>3, <2>z DEF Q
<1> HIDE DEF P
<1>7. \A i \in 0..m : i \in P
  BY <1>5, <1>6, UpTo
<1>8. m \in 0..m /\ n \in 0..n
  OBVIOUS
<1>9. InEdits(m, n)
  BY <1>7, <1>8 DEF P
<1> QED BY <1>1, <1>2, <1>3, <1>9

(* _levenshtein computes what its name promises: the number of single      *)
(* letters to insert, remove or replace to turn one word into the other,   *)
(* and no smaller number of such edits does it.                            *)
THEOREM DistanceIsFewestEdits ==
  ASSUME NEW S, NEW a \in Seq(S), NEW b \in Seq(S)
  PROVE  /\ Distance(a, b) \in Nat
         /\ EditsApart(S, a, b, Distance(a, b))
         /\ \A n \in Nat : EditsApart(S, a, b, n) => Distance(a, b) <= n
<1>1. EditsApart(S, a, b, Distance(a, b))
  BY EditsOfTable
<1>2. Distance(a, b) \in Nat
  <2>1. PICK d : Table(d, a, b) /\ Distance(a, b) = d[Len(a)][Len(b)]
    BY TableExists, Zenon
  <2>2. Len(a) \in 0..Len(a) /\ Len(b) \in 0..Len(b)
    OBVIOUS
  <2>3. d[Len(a)][Len(b)] \in Nat
    BY <2>1, <2>2, TableAt, Zenon
  <2> QED BY <2>1, <2>3, Zenon
<1> QED BY <1>1, <1>2, NoFewerEdits, Zenon

LEMMA EditsReversed ==
  ASSUME NEW S, NEW a \in Seq(S), NEW b \in Seq(S), NEW n \in Nat, EditsApart(S, a, b, n)
  PROVE  EditsApart(S, b, a, n)
<1> PICK p : EditPath(p, n, S, a, b)
  BY DEF EditsApart
<1> DEFINE q == [i \in 0..n |-> p[n - i]]
<1>1. \A i \in 0..n : n - i \in 0..n /\ q[i] = p[n - i]
  OBVIOUS
<1>2. q \in [0..n -> Seq(S)]
  BY <1>1 DEF EditPath
<1>3. ASSUME NEW i \in 1..n PROVE Edited(q[i - 1], q[i])
  <2>1. i \in 0..n /\ i - 1 \in 0..n
    OBVIOUS
  <2>2. PICK k \in 1..n : k - 1 = n - i /\ k = n - (i - 1)
    <3>1. (n - i) + 1 \in 1..n /\ ((n - i) + 1) - 1 = n - i /\ (n - i) + 1 = n - (i - 1)
      OBVIOUS
    <3> QED BY <3>1
  <2>3. Edited(p[k - 1], p[k])
    BY DEF EditPath
  <2>4. q[i - 1] = p[k] /\ q[i] = p[k - 1]
    BY <2>1, <2>2
  <2> QED BY <2>3, <2>4, EditedBothWays
<1>4. q[0] = b /\ q[n] = a
  <2>1. 0 \in 0..n /\ n \in 0..n /\ n - 0 = n /\ n - n = 0
    OBVIOUS
  <2>2. q[0] = p[n] /\ q[n] = p[0]
    BY <2>1
  <2> QED BY <2>2 DEF EditPath
<1> HIDE DEF q
<1> QED BY <1>2, <1>3, <1>4 DEF EditPath, EditsApart

LEMMA EditsJoined ==
  ASSUME NEW S, NEW a \in Seq(S), NEW b \in Seq(S), NEW c \in Seq(S), NEW m \in Nat, NEW n \in Nat,
         EditsApart(S, a, b, m), EditsApart(S, b, c, n)
  PROVE  EditsApart(S, a, c, m + n)
<1> PICK p : EditPath(p, n, S, b, c)
  BY DEF EditsApart
<1> DEFINE P == {i \in 0..n : EditsApart(S, a, p[i], m + i)}
<1>1. 0 \in P
  <2>1. 0 \in 0..n /\ m + 0 = m /\ p[0] = b
    BY DEF EditPath
  <2> QED BY <2>1
<1>2. ASSUME NEW i \in 1..n, i - 1 \in P PROVE i \in P
  <2>1. i \in 0..n /\ i - 1 \in 0..n
    OBVIOUS
  <2>2. PICK k \in Nat : k = m + (i - 1) /\ k + 1 = m + i
    OBVIOUS
  <2>3. EditsApart(S, a, p[i - 1], k)
    BY <1>2, <2>2
  <2>4. p[i] \in Seq(S) /\ p[i - 1] \in Seq(S) /\ Edited(p[i - 1], p[i])
    BY <2>1 DEF EditPath
  <2>5. EditsApart(S, a, p[i], k + 1)
    BY <2>3, <2>4, LastEdit, Zenon
  <2> QED BY <2>1, <2>2, <2>5
<1> HIDE DEF P
<1>3. \A i \in 0..n : i \in P
  BY <1>1, <1>2, UpTo
<1>4. n \in 0..n /\ p[n] = c
  BY DEF EditPath
<1> QED BY <1>3, <1>4 DEF P

LEMMA NoEditsNoChange ==
  ASSUME NEW S, NEW a, NEW b, EditsApart(S, a, b, 0)
  PROVE  a = b
BY DEF EditsApart, EditPath

(* _levenshtein is a distance: nothing but the word itself is at distance  *)
(* zero (the early return for equal words changes no answer), the order of *)
(* the words does not matter, and a third word is no shortcut.             *)
THEOREM DistanceIsAMetric ==
  ASSUME NEW S, NEW a \in Seq(S), NEW b \in Seq(S), NEW c \in Seq(S)
  PROVE  /\ Distance(a, b) = 0 <=> a = b
         /\ Distance(a, b) = Distance(b, a)
         /\ Distance(a, c) <= Distance(a, b) + Distance(b, c)
<1> PICK x, y, z, w : x = Distance(a, b) /\ y = Distance(b, a) /\ z = Distance(b, c) /\ w = Distance(a, c)
  OBVIOUS
<1>1. /\ x \in Nat /\ EditsApart(S, a, b, x) /\ y \in Nat /\ EditsApart(S, b, a, y)
      /\ z \in Nat /\ EditsApart(S, b, c, z) /\ w \in Nat
  BY DistanceIsFewestEdits, Zenon
<1>2. x = 0 <=> a = b
  BY <1>1, NoEditsNoChange, DistanceToItself, Zenon
<1>3. x = y
  <2>1. EditsApart(S, b, a, x) /\ EditsApart(S, a, b, y)
    BY <1>1, EditsReversed, Zenon
  <2>2. x <= y /\ y <= x
    BY <1>1, <2>1, DistanceIsFewestEdits, Zenon
  <2> QED BY <1>1, <2>2
<1>4. w <= x + z
  <2>1. PICK t \in Nat : t = x + z
    BY <1>1
  <2>2. EditsApart(S, a, c, x + z)
    BY <1>1, EditsJoined, Zenon
  <2>3. w <= t
    BY <2>1, <2>2, DistanceIsFewestEdits, Zenon
  <2> QED BY <2>1, <2>3
<1> QED BY <1>2, <1>3, <1>4, Zenon

(* find_typosquat_target names a watched domain exactly when a watched     *)
(* name is part of the domain's, or when its label is another than the     *)
(* watched one and at most two letters inserted, removed or replaced make  *)
(* the one the other: no lookalike within two edits gets away.             *)
THEOREM TyposquatsAreWithinTwoEdits ==
  ASSUME NEW d \in Sites
  PROVE  LET within(w, n) == EditsApart(STRING, Site[d].label, Site[w].label, n)
         IN  Typosquats(d) <=>
               \E w \in Watchlist \ {d} :
                 \/ w \in Site[d].within
                 \/ Site[d].label # Site[w].label /\ \E n \in 0..2 : within(w, n)
<1>1. ASSUME NEW w \in Watchlist
      PROVE  Distance(Site[d].label, Site[w].label) <= 2
               <=> \E n \in 0..2 : EditsApart(STRING, Site[d].label, Site[w].label, n)
  <2>1. PICK a \in Seq(STRING), b \in Seq(STRING) : a = Site[d].label /\ b = Site[w].label
    BY ContentAssumption DEF SiteEntry
  <2>2. PICK x \in Nat : x = Distance(a, b) /\ EditsApart(STRING, a, b, x)
    BY DistanceIsFewestEdits, Zenon
  <2>3. ASSUME NEW n \in 0..2, EditsApart(STRING, a, b, n) PROVE x <= 2
    <3>1. n \in Nat
      OBVIOUS
    <3>2. x <= n
      BY <2>2, <2>3, <3>1, DistanceIsFewestEdits, Zenon
    <3> QED BY <3>2
  <2>4. x <= 2 => x \in 0..2
    OBVIOUS
  <2> QED BY <2>1, <2>2, <2>3, <2>4, Zenon
<1> QED BY <1>1 DEF Typosquats

-----------------------------------------------------------------------------
(* CircuitBreaker and ProviderLookup.                                      *)

(* A call that waits for a back-off has an attempt left.                   *)
AttemptsLeft == \A l \in Lookups : at[l] = "backoff" => tries[l] < MaxAttempts

BInv == BTypeOK /\ StateMatchesFailures

LInv == TypeOK /\ StateMatchesFailures /\ AttemptsLeft

(* Each operation of the breaker keeps the breaker's invariant.            *)
LEMMA BreakerStep ==
  ASSUME BInv, \/ Refuses \/ LetsThrough \/ RecordSuccess \/ RecordFailure \/ Tick
               \/ UNCHANGED bvars
  PROVE  BInv'
<1> USE BreakerAssumption DEF BInv, BTypeOK, StateMatchesFailures
<1>1. CASE Refuses \/ UNCHANGED bvars
  BY <1>1 DEF Refuses, bvars
<1>2. CASE LetsThrough
  BY <1>2 DEF LetsThrough, Seen
<1>3. CASE RecordSuccess
  BY <1>3 DEF RecordSuccess
<1>4. CASE RecordFailure
  BY <1>4 DEF RecordFailure
<1>5. CASE Tick
  BY <1>5 DEF Tick
<1>6. QED
  BY <1>1, <1>2, <1>3, <1>4, <1>5

LEMMA LookupStepInv ==
  ASSUME LInv, NEW l \in Lookups, LookupStep(l)
  PROVE  LInv'
<1> USE LookupAssumption
    DEF LInv, TypeOK, Verdicts, InFlight, Underway, AttemptsLeft, Move, Yields
<1>1. CASE Hit(l) \/ Miss(l) \/ Write(l) \/ StoreRaises(l)
  <2>1. BInv'
    BY <1>1, BreakerStep DEF Hit, Miss, Write, StoreRaises, BInv
  <2>2. QED
    BY <1>1, <2>1 DEF Hit, Miss, Write, StoreRaises, BInv
<1>2. CASE Refused(l)
  <2>1. BInv'
    BY <1>2, BreakerStep DEF Refused, BInv
  <2>2. QED
    BY <1>2, <2>1 DEF Refused, BInv
<1>3. CASE LetThrough(l)
  <2>1. BInv'
    BY <1>3, BreakerStep DEF LetThrough, BInv
  <2>2. QED
    BY <1>3, <2>1 DEF LetThrough, BInv
<1>4. CASE AnsweredOddly(l) \/ \E v \in Verdicts : Answered(l, v)
  <2>1. BInv'
    BY <1>4, BreakerStep DEF Answered, AnsweredOddly, BInv
  <2>2. QED
    BY <1>4, <2>1 DEF Answered, AnsweredOddly, BInv
<1>5. CASE Breaks(l) \/ BackoffEnds(l)
  <2>1. BInv'
    BY <1>5, BreakerStep DEF Breaks, BackoffEnds, BInv
  <2>2. QED
    BY <1>5, <2>1 DEF Breaks, BackoffEnds, BInv
<1>6. CASE Exhausted(l) \/ Raises(l)
  <2>1. BInv'
    BY <1>6, BreakerStep DEF Exhausted, Raises, BInv
  <2>2. QED
    BY <1>6, <2>1 DEF Exhausted, Raises, BInv
<1>7. QED
  BY <1>1, <1>2, <1>3, <1>4, <1>5, <1>6 DEF LookupStep

(* The inductive invariant of the lookups holds in every reachable state.  *)
THEOREM LInvariance == Spec => []LInv
<1>1. Init => LInv
  BY BreakerAssumption, LookupAssumption
  DEF Init, BInit, LInv, TypeOK, BTypeOK, Underway, StateMatchesFailures, AttemptsLeft
<1>2. LInv /\ [Next]_vars => LInv'
  <2> SUFFICES ASSUME LInv, [Next]_vars PROVE LInv'
    OBVIOUS
  <2>1. CASE \E l \in Lookups, s \in Subjects : Begin(l, s)
    <3>1. BInv'
      BY <2>1, BreakerStep DEF Begin, BInv, LInv, TypeOK
    <3>2. QED
      BY <2>1, <3>1, LookupAssumption
      DEF Begin, Move, Yields, BInv, LInv, TypeOK, Underway, AttemptsLeft
  <2>2. CASE \E l \in Lookups : LookupStep(l)
    BY <2>2, LookupStepInv
  <2>3. CASE TimePasses \/ UNCHANGED vars
    <3>1. BInv'
      BY <2>3, BreakerStep DEF TimePasses, vars, BInv, LInv, TypeOK
    <3>2. QED
      BY <2>3, <3>1 DEF TimePasses, vars, lvars, BInv, LInv, TypeOK, AttemptsLeft
  <2>4. CASE Turns \/ \E s \in Subjects : CacheExpires(s)
    <3>1. BInv'
      BY <2>4, BreakerStep DEF Turns, CacheExpires, BInv, LInv, TypeOK
    <3>2. QED
      BY <2>4, <3>1 DEF Turns, CacheExpires, BInv, LInv, TypeOK, AttemptsLeft
  <2>5. QED
    BY <2>1, <2>2, <2>3, <2>4 DEF Next
<1>3. QED
  BY <1>1, <1>2, PTL DEF Spec

(* Every reachable state is well typed; in particular no call makes more   *)
(* than MaxAttempts attempts.                                              *)
THEOREM LookupTypeCorrect == Spec => []TypeOK
  BY LInvariance, PTL DEF LInv

(* However concurrent calls end, the circuit is closed exactly when fewer  *)
(* than Threshold calls have failed since the last success.                *)
THEOREM StateMatchesFailuresHolds == Spec => []StateMatchesFailures
  BY LInvariance, PTL DEF LInv
=============================================================================
