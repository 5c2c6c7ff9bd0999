--------------------------- MODULE ContentChecks ---------------------------
(***************************************************************************)
(* What the content of a message adds to its score (content_analysis/):    *)
(* analyze_content adds up the points of the detectors, waiting for two    *)
(* answers about each link.  Several messages are analysed at once by one  *)
(* process, which remembers who has written to whom.  A text is the set of *)
(* words (and phrases) in it, an HTML body its sequence of tags and texts. *)
(* webhook_receiver/app.py passes no recipient, thread headers, file names *)
(* or images; the messages here may carry them.                            *)
(***************************************************************************)
EXTENDS Naturals, Sequences, FiniteSets, FiniteSetsExt, SequencesExt

CONSTANTS Words,      \* words and phrases, pairwise distinct patterns
          Lexicon,    \* what the detectors have about each: Entry
          Sites,      \* domains
          Site,       \* what a domain is: SiteEntry
          Watchlist,  \* watched domains
          VIPs,       \* protected display names
          Urls,
          Link,       \* what a URL is: LinkEntry
          Decoder,    \* the QR decoder is installed
          Contents,    \* the messages that arrive
          Slots,      \* messages analysed at once
          MaxBegun,   \* bound on the messages of a process
          MaxRestarts

LatinLangs == <<"de", "fr", "es", "it", "pt", "nl">>
ScriptLangs == <<"ja", "ru", "zh">>

(* points: _PATTERNS; lang, weight: MULTILANG_DICTIONARIES ("en" and 0 if  *)
(* in none); hints: LANG_INDICATORS; urgent, money, action: tokens of the  *)
(* classifier; change: FINANCIAL_CHANGE_PATTERNS.                          *)
Entry ==
  [ points : 0..12, lang : {"en"} \cup Range(LatinLangs \o ScriptLangs), weight : {0, 15, 20, 25},
    script : {"latin", "ja", "ru", "zh"}, hints : SUBSET Range(LatinLangs),
    urgent : BOOLEAN, money : BOOLEAN, action : BOOLEAN, change : BOOLEAN ]

SiteEntry ==
  [ label  : Seq(STRING),     \* the letters of its registrable label
    within : SUBSET Sites,    \* domains whose names are part of its name
    brands : SUBSET STRING,   \* brands named in it
    idn    : BOOLEAN ]        \* punycode or confusable letters

LinkEntry ==
  [domain : Sites, ip : BOOLEAN, markers : SUBSET STRING]

Hiding == {"display:none", "visibility:hidden", "font-size:0", "opacity:0",
           "color:transparent", "color of background"}
Styles == Hiding \cup {"none", "off-screen", "without value"}

(* The tokens of an HTML body.  A void tag (br, img) has no end tag; one   *)
(* that closes itself changes nothing and is left out.                     *)
Open(style) == [kind |-> "open", style |-> style]
Void(style) == [kind |-> "void", style |-> style]
Close == [kind |-> "close"]
Text(words) == [kind |-> "text", words |-> words]
Token ==
  [kind : {"open", "void"}, style : Styles] \cup {Close} \cup [kind : {"text"}, words : SUBSET Words]

Content ==
  [ from  : [name : STRING, domain : Sites], replyTo : Sites \cup {""},
    to    : STRING, reply : BOOLEAN,
    text  : SUBSET Words, html : Seq(Token),
    signs : SUBSET {"zero-width", "embedding", "isolate"},  \* inside every word
    files : BOOLEAN,             \* a file name has a directional sign
    images : Seq([codes : Seq(Urls), words : SUBSET Words]),
    links : SUBSET Urls,         \* in the text or the HTML
    brands : SUBSET STRING ]     \* brands with a marker in the HTML

ASSUME ContentAssumption ==
  /\ \A w \in Words : Lexicon[w] \in Entry
  /\ \A d \in Sites : Site[d] \in SiteEntry
  /\ \A u \in Urls : Link[u] \in LinkEntry
  /\ Watchlist \subseteq Sites /\ VIPs \subseteq STRING
  /\ \A m \in Contents : m \in Content /\ IsFiniteSet(m.links)
  /\ IsFiniteSet(Words)
  /\ Decoder \in BOOLEAN /\ MaxBegun \in Nat /\ MaxRestarts \in Nat

Pairs == {<<m.from, m.to>> : m \in Contents}

VARIABLES pairs,     \* RelationshipGraphStore: messages per sender and recipient
          work,      \* the analyses: what analyze_content has in hand
          begun,     \* messages of this process
          restarts,
          met        \* how often each pair was met for the first time

contentvars == <<pairs, work, begun, restarts, met>>

Idle == [stage |-> "idle"]

ContentTypeOK ==
  /\ pairs \in [Pairs -> 0..MaxBegun] /\ met \in [Pairs -> Nat]
  /\ \A s \in Slots : work[s] # Idle =>
       /\ work[s].stage \in {"links", "done"} /\ work[s].m \in Contents
       /\ work[s].left \in Seq(Urls) /\ work[s].points \in Nat
  /\ begun \in 0..MaxBegun /\ restarts \in 0..MaxRestarts

ContentInit ==
  /\ pairs = [p \in Pairs |-> 0] /\ met = [p \in Pairs |-> 0]
  /\ work = [s \in Slots |-> Idle]
  /\ begun = 0 /\ restarts = 0

-----------------------------------------------------------------------------
(* Words.                                                                  *)

Total(S, f(_)) == FoldSet(LAMBDA w, n : n + f(w), 0, S)

(* What is left of words with signs inside: scan_keywords strips zero-     *)
(* width signs and embeddings, the others strip nothing.                   *)
Stripped(words, signs) == IF "isolate" \in signs THEN {} ELSE words
Raw(words, signs) == IF signs = {} THEN words ELSE {}

(* scan_keywords: each pattern counts once.                                *)
KeywordPoints(words) == Total(words, LAMBDA w : Lexicon[w].points)

(* detect_language: the script, else the language with most indicators,    *)
(* the first of these.                                                     *)
Hints(words, lang) == Cardinality({w \in words : lang \in Lexicon[w].hints})
Language(words) ==
  LET written(s) == \E w \in words : Lexicon[w].script = s
      best == CHOOSE i \in DOMAIN LatinLangs :
                \A j \in DOMAIN LatinLangs :
                  \/ Hints(words, LatinLangs[j]) < Hints(words, LatinLangs[i])
                  \/ Hints(words, LatinLangs[j]) = Hints(words, LatinLangs[i]) /\ i <= j
  IN IF written("ja") THEN "ja" ELSE IF written("ru") THEN "ru" ELSE IF written("zh") THEN "zh"
     ELSE IF Hints(words, LatinLangs[best]) >= 1 THEN LatinLangs[best] ELSE "en"

(* scan_multilang_keywords: the dictionary of that language alone; there   *)
(* is none of English.                                                     *)
DictionaryPoints(words) ==
  Total({w \in words : Lexicon[w].lang = Language(words) /\ Lexicon[w].lang # "en"},
        LAMBDA w : Lexicon[w].weight)

(* predict_phishing_probability, in tenths: the odds of 0.5 are at 0 and   *)
(* those of 0.7 between 8 and 9.                                           *)
ClassifierPoints(words, links, first) ==
  LET odds == 8 * Cardinality({w \in words : Lexicon[w].urgent})
              + 9 * Cardinality({w \in words : Lexicon[w].money})
              + 12 * Cardinality({w \in words : Lexicon[w].action})
              + (IF links > 0 THEN 10 ELSE 0) + (IF first THEN 8 ELSE 0)
  IN IF words = {} THEN 0 ELSE IF odds >= 35 + 9 THEN 25 ELSE IF odds >= 35 THEN 10 ELSE 0

-----------------------------------------------------------------------------
(* HTML.                                                                   *)

HtmlWords(html) == UNION {html[i].words : i \in {j \in DOMAIN html : html[j].kind = "text"}}

Pop(stack) == IF stack = << >> THEN stack ELSE Front(stack)

(* A deliberate fault: a style is not inherited.                           *)
Parsed_NotInherited(p, t) ==
  CASE t.kind \in {"open", "void"} ->
         [p EXCEPT !.stack = Append(@, t.style), !.failed = @ \/ t.style = "without value"]
    [] t.kind = "close" -> [p EXCEPT !.stack = Pop(@)]
    [] t.kind = "text" ->
         IF p.stack # << >> /\ Last(p.stack) \in Hiding
         THEN [p EXCEPT !.hidden = @ \cup t.words, !.evades = TRUE] ELSE p

(* _HTMLEvasionParser: a stack of the styles of the tags not yet closed,   *)
(* void ones among them; an end tag pops whatever is on top.  A style      *)
(* without a value ends the parse with an exception.                       *)
Parsed(p, t) ==
  CASE t.kind \in {"open", "void"} ->
         [p EXCEPT !.stack = Append(@, t.style), !.failed = @ \/ t.style = "without value"]
    [] t.kind = "close" -> [p EXCEPT !.stack = Pop(@)]
    [] t.kind = "text" ->
         IF Range(p.stack) \cap Hiding # {}
         THEN [p EXCEPT !.hidden = @ \cup t.words, !.evades = TRUE] ELSE p

NothingParsed == [stack |-> << >>, hidden |-> {}, evades |-> FALSE, failed |-> FALSE]

Parse(html) == FoldLeft(Parsed, NothingParsed, html)

(* detect_html_evasion.                                                    *)
Evades(html) == ~Parse(html).failed /\ Parse(html).evades
HiddenWords(html) == IF Evades(html) THEN Parse(html).hidden ELSE {}

-----------------------------------------------------------------------------
(* Links.                                                                  *)

Least(a, b) == IF a <= b THEN a ELSE b

(* _levenshtein: the row of the next letter x of a, cur, from the one      *)
(* before it, prev; the rows of all letters of a, and the last number.     *)
NextRow(prev, x, b) ==
  LET cur[j \in 0..Len(b)] ==
        IF j = 0 THEN prev[0] + 1
        ELSE Least(Least(prev[j] + 1, cur[j - 1] + 1),
                   prev[j - 1] + IF x = b[j] THEN 0 ELSE 1)
  IN cur
Distance(a, b) ==
  LET row[i \in 0..Len(a)] ==
        IF i = 0 THEN [j \in 0..Len(b) |-> j] ELSE NextRow(row[i - 1], a[i], b)
  IN row[Len(a)][Len(b)]

(* find_typosquat_target.                                                  *)
Typosquats(d) ==
  \E w \in Watchlist \ {d} :
    \/ w \in Site[d].within
    \/ Site[d].label # Site[w].label /\ Distance(Site[d].label, Site[w].label) <= 2

(* check_visual_brand_impersonation.                                       *)
Impersonates(m, u) == (m.brands \cup Link[u].markers) \ Site[Link[u].domain].brands # {}

(* detect_qr_codes and scan_image_ocr: the URLs of all QR codes (those     *)
(* found without a decoder only once), and all the words.                  *)
ImageUrls(m) ==
  LET all == FlattenSeq([i \in DOMAIN m.images |-> m.images[i].codes])
  IN IF Decoder THEN all ELSE SetToSeq(Range(all))
ImageWords(m) == UNION {m.images[i].words : i \in DOMAIN m.images}

UrlsOf(m) == SetToSeq(m.links) \o ImageUrls(m)

(* The points of one link; a link from an image is never an IP literal.    *)
LinkPoints(m, u, fromImage, young, verdict) ==
  (IF Link[u].ip /\ ~fromImage THEN 15 ELSE 0)
  + (IF Site[Link[u].domain].idn THEN 35 ELSE 0)
  + (IF Typosquats(Link[u].domain) THEN 20 ELSE 0)
  + (IF Impersonates(m, u) THEN 30 ELSE 0)
  + (IF young THEN 15 ELSE 0)
  + (CASE verdict = "malicious" -> 100 [] verdict = "suspicious" -> 40 [] OTHER -> 0)

-----------------------------------------------------------------------------
(* analyze_content.                                                        *)

PlainWords(m) == IF m.text # {} THEN m.text ELSE HtmlWords(m.html)
Pair(m) == <<m.from, m.to>>
MeetsFirst(m) == m.to # "" /\ pairs[Pair(m)] = 0

(* check_display_name_spoofing looks at the name alone.                    *)
SenderPoints(m) ==
  (IF m.from.name \in VIPs THEN 40 ELSE 0)
  + (IF m.replyTo \notin {"", m.from.domain} THEN 25 ELSE 0)

(* detect_rtl_override and the body's zero-width signs.                    *)
SignPoints(m) ==
  (CASE m.files -> 45 [] m.signs \cap {"embedding", "isolate"} # {} -> 20 [] OTHER -> 0)
  + (IF m.signs \cap {"zero-width", "embedding"} # {} THEN 15 ELSE 0)

WithBonus(points, bonus) == IF points > 0 THEN points + bonus ELSE 0

HtmlPoints(m) ==
  IF Evades(m.html)
  THEN 25 + WithBonus(KeywordPoints(Stripped(HiddenWords(m.html), m.signs)), 15)
  ELSE 0

ImagePoints(m) ==
  (IF ImageUrls(m) # << >> THEN 30 ELSE 0) + WithBonus(KeywordPoints(ImageWords(m)), 20)

(* detect_thread_hijacking_and_relationship.                               *)
RelationPoints(m) ==
  IF m.to = "" THEN 0
  ELSE IF m.reply /\ \E w \in Raw(PlainWords(m), m.signs) : Lexicon[w].change THEN 40
  ELSE IF MeetsFirst(m) THEN 10 ELSE 0

(* Up to the first link, without waiting: the pair is recorded.            *)
Analyze(s, m) ==
  /\ begun < MaxBegun /\ work[s].stage # "links"
  /\ begun' = begun + 1
  /\ work' = [work EXCEPT ![s] =
       [ stage |-> "links", m |-> m, left |-> UrlsOf(m), verdicts |-> << >>,
         first |-> MeetsFirst(m), evades |-> Evades(m.html),
         points |-> KeywordPoints(Stripped(PlainWords(m), m.signs))
                    + DictionaryPoints(Raw(PlainWords(m), m.signs))
                    + SenderPoints(m) + SignPoints(m) + HtmlPoints(m) + ImagePoints(m)
                    + RelationPoints(m) ]]
  /\ met' = IF MeetsFirst(m) THEN [met EXCEPT ![Pair(m)] = @ + 1] ELSE met
  /\ pairs' = IF m.to = "" THEN pairs ELSE [pairs EXCEPT ![Pair(m)] = @ + 1]
  /\ UNCHANGED restarts

(* The domain's age and the link's verdict come in.                        *)
LinkAnswered(s) ==
  /\ work[s].stage = "links" /\ work[s].left # << >>
  /\ \E young \in BOOLEAN, verdict \in {"malicious", "suspicious", "clean", "unknown"} :
       work' = [work EXCEPT
         ![s].left = Tail(@),
         ![s].verdicts = Append(@, verdict),
         ![s].points = @ + LinkPoints(work[s].m, Head(work[s].left),
                             Len(work[s].left) <= Len(ImageUrls(work[s].m)), young, verdict)]
  /\ UNCHANGED <<pairs, begun, restarts, met>>

(* The classifier, and the verdict.                                        *)
Finish(s) ==
  /\ work[s].stage = "links" /\ work[s].left = << >>
  /\ work' = [work EXCEPT
       ![s].stage = "done",
       ![s].points = @ + ClassifierPoints(Raw(PlainWords(work[s].m), work[s].m.signs),
                                          Len(UrlsOf(work[s].m)), work[s].first)]
  /\ UNCHANGED <<pairs, begun, restarts, met>>

(* The store of pairs is in memory only.                                   *)
Restart ==
  /\ restarts < MaxRestarts /\ restarts' = restarts + 1
  /\ work' = [s \in Slots |-> Idle]
  /\ pairs' = [p \in Pairs |-> 0] /\ met' = [p \in Pairs |-> 0]
  /\ begun' = 0

ContentNext ==
  \/ Restart
  \/ \E s \in Slots : LinkAnswered(s) \/ Finish(s) \/ \E m \in Contents : Analyze(s, m)

ContentSpec == ContentInit /\ [][ContentNext]_contentvars

-----------------------------------------------------------------------------
(* Tags before the end of a part of an HTML body.                          *)
OpenedIn(html, i, j) == Cardinality({k \in i..j : html[k].kind = "open"})
ClosedIn(html, i, j) == Cardinality({k \in i..j : html[k].kind = "close"})

(* Every end tag ends an element, and there is nothing the parser takes    *)
(* for an element that is none.                                            *)
Tidy(html) ==
  /\ \A i \in DOMAIN html : ClosedIn(html, 1, i) <= OpenedIn(html, 1, i)
  /\ \A i \in DOMAIN html :
       /\ html[i].kind # "void"
       /\ html[i].kind = "open" => html[i].style # "without value"

(* The texts in an element that a style hides: no end tag up to the text   *)
(* is the element's own.                                                   *)
Covered(html) ==
  {i \in DOMAIN html :
     /\ html[i].kind = "text"
     /\ \E j \in 1..(i - 1) :
          /\ html[j].kind = "open" /\ html[j].style \in Hiding
          /\ \A k \in (j + 1)..i : ClosedIn(html, j + 1, k) <= OpenedIn(html, j + 1, k)}

(* In a tidy body exactly the text that lies in a hiding element, however  *)
(* deep, counts as hidden, and the words in it are paid for.               *)
HiddenTextIsCharged ==
  \A s \in Slots : work[s].stage = "done" /\ Tidy(work[s].m.html) =>
    LET m == work[s].m
        words == UNION {m.html[i].words : i \in Covered(m.html)}
    IN /\ work[s].evades <=> Covered(m.html) # {}
       /\ work[s].evades =>
            work[s].points >= 25 + WithBonus(KeywordPoints(Stripped(words, m.signs)), 15)

(* Every link of a message, from its text, its HTML or its images, has     *)
(* been looked up by the end, and what the lookups said is paid for.       *)
NoLinkEscapes ==
  \A s \in Slots : work[s].stage = "done" =>
    LET said(v) == Cardinality({i \in DOMAIN work[s].verdicts : work[s].verdicts[i] = v})
    IN /\ Len(work[s].verdicts) = Cardinality(work[s].m.links) + Len(ImageUrls(work[s].m))
       /\ work[s].points >= 100 * said("malicious") + 40 * said("suspicious")

(* Of the messages between a sender and a recipient, also of those that    *)
(* are analysed at the same time, one and only one is the first.           *)
PairsMeetOnce == \A p \in Pairs : met[p] = IF pairs[p] > 0 THEN 1 ELSE 0

(* What is hidden, linked or new in a message is in its score.             *)
ContentIsAccounted == HiddenTextIsCharged /\ NoLinkEscapes /\ PairsMeetOnce
=============================================================================
