----------------------------- MODULE MCAnalysis -----------------------------
(***************************************************************************)
(* What is done with a message before it is judged: the intake of a        *)
(* provider's post, SPF, authentication, attachments, content.  Each       *)
(* behaviour runs one of the five; the variables of the others keep one    *)
(* fixed value.                                                            *)
(***************************************************************************)
EXTENDS SPF, Attachments, AuthChecks, ContentChecks, Intake, TLC

CONSTANTS d1, d2, d3, note, exe, dbl, fake, pack, twin, locked, nest, big, macro, broken,
          bank, sub, evil, us, brand, lure, near, s1, s2, t1, t2

(* Zones: d1 may publish any head and tail, d2 and d3 fewer.               *)
Including(q, d) == [mech |-> "include", q |-> q, of |-> d]
All(q) == [mech |-> "all", q |-> q]
RedirectTo(d) == [mech |-> "redirect", of |-> d]
Heads ==
  {<<Including(q, d)>> : q \in {"+", "-"}, d \in {d1, d2, d3}}
  \cup {<<[mech |-> "ip", q |-> "+", hit |-> TRUE]>>,
        <<[mech |-> "name", q |-> "~", hit |-> TRUE]>>,
        <<[mech |-> "name", q |-> "?", hit |-> FALSE]>>,
        <<[mech |-> "mx", q |-> "+", hits |-> <<FALSE, TRUE>>]>>,
        <<[mech |-> "mx", q |-> "-", hits |-> << >>]>>}
ZoneOf(tails) ==
  {[kind |-> "record", terms |-> h \o t] : h \in Heads, t \in tails}
  \cup [kind : {"none", "several"}]
MCZones ==
  {d1 :> a @@ d2 :> b @@ d3 :> c :
     a \in ZoneOf({<< >>, <<All("-")>>, <<RedirectTo(d2)>>, <<RedirectTo(d3)>>}),
     b \in ZoneOf({<< >>, <<All("~")>>}), c \in ZoneOf({<<All("-")>>})}

(* The files, by what differs from a plain text.                           *)
Plain == [exts |-> <<".txt">>, head |-> "text", holds |-> {"text"}, marks |-> {},
          links |-> FALSE, big |-> FALSE, broken |-> FALSE, parts |-> << >>,
          known |-> "clean", virus |-> FALSE]
Packed(parts) ==
  [Plain EXCEPT !.exts = <<".zip">>, !.head = "zip", !.holds = {"zip"}, !.parts = parts]
Member(name, f) == [file |-> f, name |-> name, locked |-> FALSE]
MCWorld ==
  note :> Plain
  @@ exe :> [Plain EXCEPT !.exts = <<".exe">>, !.head = "PE", !.holds = {"PE"}, !.virus = TRUE]
  @@ dbl :> [Plain EXCEPT !.exts = <<".pdf", ".lnk">>, !.known = "suspicious"]
  @@ fake :> [Plain EXCEPT !.exts = <<".pdf">>, !.head = "PE", !.holds = {"PE", "pdf"}]
  @@ pack :> Packed(<<Member("a", note), Member("b", macro), Member("c", exe)>>)
  @@ twin :> Packed(<<Member("a", exe), Member("a", note)>>)
  @@ locked :> Packed(<<Member("a", note), [Member("b", exe) EXCEPT !.locked = TRUE]>>)
  @@ nest :> Packed(<<Member("a", pack), Member("b", note)>>)
  @@ big :> [Plain EXCEPT !.exts = << >>, !.big = TRUE]
  @@ macro :> [Plain EXCEPT !.exts = <<".docm">>, !.head = "zip", !.holds = {"zip"},
                            !.marks = {"vba"}]
  @@ broken :> [Packed(<<Member("a", exe)>>) EXCEPT !.broken = TRUE, !.links = TRUE]

(* The mail: who it says it is from, who it is, and what vouches for it.   *)
MCOrg == bank :> bank @@ sub :> bank @@ evil :> evil
Record(p, mode) == [kind |-> "record", p |-> p, aspf |-> mode, adkim |-> mode]
MCDMARCZones ==
  {bank :> b @@ sub :> s @@ evil :> [kind |-> "none"] :
     b \in {Record("reject", "r"), Record("quarantine", "s"), Record("missing", "r")}
           \cup [kind : {"none", "several", "error"}],
     s \in {[kind |-> "none"], Record("none", "s")}}
Signed(d, ok) == [d |-> d, ok |-> ok]
Letter ==
  [from |-> bank, env |-> bank, spf |-> "pass", parses |-> TRUE, sigs |-> << >>, sha1 |-> FALSE,
   arc |-> [seal |-> FALSE, cvfail |-> FALSE, chain |-> "invalid"], ptr |-> <<TRUE>>, net |-> "n1", listed |-> FALSE]
MCMail ==
  {[Letter EXCEPT !.from = f, !.env = e, !.spf = s, !.sigs = g] :
     f \in {bank, sub, NoName}, e \in {sub, evil, NoName}, s \in {"pass", "fail"},
     g \in {<< >>, <<Signed(evil, TRUE), Signed(bank, TRUE)>>, <<Signed(bank, FALSE), Signed(sub, TRUE)>>}}
  \cup {[Letter EXCEPT !.net = "n2", !.ptr = <<FALSE, FALSE>>, !.listed = TRUE],
        [Letter EXCEPT !.parses = FALSE, !.sigs = <<Signed(bank, TRUE)>>, !.sha1 = TRUE, !.env = evil],
        [Letter EXCEPT !.arc = [seal |-> TRUE, cvfail |-> FALSE, chain |-> "valid"],
                       !.spf = "softfail", !.env = evil],
        [Letter EXCEPT !.arc = [seal |-> TRUE, cvfail |-> TRUE, chain |-> "valid"],
                       !.env = evil],
        [Letter EXCEPT !.arc = [seal |-> TRUE, cvfail |-> FALSE, chain |-> "invalid"],
                       !.spf = "fail", !.env = evil],
        [Letter EXCEPT !.arc = [seal |-> TRUE, cvfail |-> FALSE, chain |-> "ended"],
                       !.spf = "fail", !.env = evil],
        [Letter EXCEPT !.arc = [seal |-> TRUE, cvfail |-> FALSE, chain |-> "raises"],
                       !.spf = "permerror"],
        [Letter EXCEPT !.from = evil, !.net = ""]}

(* The words: of the English patterns, of the dictionaries, of the         *)
(* classifier; some are in two.                                            *)
Word == [points |-> 0, lang |-> "en", weight |-> 0, script |-> "latin", hints |-> {},
         urgent |-> FALSE, money |-> FALSE, action |-> FALSE, change |-> FALSE]
MCLexicon ==
  "hello" :> Word
  @@ "act now" :> [Word EXCEPT !.points = 6]
  @@ "wire" :> [Word EXCEPT !.points = 8, !.money = TRUE]
  @@ "verify" :> [Word EXCEPT !.urgent = TRUE]
  @@ "login" :> [Word EXCEPT !.action = TRUE]
  @@ "iban" :> [Word EXCEPT !.change = TRUE]
  @@ "fattura" :> [Word EXCEPT !.hints = {"it"}]
  @@ "fattura scaduta" :> [Word EXCEPT !.lang = "it", !.weight = 20]
  @@ "cuenta" :> [Word EXCEPT !.hints = {"es"}, !.lang = "es", !.weight = 20]
  @@ "oplata" :> [Word EXCEPT !.script = "ru", !.lang = "ru", !.weight = 20]

MCSite ==
  us :> [label |-> <<"u", "s">>, within |-> {}, brands |-> {}, idn |-> FALSE]
  @@ brand :> [label |-> <<"b", "a", "n", "k">>, within |-> {}, brands |-> {"bank"}, idn |-> FALSE]
  @@ lure :> [label |-> <<"l", "u", "r", "e", "s">>, within |-> {brand}, brands |-> {"bank"}, idn |-> TRUE]
  @@ near :> [label |-> <<"b", "n", "k", "s">>, within |-> {}, brands |-> {}, idn |-> FALSE]
MCLink ==
  "plain" :> [domain |-> us, ip |-> FALSE, markers |-> {}]
  @@ "near" :> [domain |-> near, ip |-> FALSE, markers |-> {"bank"}]
  @@ "lure" :> [domain |-> lure, ip |-> TRUE, markers |-> {}]

(* HTML bodies: those of four tokens from a tag to a text, and some with   *)
(* tags and styles that the parser does not understand.                    *)
Hidden == Open("display:none")
Shown == Open("none")
Lurid == Text({"act now"})
Bodies ==
  {h \in UNION {[1..n -> {Hidden, Shown, Close, Lurid}] : n \in 0..4} :
     h = << >> \/ (h[1] \in {Hidden, Shown} /\ h[Len(h)] = Lurid)}
  \cup {<<Hidden, Void("none"), Close, Lurid>>, <<Shown, Void("opacity:0"), Lurid>>,
        <<Hidden, Lurid, Open("without value")>>, <<Open("off-screen"), Lurid>>,
        <<Open("color:transparent"), Text({"hello"}), Close, Text({"wire"})>>}

Note ==
  [from |-> [name |-> "Ann", domain |-> us], replyTo |-> "", to |-> "", reply |-> FALSE,
   text |-> {"hello"}, html |-> << >>, signs |-> {}, files |-> FALSE, images |-> << >>,
   links |-> {}, brands |-> {}]
Boss == [Note EXCEPT !.from.name = "Boss", !.to = "Bob"]
MCContents ==
  {[Note EXCEPT !.text = {}, !.html = h] : h \in Bodies}
  \cup {[Note EXCEPT !.text = t, !.signs = g, !.html = <<Hidden, Lurid>>] :
          t \in {{"act now", "verify", "login", "wire"}, {"fattura", "fattura scaduta", "cuenta"},
                 {"oplata", "cuenta"}},
          g \in {{}, {"zero-width"}, {"isolate"}}}
  \cup {Boss,
        [Boss EXCEPT !.text = {"iban", "verify", "login", "wire"}, !.reply = TRUE, !.replyTo = near],
        [Boss EXCEPT !.links = {"near"}, !.html = <<Lurid>>],
        [Note EXCEPT !.links = {"lure"}, !.brands = {"bank"}, !.files = TRUE,
                     !.images = <<[codes |-> <<"lure", "lure">>, words |-> {"act now"}],
                                  [codes |-> << >>, words |-> {"hello"}]>>]}

(* The posts: every provider's, with and without the MIME source, some     *)
(* with nothing else, about mails some of which differ in one part only;   *)
(* and posts that are refused or bring none.                               *)
MCPart ==
  "both" :> [headers |-> "h", text |-> "t", html |-> "a", bounce |-> FALSE]
  @@ "html" :> [headers |-> "h", text |-> "", html |-> "a", bounce |-> FALSE]
  @@ "other" :> [headers |-> "h", text |-> "", html |-> "b", bounce |-> FALSE]
  @@ "bounce" :> [headers |-> "h", text |-> "t", html |-> "", bounce |-> TRUE]
APost ==
  [by |-> "sendgrid", secret |-> TRUE, source |-> TRUE, big |-> FALSE, token |-> FALSE,
   body |-> "good", kind |-> "Notification", proof |-> "ok", mails |-> <<"both">>,
   raw |-> TRUE, fields |-> TRUE]
MCPosts ==
  {[APost EXCEPT !.by = b, !.raw = r] : b \in Providers, r \in BOOLEAN}
  \cup {[APost EXCEPT !.by = b, !.fields = FALSE] : b \in {"sendgrid", "mailgun", "m365"}}
  \cup {[APost EXCEPT !.by = b, !.raw = (b = "postmark"), !.mails = <<m>>] :
          b \in {"sendgrid", "postmark", "m365"}, m \in {"html", "other"}}
  \cup {[APost EXCEPT !.by = b, !.mails = << >>] : b \in {"google", "m365"}}
  \cup {[APost EXCEPT !.by = b, !.body = "empty"] : b \in {"ses", "postmark"}}
  \cup {[APost EXCEPT !.secret = FALSE], [APost EXCEPT !.big = TRUE],
        [APost EXCEPT !.by = "postmark", !.source = FALSE],
        [APost EXCEPT !.by = "postmark", !.body = "odd"],
        [APost EXCEPT !.by = "google", !.body = "unreadable"],
        [APost EXCEPT !.by = "mailgun", !.proof = "bad"],
        [APost EXCEPT !.by = "mailgun", !.mails = <<"bounce">>],
        [APost EXCEPT !.by = "ses", !.kind = "SubscriptionConfirmation", !.mails = << >>],
        [APost EXCEPT !.by = "ses", !.kind = "other"], [APost EXCEPT !.by = "ses", !.proof = "bad"],
        [APost EXCEPT !.by = "m365", !.token = TRUE, !.mails = << >>],
        [APost EXCEPT !.by = "m365", !.mails = <<"both", "other">>]}

Alike == Permutations({s1, s2}) \cup Permutations({t1, t2})

VARIABLE part

SomeZone == zone = CHOOSE z \in Zones : TRUE
NoAttachment == attached = << >>
SomeRecords == dmarc = CHOOSE z \in DMARCZones : TRUE

Init ==
  /\ \/ part = "spf"         /\ NoAttachment /\ SomeRecords
     \/ part = "attachments" /\ SomeZone /\ SomeRecords
     \/ part = "auth"        /\ SomeZone /\ NoAttachment
     \/ part = "content"     /\ SomeZone /\ NoAttachment /\ SomeRecords
     \/ part = "intake"      /\ SomeZone /\ NoAttachment /\ SomeRecords
  /\ SPFInit /\ AttInit /\ AuthInit /\ ContentInit /\ IntakeInit

Next ==
  /\ UNCHANGED part
  /\ \/ part = "spf"         /\ SPFNext /\ UNCHANGED <<attvars, authvars, contentvars, intakevars>>
     \/ part = "attachments" /\ AttNext /\ UNCHANGED <<spfvars, authvars, contentvars, intakevars>>
     \/ part = "auth"        /\ AuthNext /\ UNCHANGED <<spfvars, attvars, contentvars, intakevars>>
     \/ part = "content"     /\ ContentNext /\ UNCHANGED <<spfvars, attvars, authvars, intakevars>>
     \/ part = "intake"      /\ IntakeNext /\ UNCHANGED <<spfvars, attvars, authvars, contentvars>>

Spec == Init /\ [][Next]_<<part, spfvars, attvars, authvars, contentvars, intakevars>>
=============================================================================
