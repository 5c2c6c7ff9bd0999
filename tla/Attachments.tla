----------------------------- MODULE Attachments -----------------------------
(***************************************************************************)
(* The analysis of one message's attachments (attachment_analysis/):       *)
(* analyze_attachments opens the archives, keeps a bounded list of files   *)
(* and adds up points for each, with the answers of a hash lookup and of   *)
(* a virus scanner that may fail.  A file is what the detectors look for   *)
(* in it.                                                                  *)
(***************************************************************************)
EXTENDS Naturals, Sequences, FiniteSets, FiniteSetsExt, SequencesExt

CONSTANTS Files,           \* the files that a message or an archive can hold
          World,           \* what is in them: a record for each file
          MaxAttached,     \* the longest message, in attachments
          MaxAttachments,  \* max_attachments: the files that are analysed
          MaxFiles         \* max_files: the files taken out of an archive

ASSUME AttachmentsAssumption ==
  /\ MaxAttached \in Nat /\ MaxAttachments \in Nat /\ MaxFiles \in Nat
  /\ \A f \in Files :
       /\ World[f].exts \in Seq(STRING)        \* the suffixes of its name
       /\ World[f].head \in World[f].holds     \* signature at its start,
       /\ World[f].holds \subseteq STRING      \* signatures anywhere in it
       /\ World[f].marks \subseteq STRING      \* macros, scripts, actions
       /\ World[f].links \in BOOLEAN           \* URLs that the extractor finds
       /\ World[f].big \in BOOLEAN             \* over max_attachment_size_bytes
       /\ World[f].broken \in BOOLEAN          \* an archive that does not open
       /\ World[f].parts \in Seq([file : Files, name : STRING, locked : BOOLEAN])
       /\ World[f].known \in {"clean", "suspicious", "malicious"}
       /\ World[f].virus \in BOOLEAN

VARIABLES attached,  \* the attachments of the message
          opened,    \* how many of them have been looked into
          worklist,  \* expanded_attachments, then work_list
          analysed,  \* how many of these are done
          points,    \* the score so far
          scanned,   \* the files hashed, looked up and scanned
          stage

attvars == <<attached, opened, worklist, analysed, points, scanned, stage>>

AttTypeOK ==
  /\ attached \in Seq(Files) /\ worklist \in Seq(Files)
  /\ opened \in 0..Len(attached) /\ analysed \in 0..Len(worklist)
  /\ points \in Nat /\ scanned \subseteq Files
  /\ stage \in {"open", "analyse", "done"}

AttInit ==
  /\ attached \in UNION {[1..n -> Files] : n \in 0..MaxAttached}
  /\ opened = 0 /\ worklist = << >> /\ analysed = 0
  /\ points = 0 /\ scanned = {} /\ stage = "open"

-----------------------------------------------------------------------------
(* The detectors.                                                          *)

Ext(f) == IF World[f].exts = << >> THEN "" ELSE Last(World[f].exts)

Archives == {".zip", ".tar", ".gz", ".tgz"}

(* inspect_and_extract_archive.  A ZIP lists its members and is read by    *)
(* their names: of several members of one name the last is read each time. *)
(* It is encrypted if a locked one is met before the walk ends, which it   *)
(* does behind max_files members, or at once if the file does not open.    *)
(* Members of members are not opened.                                      *)
IsArchive(f) == Ext(f) \in Archives
IsZip(f) == Ext(f) = ".zip" \/ World[f].head = "zip"
FirstOf(s, n) == SubSeq(s, 1, Min({n, Len(s)}))
Walked(f) == FirstOf(World[f].parts, MaxFiles + 1)
Namesakes(f, i) ==
  IF IsZip(f) THEN {j \in DOMAIN World[f].parts : World[f].parts[j].name = World[f].parts[i].name}
  ELSE {i}
ReadAs(f, i) == World[f].parts[Max(Namesakes(f, i))]
Encrypted(f) ==
  /\ IsArchive(f) /\ IsZip(f) /\ ~World[f].broken
  /\ \E i \in DOMAIN Walked(f) :
       World[f].parts[i].locked \/ (i <= MaxFiles /\ ReadAs(f, i).locked)
Extracted(f) ==
  IF ~IsArchive(f) \/ World[f].broken \/ Encrypted(f)
  THEN << >>
  ELSE [i \in DOMAIN FirstOf(World[f].parts, MaxFiles) |-> ReadAs(f, i).file]

Dangerous == {".exe", ".scr", ".bat", ".js", ".vbs", ".jar", ".lnk"}
IsDangerous(f) == Ext(f) \in Dangerous
IsDouble(f) ==
  LET exts == World[f].exts
  IN IsDangerous(f) /\ Len(exts) > 1 /\ exts[Len(exts) - 1] \notin Dangerous

(* verify_file_magic: an executable under another suffix, or a document or *)
(* picture that starts as one of the others.                               *)
Runs == [PE |-> {".exe", ".dll", ".scr"}, ELF |-> {".elf", ".bin", ".so"}]
Starts == [pdf |-> ".pdf", png |-> ".png", jpg |-> ".jpg", zip |-> ".zip"]
IsSpoofed(f) ==
  LET head == World[f].head
      suffixes == {Starts[s] : s \in DOMAIN Starts}
  IN \/ head \in DOMAIN Runs /\ Ext(f) \notin Runs[head]
     \/ head \in DOMAIN Starts /\ Ext(f) \in suffixes \ {Starts[head]}

(* detect_polyglot_file: two formats' signatures anywhere in the data.     *)
IsPolyglot(f) == Cardinality(World[f].holds \cap {"gif", "zip", "pdf", "png", "PE", "java", "rar"}) > 1

(* inspect_document_attachment, by suffix.                                 *)
OfficeZip == {".docm", ".xlsm", ".pptm", ".docx", ".xlsx", ".zip"}
OfficeBinary == {".doc", ".xls", ".ppt"}
HasMacros(f) ==
  \/ Ext(f) \in OfficeZip /\ "vba" \in World[f].marks
  \/ Ext(f) \in OfficeBinary /\ World[f].marks \cap {"vba", "autoexec"} # {}
IsPDF(f) == Ext(f) = ".pdf" \/ (World[f].head = "pdf" /\ Ext(f) \notin OfficeZip \cup OfficeBinary)

Blocked == {".exe", ".scr", ".bat", ".js", ".vbs", ".jar", ".iso"}

If(b, n) == IF b THEN n ELSE 0

(* evaluate_attachment_policy under the default policy.  Its size cap is   *)
(* the pipeline's own, which a file that gets here keeps.                  *)
PolicyPoints(f) == If(Ext(f) \in Blocked, 50) + If(HasMacros(f), 50)

DocumentPoints(f) ==
  LET pdf == IsPDF(f)
      marks == World[f].marks
  IN IF HasMacros(f) THEN 45
     ELSE If(pdf /\ "javascript" \in marks, 35) + If(pdf /\ "action" \in marks, 40)
          + If(pdf /\ "embedded" \in marks, 30)

StaticPoints(f) ==
  If(IsSpoofed(f), 50)
  + (IF IsDouble(f) THEN 40 ELSE If(IsDangerous(f), 25))
  + If(IsPolyglot(f), 45) + If(World[f].links, 10)
  + DocumentPoints(f) + PolicyPoints(f)

VerdictPoints == [clean |-> 0, unknown |-> 0, suspicious |-> 40, malicious |-> 100]
ScanPoints == [clean |-> 0, not_scanned |-> 0, error |-> 0, infected |-> 100]

-----------------------------------------------------------------------------
(* The first loop: each attachment, and behind it what was extracted.      *)
OpenNext ==
  /\ stage = "open" /\ opened < Len(attached)
  /\ LET f == attached[opened + 1] IN
       /\ worklist' = Append(worklist, f) \o Extracted(f)
       /\ points' = points + If(Encrypted(f), 45)
  /\ opened' = opened + 1
  /\ UNCHANGED <<attached, analysed, scanned, stage>>

(* A deliberate fault: only the message's own attachments are counted.     *)
CutList_OwnOnly ==
  /\ stage = "open" /\ opened = Len(attached)
  /\ worklist' = FirstOf(worklist, MaxAttachments)
  /\ points' = points + If(Len(attached) > MaxAttachments, 10)
  /\ stage' = "analyse"
  /\ UNCHANGED <<attached, opened, analysed, scanned>>

(* The list is cut at max_attachments.                                     *)
CutList ==
  /\ stage = "open" /\ opened = Len(attached)
  /\ worklist' = FirstOf(worklist, MaxAttachments)
  /\ points' = points + If(Len(worklist) > MaxAttachments, 10)
  /\ stage' = "analyse"
  /\ UNCHANGED <<attached, opened, analysed, scanned>>

File == worklist[analysed + 1]
HasNext == stage = "analyse" /\ analysed < Len(worklist)

(* Too large: ten points, and neither hashed nor scanned.                  *)
PassOverBig ==
  /\ HasNext /\ World[File].big
  /\ points' = points + 10
  /\ analysed' = analysed + 1
  /\ UNCHANGED <<attached, opened, worklist, scanned, stage>>

(* The detectors, the hash lookup (its provider knows the file or not, or  *)
(* did not answer) and ClamAV, which fails open.                           *)
AnalyseNext ==
  /\ HasNext /\ ~World[File].big
  /\ \E verdict \in {World[File].known, "unknown"},
        scan \in {IF World[File].virus THEN "infected" ELSE "clean", "error", "not_scanned"} :
       points' = points + StaticPoints(File) + VerdictPoints[verdict] + ScanPoints[scan]
  /\ scanned' = scanned \cup {File}
  /\ analysed' = analysed + 1
  /\ UNCHANGED <<attached, opened, worklist, stage>>

AnalysisEnds ==
  /\ stage = "analyse" /\ analysed = Len(worklist)
  /\ stage' = "done"
  /\ UNCHANGED <<attached, opened, worklist, analysed, points, scanned>>

AttNext == OpenNext \/ CutList \/ PassOverBig \/ AnalyseNext \/ AnalysisEnds

AttSpec == AttInit /\ [][AttNext]_attvars

-----------------------------------------------------------------------------
(* The files of a message that the analysis undertakes to look at: its     *)
(* attachments and the first max_files files of each archive that opens,   *)
(* but no member that a later one of the same name hides.                  *)
Members(f) ==
  {World[f].parts[i].file :
     i \in {j \in DOMAIN FirstOf(World[f].parts, MaxFiles) : Max(Namesakes(f, j)) = j}}
MembersOf(files) == UNION {Members(f) : f \in {g \in files : IsArchive(g) /\ ~World[g].broken}}
Owed == Range(attached) \cup MembersOf(Range(attached))

(* No points means looked at: whatever crowds the list, is too large or is *)
(* locked costs points, so a message whose attachments cost nothing had    *)
(* every one of them, and every file that could be taken out of an archive *)
(* by its name, scanned, and carries no such file whose name, start or     *)
(* macros give it away.                                                    *)
FreeMeansScanned ==
  stage = "done" /\ points = 0 =>
    /\ Owed \subseteq scanned
    /\ \A f \in Owed : ~IsDangerous(f) /\ ~IsSpoofed(f) /\ ~HasMacros(f)
=============================================================================
