------------------------------ MODULE MCServices ------------------------------
(* The services that keep no promise about the end of things, side by side: a *)
(* behaviour is one of them, chosen at the start, or a question of MCTriage.  *)
(* Every component that is not chosen stays as it begins.                     *)
EXTENDS MCTriage, Requests, Operations

CONSTANTS
  Parts,   \* the components that are explored; "triage" asks MCTriage's questions
  one, two, three   \* whatever there is more than one of

VARIABLE part

MCEcoOf == "lock" :> "npm" @@ "package" :> "npm" @@ "go.mod" :> "Go"
MCFile == DOMAIN MCEcoOf
MCPathOf == [f \in MCFile |-> f]
MCMirrored == << "npm", "go" >>
MCEcosystemOf(p) == IF p = "n1" THEN "npm" ELSE "go"

\* Two browsers, pipelines, requests, findings or advisories are alike.
ServicesSymmetry == Permutations({one, two})

ASSUME A!AccountsAssumption /\ P!ProjectsAssumption /\ S!SettingsAssumption
       /\ C!CliAuthAssumption /\ W!WebScanAssumption /\ D!MirrorAssumption /\ F!FeedScheduleAssumption
       /\ U!AdministrationAssumption /\ H!ShowcaseAssumption /\ B!BackupsAssumption

\* Where a component begins in more than one way, the one it stays at.
AccountsAtRest == row.secret = 0 /\ \A c \in DOMAIN cookie : cookie[c] = 0
MirrorAtRest == \A a \in DOMAIN osv : osv[a].affected = {}

ServicesInit ==
  /\ part \in Parts
  /\ A!Init /\ (part # "accounts" => AccountsAtRest)
  /\ P!Init /\ S!Init /\ C!Init /\ W!Init /\ F!Init
  /\ D!Init /\ (part # "mirror" => MirrorAtRest)
  /\ IF part = "panel" THEN U!PanelInit ELSE U!BootInit
  /\ H!Init /\ B!Init
  /\ IF part = "triage" THEN Init ELSE question = [kind |-> "none"] /\ Idle

AccountsVars == << row, codes, used, sessions, links, hits, cookie, challenge, job,
                  made, clock, calls, accepted >>
ProjectsVars == << target, manifests, push, runs, pushed >>
SettingsVars == << stored, gone, default, assigned, unset, keys, request, scan >>
CliVars == << asked, tokens, account, poll, decision, answers, polls, uncounted >>
WebScanVars == << status, verdict, web >>
MirrorVars == << osv, records, index, feed, sync, revised, syncs >>
FeedsVars == << up, wait, running, age, excuse, lost >>
AdminVars == << people, errand, boot, holder, password, mailed, raced >>
ShowcaseVars == << company, edit, checked, consent, crossed >>
BackupsVars == << raw, partial, final, script, task, stamps, health, produced >>

TriageSame == UNCHANGED vars
AccountsSame == UNCHANGED AccountsVars
ProjectsSame == UNCHANGED ProjectsVars
SettingsSame == UNCHANGED SettingsVars
CliSame == UNCHANGED CliVars
WebScanSame == UNCHANGED WebScanVars
MirrorSame == UNCHANGED MirrorVars
FeedsSame == UNCHANGED FeedsVars
AdminSame == UNCHANGED AdminVars
ShowcaseSame == UNCHANGED ShowcaseVars
BackupsSame == UNCHANGED BackupsVars
OperationSame == AdminSame /\ ShowcaseSame /\ BackupsSame

TriageStep ==
  /\ part = "triage" /\ Next /\ UNCHANGED part
  /\ AccountsSame /\ ProjectsSame /\ SettingsSame /\ CliSame
  /\ WebScanSame /\ MirrorSame /\ FeedsSame /\ OperationSame

AccountsStep ==
  /\ part = "accounts" /\ A!Next /\ UNCHANGED part
  /\ TriageSame /\ ProjectsSame /\ SettingsSame /\ CliSame
  /\ WebScanSame /\ MirrorSame /\ FeedsSame /\ OperationSame

ProjectsStep ==
  /\ part = "projects" /\ P!Next /\ UNCHANGED part
  /\ TriageSame /\ AccountsSame /\ SettingsSame /\ CliSame
  /\ WebScanSame /\ MirrorSame /\ FeedsSame /\ OperationSame

SettingsStep ==
  /\ \/ part = "keys" /\ S!KeysNext
     \/ part = "profiles" /\ S!ProfilesNext
  /\ UNCHANGED part
  /\ TriageSame /\ AccountsSame /\ ProjectsSame /\ CliSame
  /\ WebScanSame /\ MirrorSame /\ FeedsSame /\ OperationSame

CliStep ==
  /\ part = "sign-in" /\ C!Next /\ UNCHANGED part
  /\ TriageSame /\ AccountsSame /\ ProjectsSame /\ SettingsSame
  /\ WebScanSame /\ MirrorSame /\ FeedsSame /\ OperationSame

WebScanStep ==
  /\ part = "web scan" /\ W!Next /\ UNCHANGED part
  /\ TriageSame /\ AccountsSame /\ ProjectsSame /\ SettingsSame
  /\ CliSame /\ MirrorSame /\ FeedsSame /\ OperationSame

MirrorStep ==
  /\ part = "mirror" /\ D!Next /\ UNCHANGED part
  /\ TriageSame /\ AccountsSame /\ ProjectsSame /\ SettingsSame
  /\ CliSame /\ WebScanSame /\ FeedsSame /\ OperationSame

FeedsStep ==
  /\ part = "feeds" /\ F!Next /\ UNCHANGED part
  /\ TriageSame /\ AccountsSame /\ ProjectsSame /\ SettingsSame
  /\ CliSame /\ WebScanSame /\ MirrorSame /\ OperationSame

ServiceSame ==
  /\ TriageSame /\ AccountsSame /\ ProjectsSame /\ SettingsSame
  /\ CliSame /\ WebScanSame /\ MirrorSame /\ FeedsSame

AdminStep ==
  /\ \/ part = "panel" /\ U!PanelNext
     \/ part = "bootstrap" /\ U!BootNext
  /\ UNCHANGED part
  /\ ServiceSame /\ ShowcaseSame /\ BackupsSame

ShowcaseStep ==
  /\ part = "showcase" /\ H!Next /\ UNCHANGED part
  /\ ServiceSame /\ AdminSame /\ BackupsSame

BackupsStep ==
  /\ part = "backups" /\ B!Next /\ UNCHANGED part
  /\ ServiceSame /\ AdminSame /\ ShowcaseSame

ServicesNext ==
  \/ TriageStep \/ AccountsStep \/ ProjectsStep \/ SettingsStep
  \/ CliStep \/ WebScanStep \/ MirrorStep \/ FeedsStep
  \/ AdminStep \/ ShowcaseStep \/ BackupsStep

ServicesVars == << part, vars, AccountsVars, ProjectsVars, SettingsVars,
                   CliVars, WebScanVars, MirrorVars, FeedsVars,
                   AdminVars, ShowcaseVars, BackupsVars >>
ServicesSpec == ServicesInit /\ [][ServicesNext]_ServicesVars

=============================================================================
