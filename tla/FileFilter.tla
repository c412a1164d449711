----------------------------- MODULE FileFilter -----------------------------
(***************************************************************************)
(* The file kinds a tab shows: the categories and the user's edits of them  *)
(* (fileCategories.ts, fileCategoryEdit.ts, useFileCategoryStore.ts and     *)
(* FileCategorySettings.tsx, kept over a restart), the filter of a tab      *)
(* (FileFilterMenu.tsx, useFileFilter.ts), what is left of a folder          *)
(* (entryList.ts), and what an empty view offers (ExplorerStates.tsx).      *)
(*                                                                         *)
(* A name is the sequence of its parts between dots, in lower case; an      *)
(* extension too, so that `tar.gz' has two.                                 *)
(***************************************************************************)
EXTENDS Naturals, Sequences, FiniteSets, SequencesExt, FiniteSetsExt

CONSTANTS MaxFilterSteps,   \* bound: what the user does
          CustomKinds       \* ids of categories that may be added

ASSUME FilterAssumption == MaxFilterSteps \in Nat /\ CustomKinds \subseteq Nat /\ 0 \notin CustomKinds

VARIABLES
  ffEdits,    \* overrides.defaults: [added, removed, hidden] of each default category
  ffCustom,   \* overrides.custom: the extensions of each, by id
  ffFilter,   \* the tab's filter: [categories, extensions, noExtension]
  ffQuery,    \* the text searched in names, as a part of one; <<>> none
  ffMeant,    \* auxiliary: what the user makes of each category
  ffSteps

filterVars == <<ffEdits, ffCustom, ffFilter, ffQuery, ffMeant, ffSteps>>

Jpg == <<"jpg">>   Gz == <<"gz">>   TarGz == <<"tar", "gz">>
Extensions == {Jpg, Gz, TarGz}
Images == 101   Archives == 102     \* DEFAULT_CATEGORIES
BaseOf(c) == IF c = Images THEN {Jpg} ELSE {Gz}
Defaults == {Images, Archives}
Folder == {<<"a", "jpg">>, <<"a", "gz">>, <<"b", "tar", "gz">>, <<"", "tar", "gz">>, <<"", "gz">>, <<"b">>, <<"a", "">>}

(* NO_EDIT, EMPTY_FILTER                                                    *)
NoEdit == [added |-> {}, removed |-> {}, hidden |-> FALSE]
EmptyFilter == [categories |-> {}, extensions |-> {}, noExtension |-> FALSE]

(* resolveCategories(): the code's list without what was removed, with what *)
(* was added; then the user's own.                                         *)
Resolved(c) == IF c \in Defaults THEN (BaseOf(c) \ ffEdits[c].removed) \union ffEdits[c].added
               ELSE ffCustom[c]
AllKinds == Defaults \union DOMAIN ffCustom
VisibleKinds == {c \in AllKinds : c \in Defaults => ~ffEdits[c].hidden}

(* extensionOf(): after the last dot, unless it begins or ends the name.    *)
ExtensionOf(name) ==
  IF Len(name) = 1 \/ Last(name) = "" \/ (Len(name) = 2 /\ name[1] = "") THEN <<>> ELSE <<Last(name)>>

(* compile(): a compound one is a suffix with something before its dot.     *)
Suffixed(name, ext) ==
  /\ Len(ext) > 1 /\ Len(name) > Len(ext)
  /\ SubSeq(name, Len(name) - Len(ext) + 1, Len(name)) = ext
  /\ ~(Len(name) = Len(ext) + 1 /\ name[1] = "")
Matches(name, exts, noExtension) ==
  \/ noExtension /\ ExtensionOf(name) = <<>>
  \/ ExtensionOf(name) \in exts
  \/ \E ext \in exts : Suffixed(name, ext)

(* createMatcher(): categories that are gone or hidden do not count; with   *)
(* nothing left to match there is no filter.                                *)
ActiveKinds == ffFilter.categories \intersect VisibleKinds
Effective == ffFilter.extensions \union UNION {Resolved(c) : c \in ActiveKinds}
Filtering == Effective # {} \/ ffFilter.noExtension
Passes(name) == ~Filtering \/ Matches(name, Effective, ffFilter.noExtension)

(* filterEntries(): the search first, then the kinds.                       *)
SearchHits == {n \in Folder : ffQuery = <<>> \/ ffQuery[1] \in ToSet(n)}
VisibleNames == {n \in SearchHits : Passes(n)}
CountOf(c) == Cardinality({n \in Folder : Matches(n, Resolved(c), FALSE)})

UserActs == ffSteps < MaxFilterSteps /\ ffSteps' = ffSteps + 1

-----------------------------------------------------------------------------
(* Settings.                                                               *)
Edit(c, f) == ffEdits' = [ffEdits EXCEPT ![c] = f]

(* addExtension(): of a default category, what was removed comes back.      *)
Adding(e, ext) == IF ext \in e.removed THEN [e EXCEPT !.removed = @ \ {ext}]
                  ELSE [e EXCEPT !.added = @ \union {ext}]
Removing(c, e, ext) ==
  [e EXCEPT !.added = @ \ {ext}, !.removed = IF ext \in BaseOf(c) THEN @ \union {ext} ELSE @]

AddExtension(c, ext) ==
  /\ UserActs
  /\ IF ext \in Resolved(c) THEN UNCHANGED <<ffEdits, ffCustom>>
     ELSE IF c \in Defaults THEN Edit(c, Adding(ffEdits[c], ext)) /\ UNCHANGED ffCustom
     ELSE ffCustom' = [ffCustom EXCEPT ![c] = @ \union {ext}] /\ UNCHANGED ffEdits
  /\ ffMeant' = [ffMeant EXCEPT ![c] = @ \union {ext}]
  /\ UNCHANGED <<ffFilter, ffQuery>>

RemoveExtension(c, ext) ==
  /\ UserActs /\ ext \in Resolved(c)
  /\ IF c \in Defaults THEN Edit(c, Removing(c, ffEdits[c], ext)) /\ UNCHANGED ffCustom
     ELSE ffCustom' = [ffCustom EXCEPT ![c] = @ \ {ext}] /\ UNCHANGED ffEdits
  /\ ffMeant' = [ffMeant EXCEPT ![c] = @ \ {ext}]
  /\ UNCHANGED <<ffFilter, ffQuery>>

SetHidden(c, hidden) ==
  /\ UserActs /\ c \in Defaults
  /\ Edit(c, [ffEdits[c] EXCEPT !.hidden = hidden])
  /\ UNCHANGED <<ffCustom, ffFilter, ffQuery, ffMeant>>

(* restoreCategory() of one, restoreAllDefaults(), and the reset of all     *)
(* settings, which drops the user's own too.                                *)
Restore(cs) ==
  /\ UserActs
  /\ ffEdits' = [c \in Defaults |-> IF c \in cs THEN NoEdit ELSE ffEdits[c]]
  /\ ffMeant' = [c \in DOMAIN ffMeant |-> IF c \in cs THEN BaseOf(c) ELSE ffMeant[c]]
  /\ UNCHANGED <<ffCustom, ffFilter, ffQuery>>

ResetAll ==
  /\ UserActs
  /\ ffEdits' = [c \in Defaults |-> NoEdit] /\ ffCustom' = <<>>
  /\ ffMeant' = [c \in Defaults |-> BaseOf(c)]
  /\ UNCHANGED <<ffFilter, ffQuery>>

AddCustom(c) ==
  /\ UserActs /\ c \in CustomKinds \ DOMAIN ffCustom /\ c \notin ffFilter.categories   \* ids are not used again
  /\ ffCustom' = [k \in DOMAIN ffCustom \union {c} |-> IF k = c THEN {} ELSE ffCustom[k]]
  /\ ffMeant' = [k \in DOMAIN ffMeant \union {c} |-> IF k = c THEN {} ELSE ffMeant[k]]
  /\ UNCHANGED <<ffEdits, ffFilter, ffQuery>>

DeleteCustom(c) ==
  /\ UserActs /\ c \in DOMAIN ffCustom
  /\ ffCustom' = [k \in DOMAIN ffCustom \ {c} |-> ffCustom[k]]
  /\ ffMeant' = [k \in DOMAIN ffMeant \ {c} |-> ffMeant[k]]
  /\ UNCHANGED <<ffEdits, ffFilter, ffQuery>>

(* The app starts again: the overrides are read back (sanitizeOverrides()), *)
(* filters and searches are those of new tabs.                              *)
Restart ==
  /\ UserActs
  /\ ffFilter' = EmptyFilter /\ ffQuery' = <<>>
  /\ UNCHANGED <<ffEdits, ffCustom, ffMeant>>

-----------------------------------------------------------------------------
(* The menu of the tab, the find box, and the buttons of an empty view.     *)
Flipped(S, x) == IF x \in S THEN S \ {x} ELSE S \union {x}

(* The rows the menu has: visible categories, the folder's extensions, those *)
(* of the filter that are not in it (orphanExtensions()), and none at all.   *)
FolderExtensions == {ExtensionOf(n) : n \in Folder} \ {<<>>}
Orphans == ffFilter.extensions \ FolderExtensions
NoExtensionRow == ffFilter.noExtension \/ \E n \in Folder : ExtensionOf(n) = <<>>

FilterChosen(f) ==
  /\ UserActs /\ ffFilter' = f
  /\ UNCHANGED <<ffEdits, ffCustom, ffQuery, ffMeant>>

MenuUsed ==
  \/ \E c \in VisibleKinds : FilterChosen([ffFilter EXCEPT !.categories = Flipped(@, c)])
  \/ \E ext \in FolderExtensions : FilterChosen([ffFilter EXCEPT !.extensions = Flipped(@, ext)])
  \/ \E ext \in Orphans : FilterChosen([ffFilter EXCEPT !.extensions = @ \ {ext}])
  \/ \E exts \in SUBSET Extensions :                              \* typed or pasted
       exts # {} /\ FilterChosen([ffFilter EXCEPT !.extensions = @ \union exts])
  \/ NoExtensionRow /\ FilterChosen([ffFilter EXCEPT !.noExtension = ~@])
  \/ ffFilter # EmptyFilter /\ FilterChosen(EmptyFilter)

FindTyped ==
  /\ UserActs
  /\ \E q \in {<<>>, <<"a">>, <<"jpg">>, <<"zzz">>} : ffQuery' = q
  /\ UNCHANGED <<ffEdits, ffCustom, ffFilter, ffMeant>>

(* EmptyPanel: what hides something that the find box lets through is the   *)
(* filter; else it is the find box.                                        *)
PanelOffers == IF SearchHits \ VisibleNames # {} THEN "filter"
               ELSE IF SearchHits # Folder THEN "query" ELSE "nothing"

FilterInit ==
  /\ ffEdits = [c \in Defaults |-> NoEdit] /\ ffCustom = <<>>
  /\ ffFilter = EmptyFilter /\ ffQuery = <<>>
  /\ ffMeant = [c \in Defaults |-> BaseOf(c)]
  /\ ffSteps = 0

FilterNext ==
  \/ \E c \in AllKinds, ext \in Extensions : AddExtension(c, ext) \/ RemoveExtension(c, ext)
  \/ \E c \in Defaults, hidden \in BOOLEAN : SetHidden(c, hidden)
  \/ \E cs \in {{Images}, {Archives}, Defaults} : Restore(cs)
  \/ \E c \in CustomKinds : AddCustom(c) \/ DeleteCustom(c)
  \/ ResetAll \/ Restart \/ MenuUsed \/ FindTyped

FilterSpec == FilterInit /\ [][FilterNext]_filterVars

-----------------------------------------------------------------------------
FilterTypeOK ==
  /\ DOMAIN ffEdits = Defaults /\ DOMAIN ffCustom \subseteq CustomKinds
  /\ ffFilter.extensions \subseteq Extensions /\ DOMAIN ffMeant = AllKinds

(* However often it is edited, hidden and restored, a category is what the  *)
(* user made of it, and what is stored is only the difference.              *)
KindsAreMeant ==
  /\ \A c \in AllKinds : Resolved(c) = ffMeant[c]
  /\ \A c \in Defaults : /\ ffEdits[c].added \intersect BaseOf(c) = {}
                         /\ ffEdits[c].removed \subseteq BaseOf(c)

(* The count beside a category is what choosing it alone shows.             *)
CountsAgree ==
  \A c \in VisibleKinds :
    (ffFilter = [EmptyFilter EXCEPT !.categories = {c}] /\ Resolved(c) # {} /\ ffQuery = <<>>)
      => Cardinality(VisibleNames) = CountOf(c)

(* Nothing filters that the menu has no row to switch off, though the       *)
(* categories in it may have been deleted, hidden, or emptied.              *)
RowForEach ==
  Filtering => \/ ActiveKinds # {}
               \/ ffFilter.extensions # {}
               \/ ffFilter.noExtension /\ NoExtensionRow

(* What an empty view offers leads out of it, in two steps at most.         *)
PanelLeadsOut ==
  VisibleNames = {} =>
    CASE PanelOffers = "filter" -> SearchHits # {}
      [] PanelOffers = "query"  -> Folder # {}
      [] OTHER -> Folder = {}

FilterSafe == FilterTypeOK /\ KindsAreMeant /\ CountsAgree /\ RowForEach /\ PanelLeadsOut

(* The badge counts a category without extensions, though it filters        *)
(* nothing: seen in the code, and so not among the above.                   *)
BadgeIsFilter == Filtering <=> Cardinality(ActiveKinds) + Cardinality(ffFilter.extensions) > 0 \/ ffFilter.noExtension
=============================================================================
