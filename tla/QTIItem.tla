------------------------------ MODULE QTIItem ------------------------------
(***************************************************************************)
(* parseQTIXMLFile of internal/service/qti_service.go for one choice       *)
(* question, with the media map that ImportQTIPackage hands to it and      *)
(* BalanceOptionsKey of scoring_service.go: the names of media in the      *)
(* prompt are replaced by URLs, one after the other in the order in which  *)
(* Go ranges over the map, which is arbitrary; then the options are        *)
(* shuffled and labelled anew, and the answer key is translated.           *)
(*                                                                         *)
(* Text is a sequence of tokens, characters or longer pieces that no name  *)
(* splits; a directory with its slash is one token.  A prompt is the       *)
(* sequence of its references to media; the text around them is left out,  *)
(* no name occurs in it or reaches from it into a reference.  The text of  *)
(* the k-th option is k; the new labels A, B, ... are 1, 2 and so on, and  *)
(* the identifiers of a package may be the same letters.                   *)
(* Identifiers contain no commas and no spaces around them; a question is  *)
(* within the limits on the lengths of titles, texts and identifiers that  *)
(* are checked before anything is done with it.                            *)
(*                                                                         *)
(* The finished question is what ScoreItem compares responses with.        *)
(***************************************************************************)
EXTENDS Integers, FiniteSets, SequencesExt

CONSTANTS
    Token,        \* what text consists of
    Dir, Base,    \* directories, and names of files without directory
    Url,          \* the URLs that saveMediaFile may choose from
    Identifier,   \* identifiers of options
    Question,     \* the questions of packages, with the media of the package
    MaxOptions,   \* 26
    MaxKey        \* 128: so many labels with commas fit into 255 characters

Path == Base \cup {<<d>> \o b : d \in Dir, b \in Base}

ASSUME QuestionAssumption ==
    /\ MaxOptions \in Nat /\ MaxKey \in Nat
    /\ Dir \subseteq Token /\ Url \subseteq Seq(Token)
    /\ \A b \in Base : b \in Seq(Token) /\ b # << >> /\ Head(b) \notin Dir
    /\ Question \subseteq
           [files: Seq(Path), refs: Seq(Path), given: Seq(Identifier),
            key: Seq(Identifier), multiple: BOOLEAN]

VARIABLES
    files,      \* names of the media in the order of the archive
    urls,       \* the URL of each of them
    refs,       \* what the author of the prompt refers to
    prompt,     \* the references as they are now
    todo,       \* keys of mediaMap that are still to be replaced
    given,      \* identifiers of the options in the package
    key,        \* CorrectResponse
    multiple,   \* MaxChoices > 1
    shuffled,   \* the options
    left,       \* i of the shuffle: so many options are left to shuffle
    idMap,      \* identifierMap; 0 for no entry
    answer,     \* correctAnswer
    at

input == <<files, urls, refs, given, key, multiple>>
itemVars == <<input, prompt, todo, shuffled, left, idMap, answer, at>>

-----------------------------------------------------------------------------
(* Names and text.                                                         *)

\* filepath.Base
BaseName(p) == IF Head(p) \in Dir THEN Tail(p) ELSE p

\* saveMediaFile stores every file under a new uuid.
SavedAs == {u \in [DOMAIN files -> Url] : IsInjective(u)}

\* The keys of mediaMap.
Names == ToSet(files) \cup {BaseName(p) : p \in ToSet(files)}

\* A later file takes over the name of an earlier one.
UrlOf(name) ==
    urls[Max({k \in DOMAIN files : name \in {files[k], BaseName(files[k])}})]

\* Where the name occurs in a text.
Matches(text, name) ==
    {k \in 1 .. Len(text) - Len(name) + 1 : SubSeq(text, k, k + Len(name) - 1) = name}

Occurs(name, text) == Matches(text, name) # {}

\* The occurrences that are replaced, from left to right and without overlap:
\* each occurrence is one of them or begins within one.
Chosen(text, name) ==
    CHOOSE T \in SUBSET Matches(text, name) :
        \A k \in Matches(text, name) :
            Cardinality(T \cap (k - Len(name) + 1 .. k)) = 1

\* The text with these replaced.
Rewrite(text, name, new) ==
    LET T == Chosen(text, name)
        within(k) == \E j \in T : k \in j + 1 .. j + Len(name) - 1
    IN FlattenSeq([k \in DOMAIN text |->
           CASE k \in T -> new [] within(k) -> << >> [] OTHER -> <<text[k]>>])

\* A reference in which every occurrence of the name is replaced.  The cases in
\* front are cases of Rewrite.
ReplaceIn(ref, name, new) ==
    IF ref = name THEN new
    ELSE IF Occurs(name, ref) THEN Rewrite(ref, name, new)
    ELSE ref

\* Mutant: strings.Replace with a count of one.
ReplaceFirst(text, name, new) ==
    LET changed == {n \in DOMAIN text : ReplaceIn(text[n], name, new) # text[n]} IN
    [n \in DOMAIN text |->
        IF \A m \in changed : n <= m THEN ReplaceIn(text[n], name, new) ELSE text[n]]

\* strings.ReplaceAll
ReplaceEvery(text, name, new) ==
    [n \in DOMAIN text |-> ReplaceIn(text[n], name, new)]

-----------------------------------------------------------------------------

ItemInit ==
    /\ \E q \in Question :
        /\ files = q.files /\ refs = q.refs
        /\ given = q.given /\ key = q.key /\ multiple = q.multiple
    /\ urls \in SavedAs
    /\ prompt = refs
    /\ todo = Names
    /\ shuffled = [n \in DOMAIN given |-> [identifier |-> given[n], text |-> n]]
    /\ left = Len(given)
    /\ idMap = [x \in Identifier |-> 0]
    /\ answer = << >>
    /\ at = "prompt"

\* One turn of the loop over mediaMap.
Replace(name) ==
    /\ at = "prompt" /\ name \in todo
    /\ prompt' = ReplaceEvery(prompt, name, UrlOf(name))
    /\ todo' = todo \ {name}
    /\ UNCHANGED <<input, shuffled, left, idMap, answer, at>>

\* BalanceOptionsKey has as many labels as there are letters.
Balance ==
    /\ at = "prompt" /\ todo = {}
    /\ at' = IF Len(given) > MaxOptions THEN "rejected" ELSE "shuffle"
    /\ UNCHANGED <<input, prompt, todo, shuffled, left, idMap, answer>>

Swap(s, j, k) == [s EXCEPT ![j] = s[k], ![k] = s[j]]

\* One turn of Fisher-Yates, with any random number.
Shuffle ==
    /\ at = "shuffle" /\ left > 1
    /\ \E j \in 1 .. left : shuffled' = Swap(shuffled, left, j)
    /\ left' = left - 1
    /\ UNCHANGED <<input, prompt, todo, idMap, answer, at>>

\* Mutant: the map is built from the options before the shuffle.
LabelBefore(x) ==
    LET places == {k \in DOMAIN given : given[k] = x} IN
    IF places = {} THEN 0 ELSE Max(places)

\* The last option with an identifier decides on its entry.
LabelOf(x) ==
    LET places == {k \in DOMAIN shuffled : shuffled[k].identifier = x} IN
    IF places = {} THEN 0 ELSE Max(places)

Label ==
    /\ at = "shuffle" /\ left <= 1
    /\ idMap' = [x \in Identifier |-> LabelOf(x)]
    /\ shuffled' = [k \in DOMAIN shuffled |-> [identifier |-> k, text |-> shuffled[k].text]]
    /\ at' = "translate"
    /\ UNCHANGED <<input, prompt, todo, left, answer>>

\* An answer that names no option, or too many, rejects the question.
Translate ==
    /\ at = "translate"
    /\ IF Len(key) <= MaxKey /\ \A k \in DOMAIN key : idMap[key[k]] # 0
       THEN answer' = [k \in DOMAIN key |-> idMap[key[k]]] /\ at' = "done"
       ELSE at' = "rejected" /\ UNCHANGED answer
    /\ UNCHANGED <<input, prompt, todo, shuffled, left, idMap>>

ItemNext ==
    (\E name \in Names : Replace(name)) \/ Balance \/ Shuffle \/ Label \/ Translate

ItemSpec == ItemInit /\ [][ItemNext]_itemVars

-----------------------------------------------------------------------------
(* ScoreItem for the finished question.                                    *)

Count(s, x) == Cardinality({k \in DOMAIN s : s[k] = x})

\* Equal after sorting.
SameParts(s, t) == \A x \in ToSet(s) \cup ToSet(t) : Count(s, x) = Count(t, x)

\* A response is a sequence of labels, all of them in lower case or none.
\* Only the comparison for a single choice ignores case.
Scores(response, lower) ==
    /\ response # << >> /\ answer # << >>
    /\ IF multiple THEN SameParts(response, answer) /\ ~lower ELSE response = answer

-----------------------------------------------------------------------------
(* Properties.                                                             *)

\* No other name of the package occurs in the reference, and none in the URL
\* that takes its place.
Separate(ref) ==
    /\ \A name \in Names : name # ref => ~Occurs(name, ref)
    /\ ref \in Names => \A name \in Names : ~Occurs(name, UrlOf(ref))

\* In whatever order the map is ranged over, and whatever becomes of the other
\* references, one that overlaps with no other name becomes the URL of the file
\* it names, each time it occurs, and stays as it is if it names none.
ReferencesRewritten ==
    at = "done" =>
        \A n \in DOMAIN refs : Separate(refs[n]) =>
            prompt[n] = IF refs[n] \in Names THEN UrlOf(refs[n]) ELSE refs[n]

\* The comment on ImportQTIPackage says that relative image paths in a prompt
\* are replaced by server URLs: a reference to a file of the package by its
\* path becomes the URL of that file, at least if no two base names are equal.
PromptRewritten ==
    /\ at = "done"
    /\ ToSet(refs) \subseteq ToSet(files)
    /\ IsInjective([k \in DOMAIN files |-> BaseName(files[k])])
    => \A n \in DOMAIN refs :
           \E k \in DOMAIN files : files[k] = refs[n] /\ prompt[n] = urls[k]

Marked(labels) ==
    {shuffled[k].text : k \in {n \in DOMAIN shuffled : shuffled[n].identifier \in ToSet(labels)}}

Selections == {r \in BoundedSeq(DOMAIN given, Len(given)) : IsInjective(r)}

\* From the package to the grade: an accepted question has a key that names
\* options only, and if its identifiers are distinct, then however its options
\* were shuffled a candidate who marks a set of them, in whatever order, earns
\* the marks exactly if their texts are the ones the package marks as correct.
\* A question for one choice with several keys is left out: its response is
\* compared as a whole, order included.
ScoredAsAuthored ==
    at = "done" =>
        /\ ToSet(key) \subseteq ToSet(given)
        /\ IsInjective(given) /\ IsInjective(key) /\ (multiple \/ Len(key) <= 1) =>
            \A r \in Selections :
                Scores(r, FALSE) <=>
                    r # << >> /\ Marked(r) = {k \in DOMAIN given : given[k] \in ToSet(key)}
=============================================================================
