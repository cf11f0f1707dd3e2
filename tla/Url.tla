-------------------------------- MODULE Url --------------------------------
(***************************************************************************)
(* From an href or a submitted seed to the key in seen:urls: extractLinks  *)
(* and normalizeLink (parser/parser.go), NormalizeURL and NewURL           *)
(* (models/url.go), and IsSeen, which normalises once more.                *)
(*                                                                         *)
(* A URL is a record of what these tell apart.  A path is the sequence of  *)
(* its segments, <<>> if there is none, <<"">> for "/", and <<"a", "">> for *)
(* "/a/"; of strings only what the code compares them with is kept.        *)
(***************************************************************************)
EXTENDS Naturals, SequencesExt

CONSTANTS
    Inputs,     \* lists of hrefs, or of the URLs of a seed request
    Bases,      \* the URLs that pages were fetched from
    Stripped,   \* the keys of tracking and session parameters
    Empty       \* the string ""

\* What follows "//": host, port or credentials.
HasAuthority(u) == u.name # Empty \/ u.port # Empty \/ u.user

\* The fields: scheme and name ("" in a relative reference), upper (they have
\* capitals), user, port, path, rooted (it starts with "/"), query (a sequence of
\* pairs <<key, value>> of numbers, for their order), lone (a "?" without a
\* query), frag.
URL == {u \in [scheme : STRING, upper : BOOLEAN, user : BOOLEAN, name : STRING,
               port : STRING, rooted : BOOLEAN, path : Seq(STRING),
               query : Seq(Nat \X Nat), lone : BOOLEAN, frag : BOOLEAN] :
           HasAuthority(u) => u.rooted}
ASSUME UrlAssumption ==
    /\ Inputs \subseteq Seq(URL) /\ Bases \subseteq URL
    /\ {Empty, "https"} \subseteq STRING
    /\ Empty \notin {".", "..", "http", "https", "80", "443"}

Rejected == [scheme |-> "rejected"]

VARIABLES
    from,    \* "page" or "seeds"
    base, given,
    stage,   \* "parse", "new", "seen", "done"
    rest,    \* what is still to do in this stage
    found,   \* what the stage yielded
    keys     \* what IsSeen asks seen:urls for
urlVars == <<from, base, given, stage, rest, found, keys>>

-----------------------------------------------------------------------------
(* Paths *)

\* Mutant: ".." at the top is kept.
DotStepAtTop(stack, seg) ==
    CASE seg = "."  -> stack
      [] seg = ".." -> IF Last(stack) # Empty THEN Front(stack) ELSE Append(stack, seg)
      [] OTHER      -> Append(stack, seg)

\* An empty segment is never popped, the one before the leading "/" included.
DotStep(stack, seg) ==
    CASE seg = "."  -> stack
      [] seg = ".." -> IF Last(stack) # Empty THEN Front(stack) ELSE stack
      [] OTHER      -> Append(stack, seg)

\* The stack before the first segment, and after each one.
DotStacks(path) ==
    LET stack[n \in 0..Len(path)] ==
          IF n = 0 THEN <<Empty>> ELSE DotStep(stack[n - 1], path[n])
    IN  stack

ResolveDotSegments(path) ==
    LET stack == DotStacks(path)[Len(path)]
    IN  IF stack = <<Empty>> THEN <<Empty>> ELSE Tail(stack)

\* What is left of each beginning of a sequence without the elements of a set.
Prunings(seq, out) ==
    LET kept[n \in 0..Len(seq)] ==
          IF n = 0 THEN <<>>
          ELSE IF seq[n] \in out THEN kept[n - 1] ELSE Append(kept[n - 1], seq[n])
    IN  kept
Without(seq, out) == Prunings(seq, out)[Len(seq)]

CollapseSlashes(path) ==
    Without(path, {Empty}) \o IF Last(path) = Empty THEN <<Empty>> ELSE <<>>

\* Mutant: in the other order.
TrimFirst(path) ==
    IF path = <<>> THEN <<Empty>>
    ELSE LET p == ResolveDotSegments(path)
         IN  CollapseSlashes(IF Len(p) > 1 /\ Last(p) = Empty THEN Front(p) ELSE p)

\* Without a trailing slash, except for the root.
NormalPath(path) ==
    IF path = <<>> THEN <<Empty>>
    ELSE LET p == CollapseSlashes(ResolveDotSegments(path))
         IN  IF Len(p) > 1 /\ Last(p) = Empty THEN Front(p) ELSE p

\* resolvePath of net/url, which is RFC 3986: ".." removes whatever is before it.
RfcStep(stack, seg) ==
    CASE seg = "."  -> stack
      [] seg = ".." -> IF stack = <<>> THEN stack ELSE Front(stack)
      [] OTHER      -> Append(stack, seg)

RfcStacks(path) ==
    LET stack[n \in 0..Len(path)] ==
          IF n = 0 THEN <<>> ELSE RfcStep(stack[n - 1], path[n])
    IN  stack

RfcPath(path) ==
    RfcStacks(path)[Len(path)] \o
        IF path # <<>> /\ Last(path) \in {".", ".."} THEN <<Empty>> ELSE <<>>

-----------------------------------------------------------------------------
(* URLs *)

Before(p, q) == p[1] < q[1] \/ (p[1] = q[1] /\ p[2] < q[2])
InOrder(query) ==
    \A i, j \in DOMAIN query : i < j => ~Before(query[j], query[i])
Rearranged(query) ==
    {[i \in DOMAIN query |-> query[p[i]]] : p \in Bijection(DOMAIN query, DOMAIN query)}
Kept(query) == Without(query, {p \in ToSet(query) : p[1] \in Stripped})

\* Mutant: the parameters stay in their order.
FilterQuery(query) == Kept(query)

\* Keys in order, and the values of a key in order.
NormalQuery(query) == CHOOSE q \in Rearranged(Kept(query)) : InOrder(q)

DefaultPort(u) == <<u.scheme, u.port>> \in {<<"http", "80">>, <<"https", "443">>}
WithoutDefaultPort(u) == IF DefaultPort(u) THEN [u EXCEPT !.port = Empty] ELSE u

\* "//host/path" is taken for https, and so is "//:80/path".
WithScheme(u) ==
    IF u.scheme = Empty /\ HasAuthority(u) THEN [u EXCEPT !.scheme = "https"] ELSE u

\* The host includes the port, so that a port alone is not an empty host.
NormalizeURL(raw) ==
    LET u == WithScheme(raw)
    IN  IF u.scheme \notin {"http", "https"} \/ (u.name = Empty /\ u.port = Empty)
        THEN Rejected
        ELSE [WithoutDefaultPort(u) EXCEPT
                !.upper = FALSE, !.user = FALSE, !.frag = FALSE,
                !.path = NormalPath(@), !.query = NormalQuery(@)]

\* Only the path, the query and the fragment are given.
Relative(ref) == ref.scheme = Empty /\ ~HasAuthority(ref)

\* Neither path nor query.
Bare(ref) == Relative(ref) /\ ref.path = <<>> /\ ref.query = <<>> /\ ~ref.lone

\* mailto:, javascript: and the like, and a fragment alone.
ShouldSkipLink(href) == href.scheme = "mailto" \/ (Bare(href) /\ href.frag)

\* ResolveReference of net/url.
Resolve(b, ref) ==
    LET u == [ref EXCEPT !.scheme = IF @ = Empty THEN b.scheme ELSE @, !.rooted = TRUE]
        here == [u EXCEPT !.name = b.name, !.port = b.port, !.user = b.user]
    IN  CASE ~Relative(ref) -> [u EXCEPT !.path = RfcPath(@)]
          [] Relative(ref) /\ ref.path = <<>> ->
               [here EXCEPT !.path = RfcPath(b.path),
                            !.query = IF Bare(ref) THEN b.query ELSE @]
          [] Relative(ref) /\ ref.path # <<>> ->
               [here EXCEPT !.path = RfcPath(IF ref.rooted THEN @ ELSE
                   (IF b.path = <<>> THEN <<>> ELSE Front(b.path)) \o @)]

NormalizeLink(u) ==
    [WithoutDefaultPort(u) EXCEPT
        !.upper = FALSE, !.frag = FALSE, !.path = IF @ = <<>> THEN <<Empty>> ELSE @]

-----------------------------------------------------------------------------
(* The way of a list of URLs *)

UrlInit ==
    /\ from \in {"page", "seeds"}
    /\ base \in Bases /\ given \in Inputs
    /\ stage = IF from = "page" THEN "parse" ELSE "new"
    /\ rest = given /\ found = <<>> /\ keys = {}

\* extractLinks: what is kept, once.  An empty href is left out, one of spaces only is
\* a link to the page itself.
ExtractLink ==
    /\ stage = "parse" /\ rest # <<>>
    /\ LET href == Head(rest)
           link == NormalizeLink(Resolve(base, href))
       IN  \/ found' = IF \/ ShouldSkipLink(href)
                          \/ link.scheme \notin {"http", "https"}
                          \/ link \in ToSet(found)
                       THEN found ELSE Append(found, link)
           \/ Bare(href) /\ ~href.frag /\ UNCHANGED found
    /\ rest' = Tail(rest)
    /\ UNCHANGED <<from, base, given, stage, keys>>

\* What NewURL rejects is left out, by the worker and by the request handlers.
NewURL ==
    /\ stage = "new" /\ rest # <<>>
    /\ LET u == NormalizeURL(Head(rest))
       IN  found' = IF u = Rejected THEN found ELSE Append(found, u)
    /\ rest' = Tail(rest)
    /\ UNCHANGED <<from, base, given, stage, keys>>

\* IsSeen normalises the normal form, and gives up the batch if that fails.
\* hashURL normalises a third time.
IsSeen ==
    /\ stage = "seen" /\ rest # <<>>
    /\ LET u == NormalizeURL(Head(rest))
       IN  IF u = Rejected
           THEN rest' = <<>> /\ UNCHANGED keys
           ELSE /\ keys' = keys \cup
                     {IF NormalizeURL(u) = Rejected THEN u ELSE NormalizeURL(u)}
                /\ rest' = Tail(rest)
    /\ UNCHANGED <<from, base, given, stage, found>>

\* The list is done with, and goes on to the next stage.
NextStage ==
    /\ stage # "done" /\ rest = <<>>
    /\ stage' = CASE stage = "parse" -> "new" [] stage = "new" -> "seen"
                  [] stage = "seen" -> "done"
    /\ rest' = found
    /\ found' = IF stage = "parse" THEN <<>> ELSE found
    /\ UNCHANGED <<from, base, given, keys>>

UrlNext == ExtractLink \/ NewURL \/ IsSeen \/ NextStage
UrlSpec == UrlInit /\ [][UrlNext]_urlVars

(******************************* Properties *******************************)

\* The key of a URL does not depend on how often it was normalised: IsSeen,
\* MarkSeen and hashURL, which all normalise anew, agree with NewURL, except for
\* a default port without a host, which NewURL lets pass and IsSeen refuses.
NormalIsStable ==
    stage = "seen" =>
        \A u \in ToSet(found) :
            NormalizeURL(u) = IF u.name = Empty /\ u.port = Empty THEN Rejected ELSE u

\* No ".." comes after an empty segment.
NoDotsAfterEmpty(path) ==
    \A i, j \in DOMAIN path : i < j /\ path[i] = Empty => path[j] # ".."

\* A URL that can be crawled, of whose path net/url and resolveDotSegments make the
\* same: an empty segment is removed by ".." only in the former.
IsPlain(u) ==
    u.scheme \in {"http", "https"} /\ u.name # Empty /\ NoDotsAfterEmpty(u.path)

PortOf(u) ==
    IF u.port # Empty THEN u.port ELSE IF u.scheme = "http" THEN "80" ELSE "443"

\* Two URLs are one up to capitals, credentials, a default port, a fragment, the order
\* of parameters, tracking parameters, dot segments and needless slashes.
SamePage(u, v) ==
    /\ IsPlain(u) /\ IsPlain(v) /\ u.lone = v.lone
    /\ u.scheme = v.scheme /\ u.name = v.name /\ PortOf(u) = PortOf(v)
    /\ Without(RfcPath(u.path), {Empty}) = Without(RfcPath(v.path), {Empty})
    /\ Kept(u.query) \in Rearranged(Kept(v.query))

\* Spellings of one URL have one key, as links of a page and as seeds.
SpellingsAreOne ==
    stage = "done" /\ (\A i, j \in DOMAIN given : SamePage(given[i], given[j]))
        => \A k, l \in keys : k = l

\* A URL has the same key whether it is met as a link, when net/url resolves its
\* dot segments by RFC 3986, or as a seed, when resolveDotSegments does, unless
\* IsSeen refuses another URL of the page, and with it all that come later.
LinksAreLikeSeeds ==
    stage = "done" /\ from = "page" =>
        \A i \in DOMAIN given :
            IsPlain(given[i]) => \/ NormalizeURL(given[i]) \in keys
                                 \/ \E u \in ToSet(found) : NormalizeURL(u) = Rejected
=============================================================================
