--------------------------- MODULE MCEffectEngine ---------------------------
(* Small instances of EffectEngine.                                        *)
EXTENDS EngineProperties, TLC

CONSTANTS p, q, r,        \* three paths
          a, b,           \* two file states a specification declares
          part,           \* some of the bytes of a file
          rawb,           \* all bytes of b, at the mode of a staging file
          drift,          \* a content nobody declares
          Top, Attic      \* two directories that always exist

\* File a has mode 0600 and the first bytes of b, which has another mode.
RawOf == [f \in {a, b} |-> IF f = a THEN a ELSE rawb]
PrefixesOf == [f \in {a, b} |-> IF f = a THEN {part} ELSE {part, a}]

\* Both files have mode 0600, and neither begins like the other.
RawIsFinished == [f \in {a, b} |-> f]
DistinctPrefixes == [f \in {a, b} |-> {part}]

Effect(kind, path, dest, pre, post) ==
  [kind |-> kind, path |-> path, dest |-> dest, pre |-> pre, post |-> post]

Replace(x, f, g) == Effect("replace", x, x, f, g)
Create(x, f) == Effect("create", x, x, "absent", f)
Delete(x, f) == Effect("delete", x, x, f, "absent")
Move(x, y, f) == Effect("move", x, y, f, "absent")
Mkdir(x) == Effect("mkdir", x, x, "absent", "dir")

FileEffects(paths) ==
  {Replace(x, f, g) : x \in paths, f \in {a, b}, g \in {a, b}}
    \cup {Create(x, f) : x \in paths, f \in {a, b}}
    \cup {Delete(x, f) : x \in paths, f \in {a, b}}
    \cup {Move(x, y, f) : x \in paths, y \in paths, f \in {a, b}}

ThreePaths == {p, q, r}

\* Two paths in two directories, and one beneath the first of them.
ParentOf == (p :> Top @@ q :> Attic @@ r :> p)

\* Any effects on two files, or a directory and effects on a file in it.
AllPrograms ==
  [Effects -> FileEffects({p, q})]
    \cup {prog \in [Effects -> {Mkdir(p)} \cup FileEffects({r})] :
            Mkdir(p) \in {prog[i] : i \in Effects}}

\* Every single effect, up to an exchange of the two paths.
SinglePrograms ==
  {prog \in AllPrograms : \A i \in Effects : prog[i].path = p}

\* The specifications of single claims.
ReplaceAlone == {<<Replace(p, a, b)>>}
MoveAlone == {<<Move(p, q, a)>>}
MoveThenReplace == {<<Move(p, q, a), Replace(q, a, b)>>}
=============================================================================
