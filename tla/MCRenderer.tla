----------------------------- MODULE MCRenderer -----------------------------
(* Small sets of registrations, each around one part of the registry.  Names   *)
(* end in the terminator "0" as the tests' do, except in Drawn and DrawnTwice,  *)
(* whose base name ends in a colon and whose variants are empty: the only kind   *)
(* of name that the activation's lookup finds.                                  *)
EXTENDS Renderer

Plain(t, n) == [t |-> t, n |-> <<n, "0">>, uses |-> <<>>]
Using(t, n, uses) == [t |-> t, n |-> <<n, "0">>, uses |-> uses]
Use(role, n) ==
  <<role, CASE role \in {"vparam", "pparam"} -> "param" [] OTHER -> role, <<n, "0">>>>
Pass(n, variant, uses) ==
  [t |-> "pass", n |-> <<n, "0">>, variant |-> variant, uses |-> uses]
Type(n, base) == [t |-> "type", n |-> <<n, "0">>, base |-> base, uses |-> <<>>]
Shader(base, variant, vs, ps, uses) ==
  [t |-> "shader", n |-> base, variant |-> variant, vs |-> vs, ps |-> ps, uses |-> uses]

Colored == <<"s", ":">>

\* An object whose one pass finds its shader, whose parameter is set by a
\* global argument.
Drawn ==
  {Plain("viewport", "v"), Plain("decl", "d"), Plain("data", "x"), Plain("fparam", "f"),
   Plain("tparam", "u"), Type("y", Colored),
   Shader(Colored, <<>>, "vs1", "ps1",
          <<Use("decl", "d"), Use("vparam", "f"), Use("vparam", "u")>>),
   Using("arg", "a", <<Use("param", "f")>>), Using("arg", "b", <<Use("param", "u")>>),
   Using("global", "f", <<Use("arg", "a")>>),
   Pass("p", <<>>, <<>>), Using("passes", "q", <<Use("pass", "p")>>),
   Using("object", "o", <<Use("viewport", "v"), Use("type", "y"), Use("data", "x"),
                          Use("arg", "b")>>)}

\* An object that gets a render key in each of two passes.
DrawnTwice ==
  {Plain("viewport", "v"), Plain("decl", "d"), Plain("data", "x"), Type("y", Colored),
   Shader(Colored, <<>>, "vs1", "ps1", <<Use("decl", "d")>>),
   Pass("p", <<>>, <<>>), Using("passes", "q", <<Use("pass", "p"), Use("pass", "p")>>),
   Using("object", "o", <<Use("viewport", "v"), Use("type", "y"), Use("data", "x")>>)}

\* Two objects of one view port, a pass that draws to a target twice, and two
\* activations to choose from; no shader is found.
Activated ==
  {Plain("viewport", "v"), Plain("data", "x"), Type("y", <<"s", "0">>),
   Plain("target", "t"), Plain("back", "b"),
   Pass("p", <<"w", "0">>, <<Use("target", "t"), Use("target", "t")>>),
   Using("passes", "q", <<Use("pass", "p")>>), Using("passes", "r", <<>>),
   Using("object", "o", <<Use("viewport", "v"), Use("type", "y"), Use("data", "x")>>)}

\* Two shaders that share the vertex shader and their parameters.
Shaded ==
  {Plain("decl", "d"), Plain("fparam", "f"), Plain("tparam", "u"),
   Shader(<<"s", "0">>, <<"w", "0">>, "vs1", "ps1",
          <<Use("decl", "d"), Use("vparam", "f"), Use("vparam", "u"), Use("pparam", "f")>>),
   Shader(<<"s", "0">>, <<"z", "0">>, "vs1", "ps2",
          <<Use("decl", "d"), Use("pparam", "f"), Use("pparam", "u")>>),
   Using("arg", "a", <<Use("param", "f")>>), Using("arg", "b", <<Use("param", "u")>>),
   Using("global", "u", <<Use("arg", "b")>>)}

Named(S, names) == {r \in S : r.n[1] \in names}

CONSTANTS c1, c2
Scene(first, second) == c1 :> first @@ c2 :> second

MCScenes ==
  {Scene(Drawn, {}),
   Scene(DrawnTwice, {}),
   Scene(Activated, Named(Activated, {"t", "p"})),
   Scene(Named(Activated, {"v", "x", "y", "o", "r"}), Named(Activated, {"v", "x", "y", "o"})),
   Scene(Shaded, Named(Shaded, {"d", "f", "u", "b"}))}

Default == <<<<"ViewPort", 2>>, <<"RenderPass", 4>>, <<"VertexDecl", 6>>,
             <<"Shader", 6>>, <<"Depth", 6>>>>
\* One bit is left, which two render keys need.
Tight == <<<<"Shader", 30>>, <<"ViewPort", 30>>, <<"Depth", 3>>>>
MCFieldSetups == <<Default, Tight>>
MCMaxActive == [objs |-> 2, vps |-> 1, decls |-> 1, shdrs |-> 2, rkeys |-> 2]

==============================================================================
