------------------------------ MODULE MCPlugins ------------------------------
(* Two plugins that register one thing of each kind; two objects of one may come
   from two classes of a file or from two activations. *)
EXTENDS Plugins
MCPluginNames == {"p", "q"}
MCRegisters == <<"widget", "button", "separator", "menu">>
=============================================================================
