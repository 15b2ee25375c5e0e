---------------------------- MODULE MCAuditChain ------------------------------
(* Small instances of AuditChain. *)
EXTENDS AuditChain

CONSTANTS a1, a2, v1, viewer

MCSigners == {a1, a2, v1}
MCAdmins == {a1, a2}
MCViewers == {viewer}
MCPayloads ==
    {<<"role_change", a1>>, <<"cross_sign", v1>>, <<"device_add", v1>>, <<"device_revoke", a2>>}
TwoClocks == {0, 2}
===============================================================================
