------------------------------- MODULE LLRPMessages -------------------------------
(*****************************************************************************
The standard messages of protocol/messages.py.
*****************************************************************************)

EXTENDS LLRPStructs

CapabilityAndROSpecMessages ==
    [GET_READER_CAPABILITIES |-> StandardMsg(1, <<8>>), GET_READER_CAPABILITIES_RESPONSE |-> StandardMsg(11, <<>>),
     ADD_ROSPEC |-> StandardMsg(20, <<>>), ADD_ROSPEC_RESPONSE |-> StandardMsg(30, <<>>),
     DELETE_ROSPEC |-> StandardMsg(21, <<32>>), DELETE_ROSPEC_RESPONSE |-> StandardMsg(31, <<>>),
     START_ROSPEC |-> StandardMsg(22, <<32>>), START_ROSPEC_RESPONSE |-> StandardMsg(32, <<>>),
     STOP_ROSPEC |-> StandardMsg(23, <<32>>), STOP_ROSPEC_RESPONSE |-> StandardMsg(33, <<>>)]

ROSpecAndAccessSpecMessages ==
    [ENABLE_ROSPEC |-> StandardMsg(24, <<32>>), ENABLE_ROSPEC_RESPONSE |-> StandardMsg(34, <<>>),
     DISABLE_ROSPEC |-> StandardMsg(25, <<32>>), DISABLE_ROSPEC_RESPONSE |-> StandardMsg(35, <<>>),
     GET_ROSPECS |-> StandardMsg(26, <<>>), GET_ROSPECS_RESPONSE |-> StandardMsg(36, <<>>),
     ADD_ACCESSSPEC |-> StandardMsg(40, <<>>), ADD_ACCESSSPEC_RESPONSE |-> StandardMsg(50, <<>>),
     DELETE_ACCESSSPEC |-> StandardMsg(41, <<32>>), DELETE_ACCESSSPEC_RESPONSE |-> StandardMsg(51, <<>>),
     ENABLE_ACCESSSPEC |-> StandardMsg(42, <<32>>)]

ConfigMessages ==
    [ENABLE_ACCESSSPEC_RESPONSE |-> StandardMsg(52, <<>>), DISABLE_ACCESSSPEC |-> StandardMsg(43, <<32>>),
     DISABLE_ACCESSSPEC_RESPONSE |-> StandardMsg(53, <<>>), GET_ACCESSSPECS |-> StandardMsg(44, <<>>),
     GET_ACCESSSPECS_RESPONSE |-> StandardMsg(54, <<>>), GET_READER_CONFIG |-> StandardMsg(2, <<16, 8, 16, 16>>),
     GET_READER_CONFIG_RESPONSE |-> StandardMsg(12, <<>>), SET_READER_CONFIG |-> StandardMsg(3, <<1, -7>>),
     SET_READER_CONFIG_RESPONSE |-> StandardMsg(13, <<>>)]

ConnectionMessages ==
    [CLOSE_CONNECTION |-> StandardMsg(14, <<>>), CLOSE_CONNECTION_RESPONSE |-> StandardMsg(4, <<>>),
     GET_REPORT |-> StandardMsg(60, <<>>), RO_ACCESS_REPORT |-> StandardMsg(61, <<>>), KEEPALIVE |-> StandardMsg(62, <<>>),
     KEEPALIVE_ACK |-> StandardMsg(72, <<>>), READER_EVENT_NOTIFICATION |-> StandardMsg(63, <<>>),
     ENABLE_EVENTS_AND_REPORTS |-> StandardMsg(64, <<>>), ERROR_MESSAGE |-> StandardMsg(100, <<>>)]

\* The _SLOTS of the messages.
MessageSlots ==
    [GET_READER_CAPABILITIES |-> <<Customs>>,
     GET_READER_CAPABILITIES_RESPONSE |-> <<Req({"LLRPStatus"}), Opt({"GeneralDeviceCapabilities"}),
           Opt({"LLRPCapabilities"}), Opt({"RegulatoryCapabilities"}), Opt({"C1G2LLRPCapabilities"}),
           Customs>>,
     ADD_ROSPEC |-> <<Req({"ROSpec"})>>, ADD_ROSPEC_RESPONSE |-> <<Req({"LLRPStatus"})>>,
     DELETE_ROSPEC_RESPONSE |-> <<Req({"LLRPStatus"})>>,
     START_ROSPEC_RESPONSE |-> <<Req({"LLRPStatus"})>>,
     STOP_ROSPEC_RESPONSE |-> <<Req({"LLRPStatus"})>>,
     ENABLE_ROSPEC_RESPONSE |-> <<Req({"LLRPStatus"})>>,
     DISABLE_ROSPEC_RESPONSE |-> <<Req({"LLRPStatus"})>>,
     GET_ROSPECS_RESPONSE |-> <<Req({"LLRPStatus"}), Many({"ROSpec"})>>,
     ADD_ACCESSSPEC |-> <<Req({"AccessSpec"})>>,
     ADD_ACCESSSPEC_RESPONSE |-> <<Req({"LLRPStatus"})>>,
     DELETE_ACCESSSPEC_RESPONSE |-> <<Req({"LLRPStatus"})>>,
     ENABLE_ACCESSSPEC_RESPONSE |-> <<Req({"LLRPStatus"})>>,
     DISABLE_ACCESSSPEC_RESPONSE |-> <<Req({"LLRPStatus"})>>,
     GET_ACCESSSPECS_RESPONSE |-> <<Req({"LLRPStatus"}), Many({"AccessSpec"})>>,
     GET_READER_CONFIG |-> <<Customs>>,
     GET_READER_CONFIG_RESPONSE |-> <<Req({"LLRPStatus"}), Opt({"Identification"}),
           Many({"AntennaProperties"}), Many({"AntennaConfiguration"}),
           Opt({"ReaderEventNotificationSpec"}), Opt({"ROReportSpec"}), Opt({"AccessReportSpec"}),
           Opt({"LLRPConfigurationStateValue"}), Opt({"KeepaliveSpec"}), Many({"GPIPortCurrentState"}),
           Many({"GPOWriteData"}), Opt({"EventsAndReports"}), Customs>>,
     SET_READER_CONFIG |-> <<Opt({"ReaderEventNotificationSpec"}), Many({"AntennaProperties"}),
           Many({"AntennaConfiguration"}), Opt({"ROReportSpec"}), Opt({"AccessReportSpec"}),
           Opt({"KeepaliveSpec"}), Many({"GPOWriteData"}), Many({"GPIPortCurrentState"}),
           Opt({"EventsAndReports"}), Customs>>,
     SET_READER_CONFIG_RESPONSE |-> <<Req({"LLRPStatus"})>>,
     CLOSE_CONNECTION_RESPONSE |-> <<Req({"LLRPStatus"})>>,
     RO_ACCESS_REPORT |-> <<Many({"TagReportData"}), Many({"RFSurveyReportData"}), Customs>>,
     READER_EVENT_NOTIFICATION |-> <<Req({"ReaderEventNotificationData"})>>,
     ERROR_MESSAGE |-> <<Req({"LLRPStatus"})>>]

Messages ==
    CapabilityAndROSpecMessages @@ ROSpecAndAccessSpecMessages
    @@ ConfigMessages @@ ConnectionMessages

==============================================================================
